---------------------------- MODULE MCHttpServer ----------------------------
(* HttpServer for TLC: the UNIX socket and one TCP listener. *)
EXTENDS HttpServer, TLC

MCListeners == {0, 1}
=============================================================================
