----------------------------- MODULE MCIncoming -----------------------------
(* Incoming for TLC: the topics of the arriving messages and the filters. *)
EXTENDS Incoming

MCDollarLevels == {"$s"}

(* The first and the last match both lists, the first by the parent level of *)
(* a '#'; the second only the store's, as no '+' takes its '$'; the third    *)
(* only the webhook's, by a '+' for an empty level.  A '#' that is not last  *)
(* takes nothing.                                                            *)
MCTopic == << <<"a">>, <<"$s", "b">>, <<"b", "">>, <<"a">> >>
MCNumeric == {1, 2, 3, 4}
MCSubscribe == { <<"a", "#">>, <<"$s", "#">>, <<"#", "">> }
MCWebhook == { <<"a">>, <<"b", "+">>, <<"+", "b">> }
=============================================================================
