---------------------------- MODULE SocketSetup ----------------------------
(***************************************************************************)
(* The UNIX socket's directory entry, which every instance of the service   *)
(* started on the same path shares: Server::setup_socket() with its probe   *)
(* for a live listener, and the removal in cleanup() and ~Server()          *)
(* (src/server.cpp).  One step per system call, since another instance may  *)
(* be between any two of its own.                                           *)
(*                                                                         *)
(* The file system is external.  What a path names is nothing, a plain      *)
(* file, the socket an instance holds open (named by the instance), or a    *)
(* socket nobody holds open any more.                                       *)
(***************************************************************************)
CONSTANTS Instances,   \* processes that may be started, one after the other or together
          Paths,       \* socket= paths
          Modes        \* socket_mode= values

CONSTANTS None, PlainFile, StaleSocket, UmaskMode

ASSUME EntryAssumption ==
  /\ Instances \cap {None, PlainFile, StaleSocket} = {}
  /\ None # PlainFile /\ None # StaleSocket /\ PlainFile # StaleSocket
ASSUME ModesAssumption == UmaskMode \notin Modes

VARIABLES
  pc,         \* instance -> where it is
  path,       \* instance -> cfg_.socket_path
  mode,       \* instance -> cfg_.socket_mode
  created,    \* instance -> socket_created_
  entry,      \* external: path -> what it names
  listening,  \* external: listen() has been called on the instance's socket
  perm,       \* external: instance -> the permissions of its socket's inode
  orphans,    \* history: paths where a kill or a failed unlink() left a dead socket
  disturbed   \* history: paths two instances touched at once, or probed in vain

server == <<pc, path, mode, created>>
files == <<entry, listening, perm>>
history == <<orphans, disturbed>>
socketvars == <<server, files, history>>

Pcs == {"off", "lstat", "probe", "remove", "bind", "chmod", "listen", "tcp",
        "serving", "close", "unlink"}

SocketTypeOK ==
  /\ pc \in [Instances -> Pcs]
  /\ path \in [Instances -> Paths]
  /\ mode \in [Instances -> Modes]
  /\ created \in [Instances -> BOOLEAN]
  /\ entry \in [Paths -> Instances \cup {None, PlainFile, StaleSocket}]
  /\ listening \in [Instances -> BOOLEAN]
  /\ perm \in [Instances -> Modes \cup {UmaskMode}]
  /\ orphans \subseteq Paths
  /\ disturbed \subseteq Paths

(* Nothing runs; a plain file or a dead process's socket may be in the way. *)
SocketInit(p, m) ==
  /\ pc = [i \in Instances |-> "off"]
  /\ path = [i \in Instances |-> p]
  /\ mode = [i \in Instances |-> m]
  /\ created = [i \in Instances |-> FALSE]
  /\ \E found \in {None, PlainFile, StaleSocket} : entry = [q \in Paths |-> found]
  /\ listening = [i \in Instances |-> FALSE]
  /\ perm = [i \in Instances |-> UmaskMode]
  /\ orphans = {q \in Paths : entry[q] = StaleSocket}
  /\ disturbed = {}

Goto(i, where) == pc' = [pc EXCEPT ![i] = where]
Entry(i) == entry[path[i]]

(* The instance is between its first look at the path and listen(), or       *)
(* between closing its socket and removing it.                               *)
Touching(i) == pc[i] \in {"lstat", "probe", "remove", "bind", "chmod", "listen",
                          "close", "unlink"}

(* A connect() to the path is accepted. *)
HasLiveListener(p) == entry[p] \in Instances /\ listening[entry[p]]

-----------------------------------------------------------------------------
(* Server::setup_socket() *)

(* ensure_socket_directory() made or found a directory it can write. *)
Begin(i, p, m) ==
  /\ pc[i] = "off"
  /\ Goto(i, "lstat")
  /\ path' = [path EXCEPT ![i] = p] /\ mode' = [mode EXCEPT ![i] = m]
  /\ UNCHANGED <<created, files, orphans>>

(* init() fails: ~Server() closes what is open and removes what was created. *)
(* Any step of setup_socket() may fail, and setup_tcp_listeners() after it.  *)
InitFails(i) ==
  /\ pc[i] \in {"lstat", "remove", "bind", "chmod", "listen", "tcp"}
  /\ Goto(i, "close")
  /\ UNCHANGED <<path, mode, created, files, orphans>>

Lstat(i) ==
  /\ pc[i] = "lstat"
  /\ Goto(i, CASE Entry(i) = None -> "bind"
               [] Entry(i) = PlainFile -> "close"
               [] OTHER -> "probe")
  /\ UNCHANGED <<path, mode, created, files, orphans>>

(* path_has_live_listener().  Its socket() or connect() may also fail for    *)
(* another reason (no descriptor, no permission), which counts as no         *)
(* listener.                                                                 *)
Probe(i) ==
  /\ pc[i] = "probe"
  /\ \/ HasLiveListener(path[i]) /\ Goto(i, "close")
     \/ Goto(i, "remove")
  /\ UNCHANGED <<path, mode, created, files, orphans>>

(* unlink(): whatever the path names by now; nothing there is an error. *)
RemoveStale(i) ==
  /\ pc[i] = "remove"
  /\ Goto(i, IF Entry(i) = None THEN "close" ELSE "bind")
  /\ entry' = [entry EXCEPT ![path[i]] = None]
  /\ orphans' = orphans \ {path[i]}
  /\ UNCHANGED <<path, mode, created, listening, perm>>

(* Mutant: socket_created_ is left for the end of init() to set. *)
BindUnnoted(i) ==
  /\ pc[i] = "bind"
  /\ IF Entry(i) # None
     THEN Goto(i, "close") /\ UNCHANGED <<entry, perm>>
     ELSE /\ Goto(i, "chmod")
          /\ entry' = [entry EXCEPT ![path[i]] = i]
          /\ perm' = [perm EXCEPT ![i] = UmaskMode]
  /\ UNCHANGED <<path, mode, created, listening, orphans>>

Bind(i) ==
  /\ pc[i] = "bind"
  /\ IF Entry(i) # None
     THEN Goto(i, "close") /\ UNCHANGED <<created, entry, perm>>
     ELSE /\ Goto(i, "chmod")
          /\ created' = [created EXCEPT ![i] = TRUE]
          /\ entry' = [entry EXCEPT ![path[i]] = i]
          /\ perm' = [perm EXCEPT ![i] = UmaskMode]
  /\ UNCHANGED <<path, mode, listening, orphans>>

(* chmod() goes by the path, so it may reach another instance's socket. *)
Chmod(i) ==
  /\ pc[i] = "chmod"
  /\ Goto(i, IF Entry(i) = None THEN "close" ELSE "listen")
  /\ perm' = [j \in Instances |-> IF j = Entry(i) THEN mode[i] ELSE perm[j]]
  /\ UNCHANGED <<path, mode, created, entry, listening, orphans>>

Listen(i) ==
  /\ pc[i] = "listen"
  /\ Goto(i, "tcp")
  /\ listening' = [listening EXCEPT ![i] = TRUE]
  /\ UNCHANGED <<path, mode, created, entry, perm, orphans>>

(* setup_tcp_listeners() and the pool succeed, main() calls run(). *)
Run(i) ==
  /\ pc[i] = "tcp"
  /\ Goto(i, "serving")
  /\ UNCHANGED <<path, mode, created, files, orphans>>

-----------------------------------------------------------------------------
(* cleanup() and ~Server() *)

(* run() returns: a signal, or poll() failed. *)
RunEnds(i) ==
  /\ pc[i] = "serving"
  /\ Goto(i, "close")
  /\ UNCHANGED <<path, mode, created, files, orphans>>

(* Without a descriptor the socket's inode is dead, its entry stays. *)
Abandon(i) == entry' = [p \in Paths |-> IF entry[p] = i THEN StaleSocket ELSE entry[p]]

(* Mutant: the path is removed whether or not this instance created it. *)
CloseAndUnlink(i) ==
  /\ pc[i] = "close"
  /\ Goto(i, "unlink")
  /\ Abandon(i)
  /\ listening' = [listening EXCEPT ![i] = FALSE]
  /\ UNCHANGED <<path, mode, created, perm, orphans>>

CloseSocket(i) ==
  /\ pc[i] = "close"
  /\ Goto(i, IF created[i] THEN "unlink" ELSE "off")
  /\ Abandon(i)
  /\ listening' = [listening EXCEPT ![i] = FALSE]
  /\ UNCHANGED <<path, mode, created, perm, orphans>>

(* unlink() if socket_created_, whatever the path names by now; nothing      *)
(* there (ENOENT) counts as removed.                                         *)
UnlinkSocket(i) ==
  /\ pc[i] = "unlink"
  /\ Goto(i, "off")
  /\ entry' = [entry EXCEPT ![path[i]] = None]
  /\ created' = [created EXCEPT ![i] = FALSE]
  /\ orphans' = orphans \ {path[i]}
  /\ UNCHANGED <<path, mode, listening, perm>>

(* unlink() fails (the directory became read-only, say): cleanup() warns,    *)
(* ~Server() does not look, and neither tries again.                         *)
UnlinkFails(i) ==
  /\ pc[i] = "unlink" /\ Entry(i) # None
  /\ Goto(i, "off")
  /\ created' = [created EXCEPT ![i] = FALSE]
  /\ orphans' = orphans \cup (IF Entry(i) = StaleSocket THEN {path[i]} ELSE {})
  /\ UNCHANGED <<path, mode, files>>

(* The process is killed. *)
Crash(i) ==
  /\ pc[i] # "off"
  /\ Goto(i, "off")
  /\ Abandon(i)
  /\ orphans' = orphans \cup {p \in Paths : entry[p] = i}
                        \cup (IF pc[i] = "unlink" /\ Entry(i) = StaleSocket
                              THEN {path[i]} ELSE {})
  /\ created' = [created EXCEPT ![i] = FALSE]
  /\ listening' = [listening EXCEPT ![i] = FALSE]
  /\ UNCHANGED <<path, mode, perm>>

SocketStep(i) ==
  \/ InitFails(i) \/ Lstat(i) \/ Probe(i) \/ RemoveStale(i) \/ Bind(i)
  \/ Chmod(i) \/ Listen(i) \/ Run(i)
  \/ RunEnds(i) \/ CloseSocket(i) \/ UnlinkSocket(i) \/ UnlinkFails(i) \/ Crash(i)

(* Every step records the paths two instances are touching after it, and a   *)
(* probe that missed a live listener.                                        *)
RecordDisturbance ==
  disturbed' = disturbed
    \cup {p \in Paths : \E i, j \in Instances :
            i # j /\ Touching(i)' /\ Touching(j)' /\ path'[i] = p /\ path'[j] = p}
    \cup {p \in Paths : \E i \in Instances :
            pc[i] = "probe" /\ pc'[i] = "remove" /\ path[i] = p /\ HasLiveListener(p)}

-----------------------------------------------------------------------------
(* An instance that serves can be reached: its path names its own socket,    *)
(* listening, with the permissions configured, as long as no two instances   *)
(* were inside setup_socket() or cleanup() on that path at the same time and *)
(* no probe of a live listener failed.                                       *)
(* Instances that are refused, fail half way, are killed or stop and start   *)
(* again never take the socket of one that serves (server.cpp:232-238, 273,  *)
(* 904-915).                                                                 *)
ServingIsReachable ==
  \A i \in Instances :
    pc[i] = "serving" /\ path[i] \notin disturbed =>
      /\ HasLiveListener(path[i]) /\ Entry(i) = i
      /\ perm[i] = mode[i]

(* A socket without a process is the work of a kill or of an unlink() that   *)
(* failed: an instance that ends on its own, after whichever step of init()  *)
(* failed or after a signal, tries to take the entry it made with it, and    *)
(* never leaves it for want of trying, also when instances overlap           *)
(* (~Server() and cleanup() unlink if socket_created_, which is set right    *)
(* after bind(), server.cpp:103-106, 268-273, 904-915).                      *)
SocketGoesWithProcess ==
  \A p \in Paths :
    entry[p] = StaleSocket =>
      \/ p \in orphans
      \/ \E i \in Instances : pc[i] = "unlink" /\ path[i] = p
=============================================================================
