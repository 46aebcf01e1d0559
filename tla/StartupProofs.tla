--------------------------- MODULE StartupProofs ---------------------------
(***************************************************************************)
(* What Startup promises for any number of instances on any paths, each     *)
(* with any file and any environment.                                       *)
(*                                                                         *)
(* The socket: the two invariants of SocketSetup.  Of the configuration     *)
(* they only need that Paths and Modes hold what is configured.             *)
(*                                                                         *)
(* The configuration: main() starts exactly on what it may, with the values *)
(* the file and the environment mean.  The argument goes from trim() over   *)
(* one line and its value to the file, by an induction over its lines that  *)
(* looks for the least number of lines at which it fails.                   *)
(***************************************************************************)
EXTENDS Startup, SequenceTheorems, WellFoundedInduction, TLAPS

(* An entry that names an instance was made by it, for its own path. *)
EntryIsOwners ==
  \A p \in Paths : \A i \in Instances :
    entry[p] = i => /\ path[i] = p /\ created[i]
                    /\ pc[i] \in {"chmod", "listen", "tcp", "serving", "close"}

(* socket_created_ is set from bind() until the removal. *)
CreatedLife ==
  \A i \in Instances :
    /\ created[i] => pc[i] \in {"chmod", "listen", "tcp", "serving", "close", "unlink"}
    /\ pc[i] \in {"chmod", "listen", "tcp", "serving", "unlink"} => created[i]

ListeningLife ==
  \A i \in Instances : pc[i] \in {"tcp", "serving"} => listening[i]

(* What a start leaves behind holds whatever the others do. *)
LifeInv == EntryIsOwners /\ CreatedLife /\ ListeningLife /\ SocketGoesWithProcess

(* On a path that was not disturbed one instance at a time is at work. *)
TouchedByOne ==
  \A i, j \in Instances :
    i # j /\ path[i] = path[j] /\ path[i] \notin disturbed => ~(Touching(i) /\ Touching(j))

(* From bind() until it closes its socket the path names it, and from        *)
(* chmod() on with the mode configured.                                      *)
HoldsItsPath ==
  \A i \in Instances : path[i] \notin disturbed =>
    /\ pc[i] \in {"chmod", "listen", "tcp", "serving"} => Entry(i) = i
    /\ pc[i] \in {"listen", "tcp", "serving"} => perm[i] = mode[i]

(* While it listens, no other instance gets past its probe of that path. *)
OthersAreRefused ==
  \A i, j \in Instances :
    /\ i # j /\ path[i] = path[j] /\ path[i] \notin disturbed
    /\ pc[i] \in {"tcp", "serving"}
    => pc[j] \in {"off", "lstat", "probe", "close"} /\ ~created[j]

PathInv == TouchedByOne /\ HoldsItsPath /\ OthersAreRefused

StartTypeOK == SocketTypeOK /\ \A i \in Instances : start[i] \in Starts(i)

-----------------------------------------------------------------------------
(* What main() decides is a start on a configured path, or nothing at all. *)
LEMMA MainStarts ==
  ASSUME NEW i \in Instances, start[i] \in Starts(i), Main(i)
  PROVE  \/ \E p \in Paths : \E m \in Modes : Begin(i, p, m)
         \/ UNCHANGED <<server, files, orphans>>
<1> DEFINE r == Configure(start[i])
<1>1. r.ok => r.cfg.socket \in Paths /\ r.cfg.socket_mode \in Modes
  BY StartsAssumption
<1>2. IF r.ok THEN Begin(i, r.cfg.socket, r.cfg.socket_mode)
      ELSE UNCHANGED <<server, files, orphans>>
  BY DEF Main
<1> HIDE DEF r
<1> QED  BY <1>1, <1>2

(* Every step is a start, a system call of one instance, or leaves the       *)
(* socket alone.                                                             *)
LEMMA StepCases ==
  ASSUME StartTypeOK, Next
  PROVE  /\ start' = start /\ RecordDisturbance
         /\ \/ \E i \in Instances : \E p \in Paths : \E m \in Modes : Begin(i, p, m)
            \/ \E i \in Instances : SocketStep(i)
            \/ UNCHANGED <<server, files, orphans>>
<1>1. PICK i \in Instances :
        /\ Main(i) \/ (SocketStep(i) /\ UNCHANGED <<start, reading>>)
        /\ RecordDisturbance
  BY DEF Next
<1>2. start[i] \in Starts(i)
  BY DEF StartTypeOK
<1>3. CASE Main(i)
  BY <1>1, <1>2, <1>3, MainStarts DEF Main
<1>4. CASE SocketStep(i) /\ UNCHANGED <<start, reading>>
  BY <1>1, <1>4
<1> QED  BY <1>1, <1>3, <1>4

(* Every decision of main() and every system call keeps the types. *)
LEMMA TypeStep ==
  ASSUME StartTypeOK, [Next]_vars
  PROVE  StartTypeOK'
<1> USE DEF StartTypeOK, SocketTypeOK
<1>1. CASE UNCHANGED vars
  BY <1>1 DEF vars, socketvars, server, files, history
<1>2. CASE Next
  <2>1. start' = start /\ disturbed' \subseteq Paths
    BY <1>2, StepCases DEF RecordDisturbance
  <2>2. CASE UNCHANGED <<server, files, orphans>>
    BY <2>1, <2>2 DEF server, files
  <2>3. ASSUME NEW i \in Instances, NEW p \in Paths, NEW m \in Modes, Begin(i, p, m)
        PROVE  StartTypeOK'
    BY <2>1, <2>3 DEF Begin, Goto, Pcs, files
  <2>4. ASSUME NEW i \in Instances, SocketStep(i)
        PROVE  StartTypeOK'
    <3>1. CASE InitFails(i)
      BY <2>1, <3>1 DEF InitFails, Goto, Pcs, files
    <3>2. CASE Lstat(i)
      BY <2>1, <3>2 DEF Lstat, Goto, Pcs, files
    <3>3. CASE Probe(i)
      BY <2>1, <3>3 DEF Probe, Goto, Pcs, files
    <3>4. CASE RemoveStale(i)
      BY <2>1, <3>4 DEF RemoveStale, Goto, Pcs
    <3>5. CASE Bind(i)
      BY <2>1, <3>5 DEF Bind, Goto, Pcs
    <3>6. CASE Chmod(i)
      BY <2>1, <3>6 DEF Chmod, Goto, Pcs
    <3>7. CASE Listen(i)
      BY <2>1, <3>7 DEF Listen, Goto, Pcs
    <3>8. CASE Run(i)
      BY <2>1, <3>8 DEF Run, Goto, Pcs, files
    <3>9. CASE RunEnds(i)
      BY <2>1, <3>9 DEF RunEnds, Goto, Pcs, files
    <3>10. CASE CloseSocket(i)
      BY <2>1, <3>10 DEF CloseSocket, Abandon, Goto, Pcs
    <3>11. CASE UnlinkSocket(i)
      BY <2>1, <3>11 DEF UnlinkSocket, Goto, Pcs
    <3>12. CASE Crash(i)
      BY <2>1, <3>12 DEF Crash, Abandon, Goto, Pcs
    <3>13. CASE UnlinkFails(i)
      BY <2>1, <3>13 DEF UnlinkFails, Goto, Pcs, files
    <3> QED  BY <2>4, <3>1, <3>2, <3>3, <3>4, <3>5, <3>6, <3>7, <3>8, <3>9, <3>10,
                <3>11, <3>12, <3>13 DEF SocketStep
  <2> QED  BY <1>2, <2>2, <2>3, <2>4, StepCases
<1> QED  BY <1>1, <1>2

(* Every path, mode, entry and permission stays one of those there are, and  *)
(* an instance keeps the file and environment it was given.                  *)
THEOREM TypeCorrect == Spec => []StartTypeOK
<1>1. Init => StartTypeOK
  BY StartsAssumption DEF Init, SocketInit, StartTypeOK, SocketTypeOK, Pcs
<1>2. StartTypeOK /\ [Next]_vars => StartTypeOK'
  BY TypeStep
<1> QED  BY <1>1, <1>2, PTL DEF Spec

-----------------------------------------------------------------------------
(* SocketGoesWithProcess *)

(* A fresh start() owns nothing yet. *)
LEMMA BeginKeepsLife ==
  ASSUME StartTypeOK, LifeInv, NEW i \in Instances, NEW p \in Paths, NEW m \in Modes,
         Begin(i, p, m)
  PROVE  LifeInv'
<1> USE DEF StartTypeOK, SocketTypeOK, LifeInv, Begin, Goto, files
<1>1. EntryIsOwners'
  BY EntryAssumption DEF EntryIsOwners
<1>2. CreatedLife' /\ ListeningLife'
  BY DEF CreatedLife, ListeningLife
<1>3. SocketGoesWithProcess'
  BY DEF SocketGoesWithProcess
<1> QED  BY <1>1, <1>2, <1>3

(* A step that only moves on, created and entry as they are. *)
LEMMA MoveKeepsLife ==
  ASSUME StartTypeOK, LifeInv, NEW i \in Instances,
         InitFails(i) \/ Lstat(i) \/ Probe(i) \/ Chmod(i) \/ Listen(i) \/ Run(i) \/ RunEnds(i)
  PROVE  LifeInv'
<1> USE DEF StartTypeOK, SocketTypeOK, LifeInv, Goto, files
<1>1. /\ UNCHANGED <<path, created, entry, orphans>>
      /\ \A j \in Instances \ {i} : pc'[j] = pc[j] /\ listening'[j] = listening[j]
  BY DEF InitFails, Lstat, Probe, Chmod, Listen, Run, RunEnds
<1>2. /\ created[i] => pc'[i] \in {"chmod", "listen", "tcp", "serving", "close"}
      /\ pc'[i] \in {"chmod", "listen", "tcp", "serving"} => created[i]
      /\ pc'[i] # "unlink" /\ pc[i] # "unlink"
      /\ pc'[i] \in {"tcp", "serving"} => listening'[i]
  BY DEF InitFails, Lstat, Probe, Chmod, Listen, Run, RunEnds, CreatedLife, ListeningLife
<1>3. EntryIsOwners'
  BY <1>1, <1>2 DEF EntryIsOwners
<1>4. CreatedLife' /\ ListeningLife'
  BY <1>1, <1>2 DEF CreatedLife, ListeningLife
<1>5. SocketGoesWithProcess'
  BY <1>1, <1>2 DEF SocketGoesWithProcess
<1> QED  BY <1>3, <1>4, <1>5

(* Removing a stale path takes the entry from whoever had it. *)
LEMMA RemoveKeepsLife ==
  ASSUME StartTypeOK, LifeInv, NEW i \in Instances, RemoveStale(i)
  PROVE  LifeInv'
<1> USE EntryAssumption DEF StartTypeOK, SocketTypeOK, LifeInv, RemoveStale, Goto
<1>1. EntryIsOwners'
  BY DEF EntryIsOwners
<1>2. CreatedLife' /\ ListeningLife'
  BY DEF CreatedLife, ListeningLife
<1>3. SocketGoesWithProcess'
  BY DEF SocketGoesWithProcess
<1> QED  BY <1>1, <1>2, <1>3

(* bind() makes the entry and notes that this instance created it. *)
LEMMA BindKeepsLife ==
  ASSUME StartTypeOK, LifeInv, NEW i \in Instances, Bind(i)
  PROVE  LifeInv'
<1> USE EntryAssumption DEF StartTypeOK, SocketTypeOK, LifeInv, Bind, Goto
<1>1. EntryIsOwners'
  BY DEF EntryIsOwners, CreatedLife
<1>2. CreatedLife' /\ ListeningLife'
  BY DEF CreatedLife, ListeningLife
<1>3. SocketGoesWithProcess'
  BY DEF SocketGoesWithProcess
<1> QED  BY <1>1, <1>2, <1>3

(* Closing leaves the entry to the unlink() that follows. *)
LEMMA CloseKeepsLife ==
  ASSUME StartTypeOK, LifeInv, NEW i \in Instances, CloseSocket(i)
  PROVE  LifeInv'
<1> USE EntryAssumption DEF StartTypeOK, SocketTypeOK, LifeInv, CloseSocket, Abandon, Goto
<1>1. EntryIsOwners'
  BY DEF EntryIsOwners
<1>2. CreatedLife' /\ ListeningLife'
  BY DEF CreatedLife, ListeningLife
<1>3. SocketGoesWithProcess'
  BY DEF SocketGoesWithProcess, EntryIsOwners
<1> QED  BY <1>1, <1>2, <1>3

(* unlink() on the way out removes the entry, its own or another one's. *)
LEMMA UnlinkKeepsLife ==
  ASSUME StartTypeOK, LifeInv, NEW i \in Instances, UnlinkSocket(i)
  PROVE  LifeInv'
<1> USE EntryAssumption DEF StartTypeOK, SocketTypeOK, LifeInv, UnlinkSocket, Goto
<1>1. EntryIsOwners'
  BY DEF EntryIsOwners
<1>2. CreatedLife' /\ ListeningLife'
  BY DEF CreatedLife, ListeningLife
<1>3. SocketGoesWithProcess'
  BY DEF SocketGoesWithProcess
<1> QED  BY <1>1, <1>2, <1>3

(* An unlink() that fails makes an orphan of a dead entry. *)
LEMMA UnlinkFailsKeepsLife ==
  ASSUME StartTypeOK, LifeInv, NEW i \in Instances, UnlinkFails(i)
  PROVE  LifeInv'
<1> USE EntryAssumption DEF StartTypeOK, SocketTypeOK, LifeInv, UnlinkFails, Goto, files
<1>1. EntryIsOwners'
  BY DEF EntryIsOwners, CreatedLife
<1>2. CreatedLife' /\ ListeningLife'
  BY DEF CreatedLife, ListeningLife
<1>3. SocketGoesWithProcess'
  BY DEF SocketGoesWithProcess, Entry
<1> QED  BY <1>1, <1>2, <1>3

(* A kill makes an orphan of the entry, also between close() and unlink(). *)
LEMMA CrashKeepsLife ==
  ASSUME StartTypeOK, LifeInv, NEW i \in Instances, Crash(i)
  PROVE  LifeInv'
<1> USE EntryAssumption DEF StartTypeOK, SocketTypeOK, LifeInv, Crash, Abandon, Goto
<1>1. EntryIsOwners'
  BY DEF EntryIsOwners
<1>2. CreatedLife' /\ ListeningLife'
  BY DEF CreatedLife, ListeningLife
<1>3. SocketGoesWithProcess'
  <2> SUFFICES ASSUME NEW p \in Paths, entry'[p] = StaleSocket, p \notin orphans'
               PROVE  \E k \in Instances : pc'[k] = "unlink" /\ path'[k] = p
    BY DEF SocketGoesWithProcess
  <2>1. entry[p] = StaleSocket /\ p \notin orphans
    OBVIOUS
  <2>2. PICK k \in Instances : pc[k] = "unlink" /\ path[k] = p
    BY <2>1 DEF SocketGoesWithProcess
  <2>3. k # i
    BY <2>1, <2>2 DEF Entry
  <2> QED  BY <2>2, <2>3
<1> QED  BY <1>1, <1>2, <1>3

(* Every step keeps what an instance created and holds in line with its      *)
(* place in start() and stop().                                              *)
LEMMA LifeStep ==
  ASSUME StartTypeOK, LifeInv, [Next]_vars
  PROVE  LifeInv'
<1>1. CASE UNCHANGED <<server, files, orphans>>
  BY <1>1 DEF server, files, LifeInv, EntryIsOwners, CreatedLife, ListeningLife,
              SocketGoesWithProcess
<1>2. CASE \E i \in Instances : \E p \in Paths : \E m \in Modes : Begin(i, p, m)
  BY <1>2, BeginKeepsLife
<1>3. CASE \E i \in Instances : SocketStep(i)
  BY <1>3, MoveKeepsLife, RemoveKeepsLife, BindKeepsLife, CloseKeepsLife, UnlinkKeepsLife,
     UnlinkFailsKeepsLife, CrashKeepsLife DEF SocketStep
<1>4. CASE UNCHANGED vars
  BY <1>1, <1>4 DEF vars, socketvars, history
<1> QED  BY <1>1, <1>2, <1>3, <1>4, StepCases

(* At first no socket is anywhere. *)
LEMMA LifeInit == Init => LifeInv
BY EntryAssumption, StartsAssumption DEF Init, SocketInit, LifeInv, EntryIsOwners, CreatedLife,
   ListeningLife, SocketGoesWithProcess

(* However many instances start, fail, stop and are killed on a path, and    *)
(* however their system calls interleave: a socket nobody holds open is what *)
(* a kill or a failed unlink() left behind, or the process that made it is   *)
(* about to remove it (server.cpp:103-106, 273, 904-915).                    *)
THEOREM SocketIsTakenAlong == Spec => []SocketGoesWithProcess
<1>1. StartTypeOK /\ LifeInv /\ [Next]_vars => LifeInv'
  BY LifeStep
<1>2. LifeInv => SocketGoesWithProcess
  BY DEF LifeInv
<1> QED  BY LifeInit, TypeCorrect, <1>1, <1>2, PTL DEF Spec

-----------------------------------------------------------------------------
(* ServingIsReachable *)

(* RecordDisturbance sees two instances at work on a path. *)
LEMMA TouchedStep ==
  ASSUME StartTypeOK', RecordDisturbance
  PROVE  TouchedByOne' /\ disturbed \subseteq disturbed'
BY DEF StartTypeOK, SocketTypeOK, RecordDisturbance, TouchedByOne

(* A new start has created nothing yet and holds no path. *)
LEMMA BeginKeepsPath ==
  ASSUME StartTypeOK, LifeInv, PathInv, NEW i \in Instances, NEW p \in Paths, NEW m \in Modes,
         Begin(i, p, m), RecordDisturbance, StartTypeOK'
  PROVE  PathInv'
<1> USE DEF StartTypeOK, SocketTypeOK, PathInv, Begin, Goto, files
<1>1. TouchedByOne' /\ disturbed \subseteq disturbed'
  BY TouchedStep
<1>2. HoldsItsPath'
  BY <1>1 DEF HoldsItsPath, Entry
<1>3. OthersAreRefused'
  <2>1. ~created[i]
    BY DEF LifeInv, CreatedLife
  <2> QED  BY <1>1, <2>1 DEF OthersAreRefused
<1> QED  BY <1>1, <1>2, <1>3

(* Steps that leave the entry and the permissions alone. *)
LEMMA MoveKeepsPath ==
  ASSUME StartTypeOK, LifeInv, PathInv, NEW i \in Instances,
         InitFails(i) \/ Lstat(i) \/ Probe(i) \/ Listen(i) \/ Run(i) \/ RunEnds(i),
         RecordDisturbance, StartTypeOK'
  PROVE  PathInv'
<1> USE DEF StartTypeOK, SocketTypeOK, PathInv, Goto, files
<1>1. TouchedByOne' /\ disturbed \subseteq disturbed'
  BY TouchedStep
<1>2. /\ UNCHANGED <<path, mode, created, entry, perm>>
      /\ \A j \in Instances \ {i} : pc'[j] = pc[j]
  BY DEF InitFails, Lstat, Probe, Listen, Run, RunEnds
<1>3. /\ pc'[i] \in {"chmod", "listen", "tcp", "serving"}
           => pc[i] \in {"listen", "tcp"}
      /\ pc'[i] \in {"tcp", "serving"} => pc[i] \in {"listen", "tcp"}
  BY DEF InitFails, Lstat, Probe, Listen, Run, RunEnds
<1>4. HoldsItsPath'
  BY <1>1, <1>2, <1>3 DEF HoldsItsPath, Entry
<1>5. ASSUME NEW k \in Instances, NEW j \in Instances, k # j, path[k] = path[j],
             path[k] \notin disturbed', pc'[k] \in {"tcp", "serving"}
      PROVE  pc'[j] \in {"off", "lstat", "probe", "close"} /\ ~created[j]
  <2>1. path[k] \notin disturbed
    BY <1>1, <1>5
  <2>2. CASE k = i /\ pc[i] = "listen"
    <3>1. ~Touching(j)
      BY <1>5, <2>1, <2>2 DEF TouchedByOne, Touching
    <3>2. Entry(i) = i /\ Entry(i) = Entry(j)
      BY <1>5, <2>1, <2>2 DEF HoldsItsPath, Entry
    <3>3. pc[j] \notin {"tcp", "serving"}
      BY <1>5, <2>1, <2>2, <3>2 DEF HoldsItsPath
    <3>4. pc[j] = "off"
      BY <3>1, <3>3 DEF Touching, Pcs
    <3> QED  BY <1>2, <1>5, <2>2, <3>4 DEF LifeInv, CreatedLife
  <2>3. CASE k = i /\ pc[i] # "listen"
    BY <1>2, <1>3, <1>5, <2>1, <2>3 DEF OthersAreRefused
  <2>4. CASE k # i
    <3>1. pc[j] \in {"off", "lstat", "probe", "close"} /\ ~created[j]
      BY <1>2, <1>5, <2>1, <2>4 DEF OthersAreRefused
    <3>2. CASE j # i
      BY <1>2, <3>1, <3>2
    <3>3. CASE j = i
      <4>1. Entry(i) = k /\ HasLiveListener(path[i])
        BY <1>2, <1>5, <2>1, <2>4, <3>3
           DEF HoldsItsPath, Entry, LifeInv, ListeningLife, HasLiveListener
      <4>2. Entry(i) # None
        BY <4>1, EntryAssumption
      <4>3. ~(pc[i] = "probe" /\ pc'[i] = "remove")
        BY <1>5, <3>3, <4>1 DEF RecordDisturbance
      <4> QED  BY <3>1, <3>3, <4>2, <4>3
                  DEF InitFails, Lstat, Probe, Listen, Run, RunEnds
    <3> QED  BY <3>2, <3>3
  <2> QED  BY <2>2, <2>3, <2>4
<1>6. OthersAreRefused'
  BY <1>2, <1>5 DEF OthersAreRefused
<1> QED  BY <1>1, <1>4, <1>6

(* An instance that holds an undisturbed path is not there when another one  *)
(* is at a step that changes it.                                             *)
LEMMA HolderIsAlone ==
  ASSUME StartTypeOK, PathInv, NEW i \in Instances, NEW k \in Instances, i # k,
         path[k] = path[i], path[k] \notin disturbed,
         pc[k] \in {"chmod", "listen", "tcp", "serving"}
  PROVE  pc[i] \notin {"remove", "bind", "chmod", "unlink"}
BY DEF PathInv, TouchedByOne, Touching, OthersAreRefused

(* Removing the path disturbs whoever else is using it, and records that. *)
LEMMA RemoveKeepsPath ==
  ASSUME StartTypeOK, LifeInv, PathInv, NEW i \in Instances, RemoveStale(i),
         RecordDisturbance, StartTypeOK'
  PROVE  PathInv'
<1> USE DEF StartTypeOK, SocketTypeOK, RemoveStale, Goto
<1>1. TouchedByOne' /\ disturbed \subseteq disturbed'
  BY TouchedStep
<1>2. \A k \in Instances : path[k] \notin disturbed' /\ pc'[k] \in {"chmod", "listen", "tcp", "serving"}
        => k # i /\ pc'[k] = pc[k] /\ path[k] # path[i] /\ path[k] \notin disturbed
  BY <1>1, HolderIsAlone
<1>3. HoldsItsPath'
  BY <1>2 DEF PathInv, HoldsItsPath, Entry
<1>4. OthersAreRefused'
  BY <1>2 DEF PathInv, OthersAreRefused
<1> QED  BY <1>1, <1>3, <1>4 DEF PathInv

(* A bind() that succeeds found the path free. *)
LEMMA BindKeepsPath ==
  ASSUME StartTypeOK, LifeInv, PathInv, NEW i \in Instances, Bind(i),
         RecordDisturbance, StartTypeOK'
  PROVE  PathInv'
<1> USE DEF StartTypeOK, SocketTypeOK, Bind, Goto
<1>1. TouchedByOne' /\ disturbed \subseteq disturbed'
  BY TouchedStep
<1>2. \A k \in Instances : k # i /\ path[k] \notin disturbed' /\ pc'[k] \in {"chmod", "listen", "tcp", "serving"}
        => pc'[k] = pc[k] /\ path[k] # path[i] /\ path[k] \notin disturbed
  BY <1>1, HolderIsAlone
<1>3. HoldsItsPath'
  BY <1>2 DEF PathInv, HoldsItsPath, Entry
<1>4. OthersAreRefused'
  BY <1>2 DEF PathInv, OthersAreRefused
<1> QED  BY <1>1, <1>3, <1>4 DEF PathInv

(* chmod() follows the path; while the path is undisturbed, that is the      *)
(* socket this instance bound.                                               *)
LEMMA ChmodKeepsPath ==
  ASSUME StartTypeOK, LifeInv, PathInv, NEW i \in Instances, Chmod(i),
         RecordDisturbance, StartTypeOK'
  PROVE  PathInv'
<1> USE DEF StartTypeOK, SocketTypeOK, Chmod, Goto
<1>1. TouchedByOne' /\ disturbed \subseteq disturbed'
  BY TouchedStep
<1>2. \A k \in Instances : k # i /\ path[k] \notin disturbed' /\ pc'[k] \in {"chmod", "listen", "tcp", "serving"}
        => pc'[k] = pc[k] /\ path[k] # path[i] /\ path[k] \notin disturbed
  BY <1>1, HolderIsAlone
<1>3. \A k \in Instances : path[k] # path[i] => Entry(i) # k
  BY DEF LifeInv, EntryIsOwners, Entry
<1>4. path[i] \notin disturbed' => Entry(i) = i
  BY <1>1 DEF PathInv, HoldsItsPath
<1>5. HoldsItsPath'
  BY <1>1, <1>2, <1>3, <1>4 DEF PathInv, HoldsItsPath, Entry
<1>6. OthersAreRefused'
  BY <1>2 DEF PathInv, OthersAreRefused
<1> QED  BY <1>1, <1>5, <1>6 DEF PathInv

(* Without a descriptor an instance gives up only entries of its own. *)
LEMMA AbandonKeepsPath ==
  ASSUME StartTypeOK, LifeInv, PathInv, NEW i \in Instances, CloseSocket(i) \/ Crash(i),
         RecordDisturbance, StartTypeOK'
  PROVE  PathInv'
<1> USE DEF StartTypeOK, SocketTypeOK, Abandon, Goto
<1>1. TouchedByOne' /\ disturbed \subseteq disturbed'
  BY TouchedStep
<1>2. /\ UNCHANGED <<path, mode, perm>>
      /\ \A k \in Instances \ {i} : pc'[k] = pc[k] /\ created'[k] = created[k]
      /\ \A p \in Paths : entry[p] # i => entry'[p] = entry[p]
  BY DEF CloseSocket, Crash
<1>3. /\ pc'[i] \in {"off", "unlink"}
      /\ pc'[i] = "unlink" => pc[i] = "close" /\ created[i]
      /\ pc'[i] = "off" => ~created'[i]
  BY DEF CloseSocket, Crash
<1>4. HoldsItsPath'
  BY <1>1, <1>2, <1>3, EntryAssumption DEF PathInv, HoldsItsPath, Entry
<1>5. OthersAreRefused'
  BY <1>1, <1>2, <1>3 DEF PathInv, OthersAreRefused
<1> QED  BY <1>1, <1>4, <1>5 DEF PathInv

(* unlink() takes the path away from whoever else is using it, and records   *)
(* that.                                                                     *)
LEMMA UnlinkKeepsPath ==
  ASSUME StartTypeOK, LifeInv, PathInv, NEW i \in Instances, UnlinkSocket(i),
         RecordDisturbance, StartTypeOK'
  PROVE  PathInv'
<1> USE DEF StartTypeOK, SocketTypeOK, UnlinkSocket, Goto
<1>1. TouchedByOne' /\ disturbed \subseteq disturbed'
  BY TouchedStep
<1>2. \A k \in Instances : path[k] \notin disturbed' /\ pc'[k] \in {"chmod", "listen", "tcp", "serving"}
        => k # i /\ pc'[k] = pc[k] /\ path[k] # path[i] /\ path[k] \notin disturbed
  BY <1>1, HolderIsAlone
<1>3. HoldsItsPath'
  BY <1>2 DEF PathInv, HoldsItsPath, Entry
<1>4. OthersAreRefused'
  BY <1>2 DEF PathInv, OthersAreRefused
<1> QED  BY <1>1, <1>3, <1>4 DEF PathInv

(* unlink() fails: the path stays as it is, and with it whoever uses it. *)
LEMMA UnlinkFailsKeepsPath ==
  ASSUME StartTypeOK, LifeInv, PathInv, NEW i \in Instances, UnlinkFails(i),
         RecordDisturbance, StartTypeOK'
  PROVE  PathInv'
<1> USE DEF StartTypeOK, SocketTypeOK, UnlinkFails, Goto, files
<1>1. TouchedByOne' /\ disturbed \subseteq disturbed'
  BY TouchedStep
<1>2. HoldsItsPath'
  BY <1>1 DEF PathInv, HoldsItsPath, Entry
<1>3. OthersAreRefused'
  BY <1>1 DEF PathInv, OthersAreRefused
<1> QED  BY <1>1, <1>2, <1>3 DEF PathInv

(* Every step keeps an undisturbed path in the hands of the one instance     *)
(* that touched it.                                                          *)
LEMMA PathStep ==
  ASSUME StartTypeOK, LifeInv, PathInv, [Next]_vars
  PROVE  PathInv'
<1>1. CASE UNCHANGED vars
  BY <1>1 DEF vars, socketvars, server, files, history, PathInv, TouchedByOne, Touching,
              HoldsItsPath, Entry, OthersAreRefused
<1>2. CASE Next
  <2>1. RecordDisturbance /\ StartTypeOK'
    BY <1>2, StepCases, TypeStep
  <2>2. CASE UNCHANGED <<server, files, orphans>>
    <3>1. TouchedByOne' /\ disturbed \subseteq disturbed'
      BY <2>1, TouchedStep
    <3> QED  BY <2>2, <3>1 DEF server, files, PathInv, HoldsItsPath, Entry, OthersAreRefused
  <2>3. CASE \E i \in Instances : \E p \in Paths : \E m \in Modes : Begin(i, p, m)
    BY <2>1, <2>3, BeginKeepsPath
  <2>4. CASE \E i \in Instances : SocketStep(i)
    BY <2>1, <2>4, MoveKeepsPath, RemoveKeepsPath, BindKeepsPath, ChmodKeepsPath,
       AbandonKeepsPath, UnlinkKeepsPath, UnlinkFailsKeepsPath DEF SocketStep
  <2> QED  BY <1>2, <2>2, <2>3, <2>4, StepCases
<1> QED  BY <1>1, <1>2

(* On a path where no two instances were at work at once and no probe failed *)
(* to see a listener, whoever serves is reached at its path, with its mode:  *)
(* refused, failing, stopping and killed instances, any number of them and   *)
(* on any paths, never take its socket (server.cpp:232-238, 273, 904-915).   *)
THEOREM ServerIsReached == Spec => []ServingIsReachable
<1>1. Init => PathInv
  BY DEF Init, SocketInit, PathInv, TouchedByOne, Touching, HoldsItsPath, OthersAreRefused
<1>2. StartTypeOK /\ LifeInv /\ PathInv /\ [Next]_vars => LifeInv' /\ PathInv'
  BY LifeStep, PathStep
<1>3. LifeInv /\ PathInv => ServingIsReachable
  BY DEF LifeInv, ListeningLife, PathInv, HoldsItsPath, ServingIsReachable, HasLiveListener,
         Entry
<1> QED  BY LifeInit, TypeCorrect, <1>1, <1>2, <1>3, PTL DEF Spec

-----------------------------------------------------------------------------
(* Positions *)

(* A non-empty set of positions has a first and a last one. *)
LEMMA EndPositions ==
  ASSUME NEW n \in Nat, NEW P, P \subseteq 1 .. n, P # {}
  PROVE  /\ Min(P) \in P /\ \A j \in P : Min(P) <= j
         /\ Max(P) \in P /\ \A j \in P : Max(P) >= j
<1> DEFINE R == {ss \in Nat \X Nat : ss[1] < ss[2]}
           T == {n - k : k \in P}
<1>0. IsWellFoundedOn(R, Nat)
  BY NatLessThanWellFounded DEF OpToRel
<1>1. \A k \in P : k \in Nat /\ n - k \in Nat
  OBVIOUS
<1>2. \E m \in P : \A j \in P : m <= j
  <2>1. PICK m \in P : \A j \in P : <<j, m>> \notin R
    <3>1. P \subseteq Nat
      BY <1>1
    <3> HIDE DEF R
    <3> QED  BY <1>0, <3>1, WFMin
  <2>2. ASSUME NEW j \in P PROVE m <= j
    <3>1. m \in Nat /\ j \in Nat
      BY <1>1
    <3>2. ~(j < m)
      BY <2>1, <3>1
    <3> QED  BY <3>1, <3>2
  <2> QED  BY <2>2
<1>3. \E m \in P : \A j \in P : m >= j
  <2>1. T \subseteq Nat /\ T # {}
    BY <1>1
  <2>2. PICK x \in T : \A y \in T : <<y, x>> \notin R
    <3> HIDE DEF R, T
    <3> QED  BY <1>0, <2>1, WFMin
  <2>3. PICK m \in P : x = n - m
    BY <2>2
  <2>4. ASSUME NEW j \in P PROVE m >= j
    <3>1. n - j \in T /\ n - j \in Nat /\ n - m \in Nat /\ m \in Nat /\ j \in Nat
      BY <1>1
    <3>2. ~(n - j < n - m)
      BY <2>2, <2>3, <3>1
    <3> QED  BY <3>1, <3>2
  <2> QED  BY <2>4
<1>4. Min(P) \in P /\ \A j \in P : Min(P) <= j
  BY <1>2, Zenon DEF Min
<1>5. Max(P) \in P /\ \A j \in P : Max(P) >= j
  BY <1>3, Zenon DEF Max
<1> QED  BY <1>4, <1>5

(* There is only one of each. *)
LEMMA EndIsUnique ==
  ASSUME NEW n \in Nat, NEW P, P \subseteq 1 .. n, NEW m \in P
  PROVE  /\ (\A j \in P : m <= j) => Min(P) = m
         /\ (\A j \in P : m >= j) => Max(P) = m
<1>1. /\ Min(P) \in P /\ \A j \in P : Min(P) <= j
      /\ Max(P) \in P /\ \A j \in P : Max(P) >= j
  BY EndPositions
<1>2. Min(P) \in Int /\ Max(P) \in Int /\ m \in Int
  <2>1. \A j \in P : j \in Int
    OBVIOUS
  <2> QED  BY <1>1, <2>1
<1>3. ASSUME \A j \in P : m <= j PROVE Min(P) = m
  BY <1>1, <1>2, <1>3
<1>4. ASSUME \A j \in P : m >= j PROVE Max(P) = m
  BY <1>1, <1>2, <1>4
<1> QED  BY <1>3, <1>4

-----------------------------------------------------------------------------
(* Texts *)

(* A part of a text. *)
LEMMA PartOf ==
  ASSUME NEW S, NEW s \in Seq(S), NEW p \in 1 .. Len(s) + 1, NEW q \in p - 1 .. Len(s)
  PROVE  /\ SubSeq(s, p, q) \in Seq(S)
         /\ Len(SubSeq(s, p, q)) = q - p + 1
         /\ DOMAIN SubSeq(s, p, q) = 1 .. q - p + 1
         /\ \A i \in 1 .. q - p + 1 : SubSeq(s, p, q)[i] = s[p + i - 1]
<1>1. Len(s) \in Nat
  OBVIOUS
<1>2. p \in Int /\ q \in Int /\ q - p + 1 \in Nat
  BY <1>1
<1>3. \A i \in p .. q : s[i] \in S
  <2>1. ASSUME NEW i \in p .. q PROVE i \in 1 .. Len(s)
    BY <1>1, <1>2
  <2> QED  BY <2>1, ElementOfSeq
<1>4. /\ SubSeq(s, p, q) \in Seq(S)
      /\ Len(SubSeq(s, p, q)) = IF p <= q THEN q - p + 1 ELSE 0
      /\ \A i \in 1 .. q - p + 1 : SubSeq(s, p, q)[i] = s[p + i - 1]
  BY <1>2, <1>3, SubSeqProperties
<1>5. Len(SubSeq(s, p, q)) = q - p + 1
  <2>1. ~(p <= q) => q - p + 1 = 0
    BY <1>1
  <2> QED  BY <1>4, <2>1
<1> QED  BY <1>4, <1>5, LenProperties

(* A part of a part is a part. *)
LEMMA PartOfPart ==
  ASSUME NEW S, NEW s \in Seq(S), NEW p \in 1 .. Len(s) + 1, NEW q \in p - 1 .. Len(s),
         NEW a \in 1 .. q - p + 2, NEW b \in a - 1 .. q - p + 1
  PROVE  SubSeq(SubSeq(s, p, q), a, b) = SubSeq(s, p + a - 1, p + b - 1)
<1> DEFINE u == SubSeq(s, p, q)
           v == SubSeq(u, a, b)
           w == SubSeq(s, p + a - 1, p + b - 1)
<1>1. Len(s) \in Nat
  OBVIOUS
<1>2. p \in Nat /\ q \in Nat /\ a \in Nat /\ b \in Nat
  BY <1>1
<1>3. u \in Seq(S) /\ Len(u) = q - p + 1 /\ \A i \in 1 .. q - p + 1 : u[i] = s[p + i - 1]
  BY PartOf
<1>4. a \in 1 .. Len(u) + 1 /\ b \in a - 1 .. Len(u)
  <2>1. q - p + 2 = q - p + 1 + 1
    BY <1>2
  <2> HIDE DEF u
  <2> QED  BY <1>2, <1>3, <2>1
<1>5. v \in Seq(S) /\ Len(v) = b - a + 1 /\ \A i \in 1 .. b - a + 1 : v[i] = u[a + i - 1]
  <2> HIDE DEF u
  <2> QED  BY <1>3, <1>4, PartOf
<1>6. p + a - 1 \in 1 .. Len(s) + 1 /\ p + b - 1 \in (p + a - 1) - 1 .. Len(s)
  BY <1>1, <1>2
<1>7. /\ w \in Seq(S) /\ Len(w) = (p + b - 1) - (p + a - 1) + 1
      /\ \A i \in 1 .. (p + b - 1) - (p + a - 1) + 1 : w[i] = s[(p + a - 1) + i - 1]
  BY <1>6, PartOf
<1> HIDE DEF u, v, w
<1>8. (p + b - 1) - (p + a - 1) + 1 = b - a + 1
  BY <1>2
<1>9. ASSUME NEW i \in 1 .. b - a + 1
      PROVE  v[i] = w[i]
  <2>1. v[i] = u[a + i - 1] /\ a + i - 1 \in 1 .. q - p + 1
    BY <1>2, <1>5
  <2>2. u[a + i - 1] = s[p + (a + i - 1) - 1]
    BY <1>3, <2>1
  <2>3. w[i] = s[(p + a - 1) + i - 1]
    BY <1>7, <1>8
  <2>4. p + (a + i - 1) - 1 = (p + a - 1) + i - 1
    BY <1>2
  <2> QED  BY <2>1, <2>2, <2>3, <2>4
<1>10. v = w
  BY <1>5, <1>7, <1>8, <1>9, SeqEqual
<1> QED  BY <1>10 DEF u, v, w

(* The positions from p to q that are not blank. *)
Ink(s, p, q) == {i \in p .. q : s[i] # Blank}

(* trim() of a part of a text goes from its first to its last ink. *)
LEMMA TrimPart ==
  ASSUME NEW S, NEW s \in Seq(S), NEW p \in 1 .. Len(s) + 1, NEW q \in p - 1 .. Len(s)
  PROVE  trim(SubSeq(s, p, q)) = IF Ink(s, p, q) = {} THEN << >>
                                 ELSE SubSeq(s, Min(Ink(s, p, q)), Max(Ink(s, p, q)))
<1> DEFINE u == SubSeq(s, p, q)
           ink == {i \in DOMAIN u : u[i] # Blank}
           P == Ink(s, p, q)
<1>1. Len(s) \in Nat
  OBVIOUS
<1>2. p \in Nat /\ q \in Nat /\ q - p + 1 \in Nat
  BY <1>1
<1>3. /\ DOMAIN u = 1 .. q - p + 1 /\ Len(u) = q - p + 1
      /\ \A i \in 1 .. q - p + 1 : u[i] = s[p + i - 1]
  BY PartOf
<1>4. trim(u) = IF ink = {} THEN << >> ELSE SubSeq(u, Min(ink), Max(ink))
  BY DEF trim
<1> HIDE DEF u
<1>5. \A i \in 1 .. q - p + 1 : i \in ink <=> p + i - 1 \in P
  <2>1. ASSUME NEW i \in 1 .. q - p + 1
        PROVE  p + i - 1 \in p .. q
    BY <1>2
  <2> QED  BY <1>3, <2>1 DEF Ink
<1>6. ASSUME NEW j \in P
      PROVE  j - p + 1 \in ink /\ j \in Nat
  <2>1. j \in p .. q
    BY DEF Ink
  <2>2. j - p + 1 \in 1 .. q - p + 1 /\ p + (j - p + 1) - 1 = j /\ j \in Nat
    BY <1>2, <2>1
  <2> QED  BY <1>5, <2>2
<1>7. ink \subseteq 1 .. q - p + 1 /\ P \subseteq 1 .. Len(s)
  <2>1. P \subseteq p .. q
    BY DEF Ink
  <2>2. \A i \in p .. q : i \in 1 .. Len(s)
    BY <1>1, <1>2
  <2> QED  BY <1>3, <2>1, <2>2
<1>8. CASE ink = {}
  <2>1. P = {}
    BY <1>6, <1>8
  <2> QED  BY <1>4, <1>8, <2>1 DEF u
<1>9. CASE ink # {}
  <2> DEFINE a == Min(ink)
             b == Max(ink)
  <2>1. /\ a \in ink /\ \A j \in ink : a <= j
        /\ b \in ink /\ \A j \in ink : b >= j
    <3> HIDE DEF ink
    <3> QED  BY <1>2, <1>7, <1>9, EndPositions
  <2> HIDE DEF a, b
  <2>2. a \in 1 .. q - p + 1 /\ b \in 1 .. q - p + 1
    BY <1>7, <2>1
  <2>3. p + a - 1 \in P /\ p + b - 1 \in P
    BY <1>5, <2>1, <2>2
  <2>4. Min(P) = p + a - 1
    <3>1. ASSUME NEW j \in P PROVE p + a - 1 <= j
      <4>1. a <= j - p + 1 /\ j \in Nat
        BY <1>6, <2>1
      <4> QED  BY <1>2, <2>2, <4>1
    <3> HIDE DEF P
    <3> QED  BY <1>1, <1>7, <2>3, <3>1, EndIsUnique
  <2>5. Max(P) = p + b - 1
    <3>1. ASSUME NEW j \in P PROVE p + b - 1 >= j
      <4>1. b >= j - p + 1 /\ j \in Nat
        BY <1>6, <2>1
      <4> QED  BY <1>2, <2>2, <4>1
    <3> HIDE DEF P
    <3> QED  BY <1>1, <1>7, <2>3, <3>1, EndIsUnique
  <2>6. a <= b
    BY <2>1
  <2>7. SubSeq(u, a, b) = SubSeq(s, p + a - 1, p + b - 1)
    <3>1. a \in 1 .. q - p + 2 /\ b \in a - 1 .. q - p + 1
      BY <1>2, <2>2, <2>6
    <3> QED  BY <3>1, PartOfPart DEF u
  <2>8. P # {}
    BY <2>3
  <2> QED  BY <1>4, <1>9, <2>4, <2>5, <2>7, <2>8 DEF a, b, u
<1> QED  BY <1>8, <1>9

(* trim() of a whole text. *)
LEMMA TrimWhole ==
  ASSUME NEW S, NEW s \in Seq(S)
  PROVE  LET ink == Ink(s, 1, Len(s))
         IN /\ ink = {} => trim(s) = << >>
            /\ ink # {} => /\ trim(s) = SubSeq(s, Min(ink), Max(ink))
                           /\ Min(ink) \in ink /\ Max(ink) \in ink
                           /\ 1 <= Min(ink) /\ Min(ink) <= Max(ink) /\ Max(ink) <= Len(s)
                           /\ \A j \in ink : Min(ink) <= j /\ j <= Max(ink)
            /\ trim(s) \in Seq(S)
<1> DEFINE P == Ink(s, 1, Len(s))
<1>1. Len(s) \in Nat /\ SubSeq(s, 1, Len(s)) = s
  BY SubSeqFull
<1>2. P \subseteq 1 .. Len(s)
  BY DEF Ink
<1>3. trim(s) = IF P = {} THEN << >> ELSE SubSeq(s, Min(P), Max(P))
  <2>1. 1 \in 1 .. Len(s) + 1 /\ Len(s) \in 1 - 1 .. Len(s)
    BY <1>1
  <2> QED  BY <1>1, <2>1, TrimPart
<1> HIDE DEF P
<1>4. ASSUME P # {}
      PROVE  /\ Min(P) \in P /\ Max(P) \in P
             /\ 1 <= Min(P) /\ Min(P) <= Max(P) /\ Max(P) <= Len(s)
             /\ \A j \in P : Min(P) <= j /\ j <= Max(P)
  <2>1. /\ Min(P) \in P /\ \A j \in P : Min(P) <= j
        /\ Max(P) \in P /\ \A j \in P : Max(P) >= j
    BY <1>1, <1>2, <1>4, EndPositions
  <2>2. \A j \in P : j \in 1 .. Len(s)
    BY <1>2
  <2>3. Min(P) \in 1 .. Len(s) /\ Max(P) \in 1 .. Len(s)
    BY <2>1, <2>2
  <2>4. \A j \in P : j <= Max(P)
    BY <2>1, <2>2, <2>3
  <2> QED  BY <1>1, <2>1, <2>3, <2>4
<1>5. trim(s) \in Seq(S)
  <2>1. CASE P = {}
    BY <1>3, <2>1
  <2>2. CASE P # {}
    <3>1. Min(P) \in 1 .. Len(s) + 1 /\ Max(P) \in Min(P) - 1 .. Len(s)
      <4>1. Min(P) \in Int /\ Max(P) \in Int
        <5>1. \A j \in P : j \in Int
          BY <1>2
        <5> QED  BY <1>4, <2>2, <5>1
      <4> QED  BY <1>1, <1>4, <2>2, <4>1
    <3> QED  BY <1>3, <2>2, <3>1, PartOf
  <2> QED  BY <2>1, <2>2
<1> QED  BY <1>3, <1>4, <1>5 DEF P

(* Trimming a second time changes nothing. *)
LEMMA TrimTwice ==
  ASSUME NEW S, NEW s \in Seq(S)
  PROVE  trim(trim(s)) = trim(s)
<1> DEFINE P == Ink(s, 1, Len(s))
           a == Min(P)
           b == Max(P)
<1>1. CASE P = {}
  <2>1. trim(s) = << >>
    BY <1>1, TrimWhole
  <2>2. trim(<< >>) = << >>
    BY DEF trim
  <2> QED  BY <2>1, <2>2
<1>2. CASE P # {}
  <2>1. /\ trim(s) = SubSeq(s, a, b) /\ a \in P /\ b \in P
        /\ 1 <= a /\ a <= b /\ b <= Len(s) /\ \A j \in P : a <= j /\ j <= b
    BY <1>2, TrimWhole
  <2>2. P \subseteq 1 .. Len(s) /\ Len(s) \in Nat
    BY DEF Ink
  <2> HIDE DEF a, b
  <2>3. a \in Nat /\ b \in Nat /\ a \in 1 .. Len(s) + 1 /\ b \in a - 1 .. Len(s)
    <3>1. a \in 1 .. Len(s) /\ b \in 1 .. Len(s)
      BY <2>1, <2>2
    <3> QED  BY <2>1, <2>2, <3>1
  <2>4. Ink(s, a, b) = P
    <3>1. ASSUME NEW j \in P PROVE j \in Ink(s, a, b)
      <4>1. j \in 1 .. Len(s) /\ s[j] # Blank /\ a <= j /\ j <= b
        BY <2>1 DEF Ink
      <4> QED  BY <2>3, <4>1 DEF Ink
    <3>2. ASSUME NEW j \in Ink(s, a, b) PROVE j \in P
      <4>1. j \in a .. b /\ s[j] # Blank
        BY DEF Ink
      <4>2. j \in 1 .. Len(s)
        BY <2>1, <2>2, <2>3, <4>1
      <4> QED  BY <4>1, <4>2 DEF Ink
    <3> QED  BY <3>1, <3>2
  <2>5. trim(SubSeq(s, a, b)) = SubSeq(s, Min(P), Max(P))
    BY <1>2, <2>3, <2>4, TrimPart
  <2> QED  BY <2>1, <2>5 DEF a, b
<1> QED  BY <1>1, <1>2

(* The first '=' of a text. *)
LEMMA FirstEquals ==
  ASSUME NEW S, NEW s \in Seq(S)
  PROVE  LET eq == SelectInSeq(s, LAMBDA c : c = "=")
         IN /\ eq = 0 /\ (\A k \in DOMAIN s : s[k] # "=")
            \/ /\ eq \in DOMAIN s /\ s[eq] = "=" /\ \A k \in 1 .. eq - 1 : s[k] # "="
<1> DEFINE E == {i \in 1 .. Len(s) : s[i] = "="}
           eq == SelectInSeq(s, LAMBDA c : c = "=")
<1>1. eq = IF E # {} THEN Min(E) ELSE 0
  BY DEF SelectInSeq
<1>2. Len(s) \in Nat /\ DOMAIN s = 1 .. Len(s)
  BY LenProperties
<1>3. CASE E = {}
  BY <1>1, <1>2, <1>3
<1>4. CASE E # {}
  <2>1. E \subseteq 1 .. Len(s)
    OBVIOUS
  <2>2. Min(E) \in E /\ \A j \in E : Min(E) <= j
    <3> HIDE DEF E
    <3> QED  BY <1>2, <1>4, <2>1, EndPositions
  <2>3. eq \in 1 .. Len(s) /\ s[eq] = "="
    BY <1>1, <1>4, <2>2
  <2>4. ASSUME NEW k \in 1 .. eq - 1 PROVE s[k] # "="
    <3>1. k \in 1 .. Len(s) /\ k < eq
      <4> HIDE DEF eq
      <4> QED  BY <1>2, <2>3
    <3>2. SUFFICES ASSUME k \in E PROVE FALSE
      BY <3>1
    <3>3. eq <= k
      BY <1>1, <1>4, <2>2, <3>2
    <3> HIDE DEF eq
    <3> QED  BY <1>2, <2>3, <3>1, <3>3
  <2> QED  BY <1>2, <2>3, <2>4
<1> QED  BY <1>3, <1>4

(* There is only one first '='. *)
LEMMA FirstIsUnique ==
  ASSUME NEW S, NEW s \in Seq(S), NEW n \in DOMAIN s, s[n] = "=",
         \A k \in 1 .. n - 1 : s[k] # "="
  PROVE  SelectInSeq(s, LAMBDA c : c = "=") = n
<1> DEFINE eq == SelectInSeq(s, LAMBDA c : c = "=")
<1>1. DOMAIN s = 1 .. Len(s) /\ Len(s) \in Nat
  BY LenProperties
<1>2. eq \in DOMAIN s /\ s[eq] = "=" /\ \A k \in 1 .. eq - 1 : s[k] # "="
  BY FirstEquals
<1> HIDE DEF eq
<1>3. ~(eq < n) /\ ~(n < eq)
  <2>1. ASSUME eq < n PROVE FALSE
    <3>1. eq \in 1 .. n - 1
      BY <1>1, <1>2, <2>1
    <3> QED  BY <1>2, <3>1
  <2>2. ASSUME n < eq PROVE FALSE
    <3>1. n \in 1 .. eq - 1
      BY <1>1, <1>2, <2>2
    <3> QED  BY <1>2, <3>1
  <2> QED  BY <2>1, <2>2
<1>4. eq = n
  BY <1>1, <1>2, <1>3
<1> QED  BY <1>4 DEF eq

-----------------------------------------------------------------------------
(* Lines *)

(* The text behind the first '=' of a line, and of the line trimmed, are the *)
(* same once trimmed.                                                        *)
LEMMA AssignedOfLine ==
  ASSUME NEW S, NEW line \in Seq(S), NEW eq, eq \in DOMAIN trim(line),
         trim(line)[eq] = "=", \A k \in 1 .. eq - 1 : trim(line)[k] # "="
  PROVE  Assigned(line) = trim(SubSeq(trim(line), eq + 1, Len(trim(line))))
<1> DEFINE t == trim(line)
           P == Ink(line, 1, Len(line))
           a == Min(P)
           b == Max(P)
<1>1. Len(line) \in Nat /\ DOMAIN line = 1 .. Len(line)
  BY LenProperties
<1>2. P # {}
  <2>1. SUFFICES ASSUME P = {} PROVE FALSE
    OBVIOUS
  <2>2. t = << >>
    BY <2>1, TrimWhole
  <2> QED  BY <2>2
<1>3. /\ t = SubSeq(line, a, b) /\ a \in P /\ b \in P
      /\ 1 <= a /\ a <= b /\ b <= Len(line) /\ \A j \in P : a <= j /\ j <= b
  BY <1>2, TrimWhole
<1>4. P \subseteq 1 .. Len(line)
  BY DEF Ink
<1> HIDE DEF a, b
<1>5. a \in Nat /\ b \in Nat /\ a \in 1 .. Len(line) + 1 /\ b \in a - 1 .. Len(line)
  <2>1. a \in 1 .. Len(line) /\ b \in 1 .. Len(line)
    BY <1>3, <1>4
  <2> QED  BY <1>1, <1>3, <2>1
<1>6. /\ Len(t) = b - a + 1 /\ DOMAIN t = 1 .. b - a + 1
      /\ \A i \in 1 .. b - a + 1 : t[i] = line[a + i - 1]
  BY <1>3, <1>5, PartOf
<1>7. eq \in 1 .. b - a + 1
  BY <1>6
<1>8. /\ a + eq - 1 \in DOMAIN line /\ line[a + eq - 1] = "="
      /\ \A k \in 1 .. (a + eq - 1) - 1 : line[k] # "="
  <2>1. a + eq - 1 \in DOMAIN line
    BY <1>1, <1>3, <1>5, <1>7
  <2>2. line[a + eq - 1] = "="
    BY <1>6, <1>7
  <2>3. ASSUME NEW k \in 1 .. (a + eq - 1) - 1
        PROVE  line[k] # "="
    <3>1. CASE k < a
      <4>1. k \in 1 .. Len(line) /\ k \notin P
        BY <1>1, <1>3, <1>5, <1>7, <3>1
      <4>2. line[k] = Blank
        BY <4>1 DEF Ink
      <4> QED  BY <4>2 DEF Blank
    <3>2. CASE ~(k < a)
      <4>1. k - a + 1 \in 1 .. eq - 1 /\ k - a + 1 \in 1 .. b - a + 1 /\ a + (k - a + 1) - 1 = k
        BY <1>5, <1>7, <3>2
      <4>2. t[k - a + 1] # "="
        BY <4>1
      <4>3. t[k - a + 1] = line[a + (k - a + 1) - 1]
        BY <1>6, <4>1
      <4> QED  BY <4>1, <4>2, <4>3
    <3> QED  BY <3>1, <3>2
  <2> QED  BY <2>1, <2>2, <2>3
<1> HIDE DEF t
<1> DEFINE e == a + eq - 1
<1>9. SelectInSeq(line, LAMBDA c : c = "=") = e
  BY <1>8, FirstIsUnique
<1>10. Assigned(line) = trim(SubSeq(line, e + 1, Len(line)))
  <2>1. e \in 1 .. Len(line) /\ Len(line) \in e .. Len(line)
    BY <1>1, <1>8
  <2>2. Tail(SubSeq(line, e, Len(line))) = SubSeq(line, e + 1, Len(line))
    <3> HIDE DEF e
    <3> QED  BY <2>1, HeadTailOfSubSeq
  <2> HIDE DEF e
  <2> QED  BY <1>9, <2>2 DEF Assigned
<1>11. SubSeq(t, eq + 1, Len(t)) = SubSeq(line, a + eq, b)
  <2>1. eq + 1 \in 1 .. b - a + 2 /\ Len(t) \in (eq + 1) - 1 .. b - a + 1
    BY <1>5, <1>6, <1>7
  <2>2. SubSeq(SubSeq(line, a, b), eq + 1, Len(t)) = SubSeq(line, a + (eq + 1) - 1, a + Len(t) - 1)
    <3> DEFINE x == eq + 1
               y == Len(t)
    <3>1. x \in 1 .. b - a + 2 /\ y \in x - 1 .. b - a + 1
      BY <2>1
    <3> HIDE DEF x, y
    <3>2. SubSeq(SubSeq(line, a, b), x, y) = SubSeq(line, a + x - 1, a + y - 1)
      BY <1>5, <3>1, PartOfPart
    <3> QED  BY <3>2 DEF x, y
  <2>3. a + (eq + 1) - 1 = a + eq /\ a + Len(t) - 1 = b
    BY <1>5, <1>6, <1>7
  <2> QED  BY <1>3, <2>2, <2>3
<1>12. Ink(line, a + eq, b) = Ink(line, e + 1, Len(line)) /\ e + 1 = a + eq
  <2>1. e + 1 = a + eq
    BY <1>5, <1>7
  <2>2. ASSUME NEW j \in a + eq .. b, line[j] # Blank
        PROVE  j \in a + eq .. Len(line)
    BY <1>1, <1>3, <1>5, <1>7
  <2>3. ASSUME NEW j \in a + eq .. Len(line), line[j] # Blank
        PROVE  j \in a + eq .. b
    <3>1. j \in 1 .. Len(line)
      BY <1>1, <1>3, <1>5, <1>7
    <3>2. j \in P
      BY <2>3, <3>1 DEF Ink
    <3> QED  BY <1>1, <1>3, <1>5, <1>7, <3>2
  <2>4. Ink(line, a + eq, b) = Ink(line, a + eq, Len(line))
    BY <2>2, <2>3 DEF Ink
  <2> QED  BY <2>1, <2>4
<1> HIDE DEF e
<1>13. trim(SubSeq(line, a + eq, b)) = trim(SubSeq(line, a + eq, Len(line)))
  <2>1. /\ a + eq \in 1 .. Len(line) + 1 /\ b \in (a + eq) - 1 .. Len(line)
        /\ Len(line) \in (a + eq) - 1 .. Len(line)
    BY <1>1, <1>3, <1>5, <1>7
  <2>2. Ink(line, a + eq, b) = Ink(line, a + eq, Len(line))
    BY <1>12
  <2> QED  BY <2>1, <2>2, TrimPart
<1> QED  BY <1>10, <1>11, <1>12, <1>13 DEF t

(* What a line does, told apart by its trimmed text and its first '='. *)
Skipped(line) == trim(line) = << >> \/ trim(line)[1] = "#"

(* A line that main() must refuse. *)
BadLine(line) ==
  LET t == trim(line) IN
    /\ t # << >> /\ t[1] # "#"
    /\ \/ \A k \in DOMAIN t : t[k] # "="
       \/ \E key \in Keys : Assigns(t, key) /\ Value(key, Assigned(t)) = {}

(* A line assigns to the key before its first '='. *)
LEMMA AssignsIs ==
  ASSUME NEW S, NEW line \in Seq(S), NEW key
  PROVE  LET t == trim(line)
             eq == SelectInSeq(t, LAMBDA c : c = "=")
         IN Assigns(line, key) <=> /\ ~Skipped(line) /\ eq # 0
                                   /\ trim(SubSeq(t, 1, eq - 1)) = <<key>>
<1> DEFINE t == trim(line)
           eq == SelectInSeq(t, LAMBDA c : c = "=")
<1>1. t \in Seq(S)
  BY TrimWhole
<1>2. \/ eq = 0 /\ (\A k \in DOMAIN t : t[k] # "=")
      \/ eq \in DOMAIN t /\ t[eq] = "=" /\ \A k \in 1 .. eq - 1 : t[k] # "="
  <2> HIDE DEF t
  <2> QED  BY <1>1, FirstEquals
<1>3. ASSUME Assigns(line, key)
      PROVE  ~Skipped(line) /\ eq # 0 /\ trim(SubSeq(t, 1, eq - 1)) = <<key>>
  <2>1. PICK n \in DOMAIN t : /\ t[n] = "=" /\ \A k \in 1 .. n - 1 : t[k] # "="
                              /\ trim(SubSeq(t, 1, n - 1)) = <<key>>
    BY <1>3 DEF Assigns
  <2>2. eq = n
    <3> HIDE DEF t
    <3> QED  BY <1>1, <2>1, FirstIsUnique
  <2>3. n # 0
    <3> HIDE DEF t
    <3> QED  BY <1>1, <2>1, LenProperties
  <2>4. ~Skipped(line)
    BY <1>3 DEF Assigns, Skipped
  <2> HIDE DEF t, eq
  <2> QED  BY <2>1, <2>2, <2>3, <2>4
<1>4. ASSUME ~Skipped(line), eq # 0, trim(SubSeq(t, 1, eq - 1)) = <<key>>
      PROVE  Assigns(line, key)
  <2>1. eq \in DOMAIN t /\ t[eq] = "=" /\ \A k \in 1 .. eq - 1 : t[k] # "="
    BY <1>2, <1>4
  <2> HIDE DEF eq
  <2> QED  BY <1>4, <2>1 DEF Assigns, Skipped
<1> QED  BY <1>3, <1>4

(* Trimmed, a line assigns the same. *)
LEMMA AssignsTrimmed ==
  ASSUME NEW S, NEW line \in Seq(S), NEW key
  PROVE  /\ Assigns(trim(line), key) <=> Assigns(line, key)
         /\ Assigns(line, key) => Assigned(trim(line)) = Assigned(line)
<1> DEFINE t == trim(line)
           eq == SelectInSeq(t, LAMBDA c : c = "=")
<1>1. t \in Seq(S) /\ trim(t) = t
  BY TrimWhole, TrimTwice
<1>2. Assigns(t, key) <=> Assigns(line, key)
  BY <1>1 DEF Assigns
<1>3. ASSUME Assigns(line, key)
      PROVE  Assigned(t) = Assigned(line)
  <2>1. eq # 0
    BY <1>3, AssignsIs
  <2>2. eq \in DOMAIN t /\ t[eq] = "=" /\ \A k \in 1 .. eq - 1 : t[k] # "="
    <3> HIDE DEF t
    <3> QED  BY <1>1, <2>1, FirstEquals
  <2>3. Assigned(line) = trim(SubSeq(t, eq + 1, Len(t)))
    BY <2>2, AssignedOfLine
  <2>4. Assigned(t) = trim(SubSeq(t, eq + 1, Len(t)))
    <3>1. eq \in DOMAIN trim(t) /\ trim(t)[eq] = "=" /\ \A k \in 1 .. eq - 1 : trim(t)[k] # "="
      BY <1>1, <2>2
    <3>2. Assigned(t) = trim(SubSeq(trim(t), eq + 1, Len(trim(t))))
      <4> HIDE DEF t, eq
      <4> QED  BY <1>1, <3>1, AssignedOfLine
    <3> HIDE DEF t, eq
    <3> QED  BY <1>1, <3>2
  <2> QED  BY <2>3, <2>4
<1> QED  BY <1>2, <1>3

-----------------------------------------------------------------------------
(* Values *)

(* The tables of apply_key() and of the defaults have the same keys. *)
LEMMA SameKeys == DOMAIN Defaults = Keys
<1>1. /\ DOMAIN ServerKeys = DOMAIN ServerDefaults
      /\ DOMAIN MqttKeys = DOMAIN MqttDefaults
      /\ DOMAIN WebhookKeys = DOMAIN WebhookDefaults
      /\ DOMAIN StateKeys = DOMAIN StateDefaults
  BY DEF ServerKeys, ServerDefaults, MqttKeys, MqttDefaults, WebhookKeys, WebhookDefaults,
         StateKeys, StateDefaults
<1> QED  BY <1>1 DEF Defaults, Keys, Takes, Join

Kinds == {"long", "mode", "port", "optional_port", "flag", "text", "list"}

(* Every key takes one of seven kinds of values. *)
LEMMA KeyKinds == \A key \in Keys : Takes[key].kind \in Kinds
<1> USE DEF Kinds, Long, Mode, Port, OptionalPort, Flag, Text, List
<1>1. \A key \in DOMAIN ServerKeys : ServerKeys[key].kind \in Kinds
  BY DEF ServerKeys
<1>2. \A key \in DOMAIN MqttKeys : MqttKeys[key].kind \in Kinds
  BY DEF MqttKeys
<1>3. \A key \in DOMAIN WebhookKeys : WebhookKeys[key].kind \in Kinds
  BY DEF WebhookKeys
<1>4. \A key \in DOMAIN StateKeys : StateKeys[key].kind \in Kinds
  BY DEF StateKeys
<1> QED  BY <1>1, <1>2, <1>3, <1>4, SMTT(30) DEF Keys, Takes, Join

(* A text is at most one number, and a value at most one of what its key     *)
(* takes.                                                                    *)
LEMMA ValueIsOne ==
  ASSUME NEW key \in Keys, NEW s
  PROVE  \A x, y \in Value(key, s) : x = y
<1>1. \A number : \A x, y \in parse_long(s, number) : x = y
  BY DEF parse_long
<1>2. \A x, y \in parse_port(s) : x = y
  <2> DEFINE R == 1 .. 65535
  <2>1. parse_port(s) = {v \in parse_long(s, Decimal) : v \in R}
    BY DEF parse_port
  <2> HIDE DEF R
  <2>2. parse_port(s) \subseteq parse_long(s, Decimal)
    BY <2>1
  <2> QED  BY <1>1, <2>2
<1>3. \A x, y \in parse_bool(s) : x = y
  BY DEF parse_bool
<1>4. Takes[key].kind \in Kinds
  BY KeyKinds
<1>5. CASE Takes[key].kind = "long"
  BY <1>1, <1>5 DEF Value
<1>6. CASE Takes[key].kind = "mode"
  BY <1>1, <1>6 DEF Value
<1>7. CASE Takes[key].kind = "port"
  BY <1>2, <1>7 DEF Value
<1>8. CASE Takes[key].kind = "optional_port"
  BY <1>2, <1>8 DEF Value
<1>9. CASE Takes[key].kind = "flag"
  BY <1>3, <1>9 DEF Value
<1>10. CASE Takes[key].kind \in {"text", "list"}
  BY <1>10 DEF Value
<1> QED  BY <1>4, <1>5, <1>6, <1>7, <1>8, <1>9, <1>10 DEF Kinds

(* A valid value is the one that is stored. *)
LEMMA ValueStored ==
  ASSUME NEW key \in Keys, NEW s, Value(key, s) # {}
  PROVE  Value(key, s) = {CHOOSE x \in Value(key, s) : TRUE}
<1>1. (CHOOSE x \in Value(key, s) : TRUE) \in Value(key, s)
  OBVIOUS
<1> QED  BY <1>1, ValueIsOne

-----------------------------------------------------------------------------
(* One line *)

Stored == {Defaults[key] : key \in Keys}
          \cup UNION {Value(p[1], p[2]) : p \in Keys \X Seq(STRING)}

Readings == [ok : BOOLEAN, cfg : [Keys -> Stored], warnings : Nat]

(* A line is refused, or sets the keys it assigns and nothing else; unknown  *)
(* keys only count.                                                          *)
LEMMA LineLoads ==
  ASSUME NEW r \in Readings, NEW line \in Seq(STRING)
  PROVE  LET y == load_line(r, line)
         IN /\ y \in Readings
            /\ y.warnings \in {r.warnings, r.warnings + 1}
            /\ ~r.ok => y = r
            /\ r.ok => (y.ok <=> ~BadLine(line))
            /\ y.ok => \A key \in Keys :
                         /\ Assigns(line, key) => Value(key, Assigned(line)) = {y.cfg[key]}
                         /\ ~Assigns(line, key) => y.cfg[key] = r.cfg[key]
<1> DEFINE t == trim(line)
           eq == SelectInSeq(t, LAMBDA c : c = "=")
           key0 == trim(SubSeq(t, 1, eq - 1))
           val == trim(SubSeq(t, eq + 1, Len(t)))
           y == load_line(r, line)
<1>1. t \in Seq(STRING)
  BY TrimWhole
<1>2. \/ eq = 0 /\ (\A k \in DOMAIN t : t[k] # "=")
      \/ eq \in DOMAIN t /\ t[eq] = "=" /\ \A k \in 1 .. eq - 1 : t[k] # "="
  <2> HIDE DEF t
  <2> QED  BY <1>1, FirstEquals
<1>3. \A key : Assigns(line, key) <=> ~Skipped(line) /\ eq # 0 /\ key0 = <<key>>
  BY AssignsIs
<1>4. \A key : Assigns(line, key) => Assigned(line) = val
  BY <1>2, <1>3, AssignedOfLine
<1>5. BadLine(line) <=>
        ~Skipped(line) /\ (eq = 0 \/ \E key \in Keys : Assigns(line, key) /\ Value(key, val) = {})
  <2>1. eq = 0 <=> \A k \in DOMAIN t : t[k] # "="
    <3>1. DOMAIN t = 1 .. Len(t) /\ Len(t) \in Nat
      <4> HIDE DEF t
      <4> QED  BY <1>1, LenProperties
    <3> HIDE DEF t, eq
    <3> QED  BY <1>2, <3>1
  <2>2. \A key : /\ Assigns(t, key) <=> Assigns(line, key)
                 /\ Assigns(line, key) => Assigned(t) = val
    BY <1>4, AssignsTrimmed
  <2> HIDE DEF eq, val
  <2> QED  BY <2>1, <2>2 DEF BadLine, Skipped
<1>6. y = CASE ~r.ok -> r
            [] r.ok /\ t = << >> -> r
            [] r.ok /\ t # << >> /\ t[1] = "#" -> r
            [] OTHER ->
                 CASE eq = 0 -> Refused(r)
                   [] eq # 0 /\ Len(key0) = 1 /\ key0[1] \in Keys -> apply_key(r, key0[1], val)
                   [] OTHER -> [r EXCEPT !.warnings = @ + 1]
  BY DEF load_line
<1>7. key0 \in Seq(STRING) /\ val \in Seq(STRING)
  <2>1. \A s \in Seq(STRING) : trim(s) \in Seq(STRING)
    BY TrimWhole
  <2>2. CASE eq = 0
    <3>1. SubSeq(t, 1, 0 - 1) \in Seq(STRING)
      BY SubSeqEmpty
    <3>2. SubSeq(t, 0 + 1, Len(t)) \in Seq(STRING)
      <4> HIDE DEF t
      <4> QED  BY <1>1, SubSeqFull
    <3> HIDE DEF t, eq
    <3> QED  BY <2>1, <2>2, <3>1, <3>2
  <2>3. CASE eq \in DOMAIN t
    <3>1. eq \in 1 .. Len(t) /\ Len(t) \in Nat
      <4> HIDE DEF t, eq
      <4> QED  BY <1>1, <2>3, LenProperties
    <3> HIDE DEF t, eq
    <3>2. 1 \in 1 .. Len(t) + 1 /\ eq - 1 \in 1 - 1 .. Len(t)
      BY <3>1
    <3>3. eq + 1 \in 1 .. Len(t) + 1 /\ Len(t) \in (eq + 1) - 1 .. Len(t)
      BY <3>1
    <3>4. SubSeq(t, 1, eq - 1) \in Seq(STRING)
      BY <1>1, <3>2, PartOf
    <3>5. SubSeq(t, eq + 1, Len(t)) \in Seq(STRING)
      BY <1>1, <3>3, PartOf
    <3> QED  BY <2>1, <3>4, <3>5
  <2> QED  BY <1>2, <2>2, <2>3
<1>8. \A key : key0 = <<key>> <=> Len(key0) = 1 /\ key0[1] = key
  <2> HIDE DEF key0
  <2> QED  BY <1>7
<1>9. /\ r.ok \in BOOLEAN /\ r.cfg \in [Keys -> Stored] /\ r.warnings \in Nat
      /\ r = [ok |-> r.ok, cfg |-> r.cfg, warnings |-> r.warnings]
  BY DEF Readings
<1> HIDE DEF y, key0, val, eq
<1>10. CASE ~r.ok
  <2>1. y = r
    BY <1>6, <1>10
  <2> QED  BY <1>9, <1>10, <2>1 DEF y
<1>11. CASE r.ok /\ Skipped(line)
  <2>1. y = r
    BY <1>6, <1>11 DEF Skipped
  <2> QED  BY <1>3, <1>5, <1>9, <1>11, <2>1 DEF y
<1> HIDE DEF t
<1>12. CASE r.ok /\ ~Skipped(line) /\ eq = 0
  <2>1. y = Refused(r)
    BY <1>6, <1>12 DEF Skipped, t
  <2>2. Refused(r) \in Readings /\ ~Refused(r).ok /\ Refused(r).warnings = r.warnings
    BY <1>9 DEF Refused, Readings
  <2>3. BadLine(line)
    BY <1>5, <1>12
  <2> QED  BY <1>9, <1>12, <2>1, <2>2, <2>3 DEF y
<1>13. CASE r.ok /\ ~Skipped(line) /\ eq # 0 /\ Len(key0) = 1 /\ key0[1] \in Keys
  <2> DEFINE k == key0[1]
  <2>1. y = apply_key(r, k, val)
    BY <1>6, <1>13 DEF Skipped, t
  <2>2. k \in Keys /\ \A key : Assigns(line, key) <=> key = k
    BY <1>3, <1>8, <1>13
  <2> HIDE DEF k
  <2>3. CASE Value(k, val) = {}
    <3>1. y = Refused(r)
      BY <2>1, <2>3 DEF apply_key
    <3>2. Refused(r) \in Readings /\ ~Refused(r).ok /\ Refused(r).warnings = r.warnings
      BY <1>9 DEF Refused, Readings
    <3>3. BadLine(line)
      BY <1>5, <1>13, <2>2, <2>3
    <3> QED  BY <1>9, <1>13, <3>1, <3>2, <3>3 DEF y
  <2>4. CASE Value(k, val) # {}
    <3> DEFINE v == CHOOSE x \in Value(k, val) : TRUE
    <3>1. Value(k, val) = {v}
      BY <2>2, <2>4, ValueStored
    <3>2. v \in Stored
      <4> DEFINE p == <<k, val>>
      <4>1. p \in Keys \X Seq(STRING) /\ p[1] = k /\ p[2] = val
        BY <1>7, <2>2
      <4>2. v \in Value(p[1], p[2])
        BY <3>1, <4>1
      <4> HIDE DEF p, v
      <4> QED  BY <4>1, <4>2 DEF Stored
    <3>3. y = [r EXCEPT !.cfg[k] = v]
      BY <2>1, <2>4 DEF apply_key
    <3> HIDE DEF v
    <3>4. /\ y.ok = r.ok /\ y.warnings = r.warnings /\ y \in Readings
          /\ y.cfg[k] = v /\ \A key \in Keys \ {k} : y.cfg[key] = r.cfg[key]
      BY <1>9, <2>2, <3>2, <3>3 DEF Readings
    <3>5. ~BadLine(line)
      BY <1>5, <1>13, <2>2, <2>4
    <3>6. ASSUME NEW key \in Keys
          PROVE  /\ Assigns(line, key) => Value(key, Assigned(line)) = {y.cfg[key]}
                 /\ ~Assigns(line, key) => y.cfg[key] = r.cfg[key]
      BY <1>4, <2>2, <3>1, <3>4
    <3> QED  BY <1>9, <1>13, <3>4, <3>5, <3>6 DEF y
  <2> QED  BY <2>3, <2>4
<1>14. CASE r.ok /\ ~Skipped(line) /\ eq # 0 /\ ~(Len(key0) = 1 /\ key0[1] \in Keys)
  <2>1. y = [r EXCEPT !.warnings = r.warnings + 1]
    BY <1>6, <1>14 DEF Skipped, t
  <2>2. /\ y \in Readings /\ y.ok = r.ok /\ y.cfg = r.cfg /\ y.warnings = r.warnings + 1
    BY <1>9, <2>1 DEF Readings
  <2>3. \A key \in Keys : ~Assigns(line, key)
    BY <1>3, <1>8, <1>14
  <2>4. ~BadLine(line)
    BY <1>5, <1>14, <2>3
  <2> QED  BY <1>9, <1>14, <2>2, <2>3, <2>4 DEF y
<1> QED  BY <1>10, <1>11, <1>12, <1>13, <1>14

-----------------------------------------------------------------------------
(* The lines one after the other *)

(* The states f[0], ..., f[N] that the steps F[1], ..., F[N] lead to from b. *)
Iterates(f, N, X, b, F) ==
  /\ f \in [0 .. N -> X] /\ f[0] = b
  /\ \A n \in 1 .. N : f[n] = F[n][f[n - 1]]

(* Steps that lead from X to X define a sequence of states, one per step. *)
LEMMA StepByStep ==
  ASSUME NEW N \in Nat, NEW X, NEW b \in X, NEW F \in [1 .. N -> [X -> X]]
  PROVE  \E f : Iterates(f, N, X, b, F)
<1> DEFINE R == {ss \in Nat \X Nat : ss[1] < ss[2]}
           Upto(g, m) == /\ g \in [0 .. m -> X] /\ g[0] = b
                         /\ \A n \in 1 .. m : g[n] = F[n][g[n - 1]]
           Bad == {m \in 0 .. N : ~\E g : Upto(g, m)}
<1>1. Bad = {}
  <2>1. SUFFICES ASSUME Bad # {} PROVE FALSE
    OBVIOUS
  <2>2. IsWellFoundedOn(R, Nat)
    BY NatLessThanWellFounded DEF OpToRel
  <2>3. Bad \subseteq Nat
    OBVIOUS
  <2>4. PICK m \in Bad : \A k \in Bad : <<k, m>> \notin R
    <3> HIDE DEF R, Bad
    <3> QED  BY <2>1, <2>2, <2>3, WFMin
  <2>5. CASE m = 0
    <3> DEFINE g == [n \in 0 .. 0 |-> b]
    <3>1. Upto(g, 0)
      OBVIOUS
    <3> HIDE DEF Upto
    <3> QED  BY <2>4, <2>5, <3>1
  <2>6. CASE m # 0
    <3>1. m \in 1 .. N /\ m - 1 \in 0 .. N /\ m - 1 \in Nat /\ m \in Nat
      BY <2>4, <2>6
    <3>2. m - 1 \notin Bad
      <4>1. <<m - 1, m>> \in R
        BY <3>1
      <4> HIDE DEF R, Bad
      <4> QED  BY <2>4, <4>1
    <3>3. PICK g : Upto(g, m - 1)
      BY <3>1, <3>2
    <3> DEFINE h == [n \in 0 .. m |-> IF n = m THEN F[m][g[m - 1]] ELSE g[n]]
    <3>4. g \in [0 .. m - 1 -> X] /\ g[0] = b /\ \A n \in 1 .. m - 1 : g[n] = F[n][g[n - 1]]
      BY <3>3
    <3>5. F[m][g[m - 1]] \in X
      BY <3>1, <3>4
    <3>6. h \in [0 .. m -> X]
      <4>1. ASSUME NEW n \in 0 .. m, n # m PROVE g[n] \in X
        BY <3>1, <3>4, <4>1
      <4> QED  BY <3>5, <4>1
    <3>7. h[0] = b
      BY <3>1, <3>4
    <3>8. ASSUME NEW n \in 1 .. m
          PROVE  h[n] = F[n][h[n - 1]]
      <4>1. n \in 0 .. m /\ n - 1 \in 0 .. m /\ n - 1 # m
        BY <3>1
      <4>2. h[n - 1] = g[n - 1]
        BY <4>1
      <4>3. CASE n = m
        BY <4>1, <4>2, <4>3
      <4>4. CASE n # m
        <5>1. n \in 1 .. m - 1
          BY <3>1, <4>4
        <5>2. h[n] = g[n]
          BY <4>1, <4>4
        <5> HIDE DEF h
        <5> QED  BY <3>4, <4>2, <5>1, <5>2
      <4> QED  BY <4>3, <4>4
    <3>9. Upto(h, m)
      <4> HIDE DEF h
      <4> QED  BY <3>6, <3>7, <3>8
    <3> HIDE DEF Upto
    <3> QED  BY <2>4, <3>9
  <2> QED  BY <2>5, <2>6
<1>2. \E g : Upto(g, N)
  <2>1. N \in 0 .. N
    OBVIOUS
  <2> HIDE DEF Upto
  <2> QED  BY <1>1, <2>1
<1> QED  BY <1>2 DEF Iterates

(* What load_config() makes of the first n lines. *)
Loaded(file, n, r0, r) ==
  /\ r \in Readings /\ r.warnings <= r0.warnings + n
  /\ r.ok <=> \A m \in 1 .. n : ~BadLine(file[m])
  /\ r.ok => \A key \in Keys :
       \/ (\A m \in 1 .. n : ~Assigns(file[m], key)) /\ r.cfg[key] = r0.cfg[key]
       \/ \E m \in 1 .. n : /\ Assigns(file[m], key)
                            /\ \A k \in m + 1 .. n : ~Assigns(file[k], key)
                            /\ Value(key, Assigned(file[m])) = {r.cfg[key]}

(* One more line. *)
LEMMA LoadedStep ==
  ASSUME NEW file \in Seq(Seq(STRING)), NEW n \in 1 .. Len(file), NEW r0 \in Readings, NEW r,
         Loaded(file, n - 1, r0, r)
  PROVE  Loaded(file, n, r0, load_line(r, file[n]))
<1> DEFINE y == load_line(r, file[n])
           line == file[n]
<1>1. line \in Seq(STRING) /\ r \in Readings /\ n \in Nat /\ n - 1 \in Nat
  <2>1. Len(file) \in Nat
    OBVIOUS
  <2>2. file[n] \in Seq(STRING)
    BY ElementOfSeq
  <2> QED  BY <2>1, <2>2 DEF Loaded
<1>2. /\ y \in Readings
      /\ y.warnings \in {r.warnings, r.warnings + 1}
      /\ ~r.ok => y = r
      /\ r.ok => (y.ok <=> ~BadLine(line))
      /\ y.ok => \A key \in Keys :
                   /\ Assigns(line, key) => Value(key, Assigned(line)) = {y.cfg[key]}
                   /\ ~Assigns(line, key) => y.cfg[key] = r.cfg[key]
  <2> HIDE DEF line
  <2> QED  BY <1>1, LineLoads DEF line
<1>3. \A m \in 1 .. n : m \in 1 .. n - 1 \/ m = n
  BY <1>1
<1>4. \A m \in 1 .. n - 1 : m \in 1 .. n
  BY <1>1
<1>5. n \in 1 .. n
  BY <1>1
<1> HIDE DEF y
<1>6. y.warnings <= r0.warnings + n
  <2>1. r0.warnings \in Nat /\ r.warnings \in Nat /\ r.warnings <= r0.warnings + (n - 1)
    BY <1>1 DEF Loaded, Readings
  <2> QED  BY <1>1, <1>2, <2>1
<1>7. y.ok <=> \A m \in 1 .. n : ~BadLine(file[m])
  <2>1. r.ok <=> \A m \in 1 .. n - 1 : ~BadLine(file[m])
    BY DEF Loaded
  <2>2. CASE r.ok
    BY <1>2, <1>3, <1>4, <1>5, <2>1, <2>2
  <2>3. CASE ~r.ok
    BY <1>2, <1>3, <1>4, <2>1, <2>3
  <2> QED  BY <2>2, <2>3
<1>8. ASSUME y.ok, NEW key \in Keys
      PROVE  \/ (\A m \in 1 .. n : ~Assigns(file[m], key)) /\ y.cfg[key] = r0.cfg[key]
             \/ \E m \in 1 .. n : /\ Assigns(file[m], key)
                                  /\ \A k \in m + 1 .. n : ~Assigns(file[k], key)
                                  /\ Value(key, Assigned(file[m])) = {y.cfg[key]}
  <2>1. r.ok
    BY <1>2, <1>8
  <2>2. CASE Assigns(line, key)
    <3>1. Value(key, Assigned(line)) = {y.cfg[key]}
      BY <1>2, <1>8, <2>2
    <3>2. \A k \in n + 1 .. n : FALSE
      BY <1>1
    <3> QED  BY <1>5, <2>2, <3>1, <3>2
  <2>3. CASE ~Assigns(line, key)
    <3>1. y.cfg[key] = r.cfg[key]
      BY <1>2, <1>8, <2>3
    <3>2. CASE (\A m \in 1 .. n - 1 : ~Assigns(file[m], key)) /\ r.cfg[key] = r0.cfg[key]
      BY <1>3, <2>3, <3>1, <3>2
    <3>3. CASE \E m \in 1 .. n - 1 : /\ Assigns(file[m], key)
                                     /\ \A k \in m + 1 .. n - 1 : ~Assigns(file[k], key)
                                     /\ Value(key, Assigned(file[m])) = {r.cfg[key]}
      <4>1. PICK m \in 1 .. n - 1 : /\ Assigns(file[m], key)
                                    /\ \A k \in m + 1 .. n - 1 : ~Assigns(file[k], key)
                                    /\ Value(key, Assigned(file[m])) = {r.cfg[key]}
        BY <3>3
      <4>2. \A k \in m + 1 .. n : k \in m + 1 .. n - 1 \/ k = n
        BY <1>1
      <4> QED  BY <1>4, <2>3, <3>1, <4>1, <4>2
    <3> QED  BY <2>1, <3>2, <3>3 DEF Loaded
  <2> QED  BY <2>2, <2>3
<1>9. Loaded(file, n, r0, y)
  BY <1>2, <1>6, <1>7, <1>8 DEF Loaded
<1> QED  BY <1>9 DEF y

(* load_config() refuses the file for a bad line and for nothing else, and   *)
(* leaves each field with the value of the last line that assigns it.        *)
LEMMA FileLoads ==
  ASSUME NEW file \in Seq(Seq(STRING)), NEW r0 \in Readings, r0.ok
  PROVE  Loaded(file, Len(file), r0, load_config(file, r0))
<1> DEFINE N == Len(file)
           F == [n \in 1 .. N |-> [r \in Readings |-> load_line(r, file[n])]]
           f == CHOOSE g : g = [n \in 0 .. N |-> IF n = 0 THEN r0 ELSE load_line(g[n - 1], file[n])]
<1>1. N \in Nat /\ \A n \in 1 .. N : file[n] \in Seq(STRING)
  BY ElementOfSeq
<1> HIDE DEF N
<1>2. F \in [1 .. N -> [Readings -> Readings]]
  <2>1. ASSUME NEW r \in Readings, NEW n \in 1 .. N
        PROVE  load_line(r, file[n]) \in Readings
    BY <1>1, LineLoads
  <2> QED  BY <2>1
<1>3. PICK h : Iterates(h, N, Readings, r0, F)
  <2> HIDE DEF F
  <2> QED  BY <1>1, <1>2, StepByStep
<1>4. /\ h \in [0 .. N -> Readings] /\ h[0] = r0
      /\ \A n \in 1 .. N : h[n] = load_line(h[n - 1], file[n])
  <2>1. /\ h \in [0 .. N -> Readings] /\ h[0] = r0
        /\ \A n \in 1 .. N : h[n] = F[n][h[n - 1]]
    <3> HIDE DEF F
    <3> QED  BY <1>3 DEF Iterates
  <2>2. ASSUME NEW n \in 1 .. N
        PROVE  F[n][h[n - 1]] = load_line(h[n - 1], file[n])
    <3>1. h[n - 1] \in Readings
      BY <1>1, <2>1
    <3> QED  BY <3>1
  <2> HIDE DEF F
  <2> QED  BY <2>1, <2>2
<1> HIDE DEF F
<1> DEFINE Is(g) == g = [n \in 0 .. N |-> IF n = 0 THEN r0 ELSE load_line(g[n - 1], file[n])]
<1>5. Is(h)
  <2>1. ASSUME NEW n \in 0 .. N
        PROVE  h[n] = IF n = 0 THEN r0 ELSE load_line(h[n - 1], file[n])
    BY <1>1, <1>4
  <2> QED  BY <1>4, <2>1
<1>6. f = [n \in 0 .. N |-> IF n = 0 THEN r0 ELSE load_line(f[n - 1], file[n])]
  <2> DEFINE c == CHOOSE g : Is(g)
  <2>1. Is(c)
    <3> HIDE DEF Is
    <3> QED  BY <1>5
  <2> QED  BY <2>1
<1>7. load_config(file, r0) = f[N]
  BY DEF load_config, N
<1>8. \A n \in 0 .. N : Loaded(file, n, r0, f[n])
  <2> HIDE DEF f
  <2> DEFINE Out == {n \in 0 .. N : ~Loaded(file, n, r0, f[n])}
             R == {ss \in Nat \X Nat : ss[1] < ss[2]}
  <2>1. SUFFICES ASSUME Out # {} PROVE FALSE
    OBVIOUS
  <2>2. IsWellFoundedOn(R, Nat)
    BY NatLessThanWellFounded DEF OpToRel
  <2>3. Out \subseteq Nat
    BY <1>1
  <2>4. PICK m \in Out : \A k \in Out : <<k, m>> \notin R
    <3> HIDE DEF R, Out
    <3> QED  BY <2>1, <2>2, <2>3, WFMin
  <2>5. m \in 0 .. N /\ ~Loaded(file, m, r0, f[m])
    BY <2>4
  <2>6. CASE m = 0
    <3>1. f[0] = r0
      BY <1>1, <1>6
    <3>2. r0.warnings \in Nat
      BY DEF Readings
    <3>3. Loaded(file, 0, r0, r0)
      BY <3>2 DEF Loaded
    <3> QED  BY <2>5, <2>6, <3>1, <3>3
  <2>7. CASE m # 0
    <3>1. m \in 1 .. N /\ m - 1 \in 0 .. N /\ m - 1 \in Nat /\ m \in Nat /\ m - 1 < m
      BY <1>1, <2>5, <2>7
    <3>2. m - 1 \notin Out
      <4>1. <<m - 1, m>> \in R
        BY <3>1
      <4> HIDE DEF R, Out
      <4> QED  BY <2>4, <4>1
    <3>3. Loaded(file, m - 1, r0, f[m - 1])
      BY <3>1, <3>2
    <3>4. f[m] = load_line(f[m - 1], file[m])
      BY <1>6, <2>5, <2>7
    <3>5. Loaded(file, m, r0, load_line(f[m - 1], file[m]))
      BY <3>1, <3>3, LoadedStep DEF N
    <3> QED  BY <2>5, <3>4, <3>5
  <2> QED  BY <2>6, <2>7
<1> QED  BY <1>1, <1>7, <1>8 DEF N

-----------------------------------------------------------------------------
(* The whole configuration *)

Fresh == [ok |-> TRUE, cfg |-> Defaults, warnings |-> 0]

(* Reading starts from the defaults. *)
LEMMA FreshReading == Fresh \in Readings
<1>1. Defaults \in [Keys -> Stored]
  <2>1. DOMAIN Defaults = Keys /\ Defaults = [key \in DOMAIN Defaults |-> Defaults[key]]
    <3>1. Defaults = [key \in DOMAIN Defaults |-> Defaults[key]]
      BY DEF Defaults, Join
    <3> QED  BY <3>1, SameKeys
  <2>2. \A key \in Keys : Defaults[key] \in Stored
    BY DEF Stored
  <2> QED  BY <2>1, <2>2
<1> QED  BY <1>1 DEF Fresh, Readings

(* A start main() can have: what StartsAssumption says of it. *)
IsStart(st) ==
  /\ st.found \in {"readable", "unreadable", "absent"} /\ st.explicit \in BOOLEAN
  /\ st.file \in Seq(Seq(STRING)) /\ DOMAIN st.env \subseteq Keys

(* What the file and the defaults make of a key. *)
FromFile(st, key) ==
  IF st.found = "readable" /\ Setters(st.file, key) # {}
  THEN Value(key, Assigned(st.file[Max(Setters(st.file, key))]))
  ELSE {Defaults[key]}

(* A file main() must refuse. *)
BadFile(st) ==
  \/ st.found = "unreadable" \/ (st.found = "absent" /\ st.explicit)
  \/ st.found = "readable" /\ \E n \in DOMAIN st.file : BadLine(st.file[n])

(* What main() has read before it looks at the environment. *)
ReadFile(st) ==
  CASE st.found = "readable" -> load_config(st.file, Fresh)
    [] st.found = "absent" /\ ~st.explicit -> Fresh
    [] OTHER -> Refused(Fresh)

(* It is refused exactly for a bad file, and otherwise every key has what    *)
(* the file or the default says; there is at most one warning a line.        *)
LEMMA FileMeans ==
  ASSUME NEW st, IsStart(st)
  PROVE  LET r == ReadFile(st)
         IN /\ r \in Readings /\ r.warnings <= Len(st.file)
            /\ r.ok <=> ~BadFile(st)
            /\ r.ok => \A key \in Keys : FromFile(st, key) = {r.cfg[key]}
<1> DEFINE r == ReadFile(st)
           N == Len(st.file)
<1>1. N \in Nat /\ DOMAIN st.file = 1 .. N
  BY LenProperties DEF IsStart
<1>2. Fresh \in Readings /\ Fresh.ok /\ Fresh.cfg = Defaults /\ Fresh.warnings = 0
  BY FreshReading DEF Fresh
<1>3. CASE st.found = "readable"
  <2>1. r = load_config(st.file, Fresh)
    BY <1>3 DEF ReadFile
  <2> HIDE DEF r, N
  <2>2. Loaded(st.file, N, Fresh, r)
    BY <1>2, <2>1, FileLoads DEF IsStart, N
  <2>3. r \in Readings /\ r.warnings <= N
    <3>1. r \in Readings /\ r.warnings <= 0 + N
      BY <1>2, <2>2 DEF Loaded
    <3> QED  BY <1>1, <3>1
  <2>4. r.ok <=> ~BadFile(st)
    BY <1>1, <1>3, <2>2 DEF Loaded, BadFile
  <2>5. ASSUME r.ok, NEW key \in Keys
        PROVE  FromFile(st, key) = {r.cfg[key]}
    <3> DEFINE P == Setters(st.file, key)
    <3>1. P = {n \in 1 .. N : Assigns(st.file[n], key)}
      BY <1>1 DEF Setters
    <3> HIDE DEF P
    <3>2. CASE (\A m \in 1 .. N : ~Assigns(st.file[m], key)) /\ r.cfg[key] = Fresh.cfg[key]
      <4>1. P = {}
        BY <3>1, <3>2
      <4> QED  BY <1>2, <3>2, <4>1 DEF FromFile, P
    <3>3. CASE \E m \in 1 .. N : /\ Assigns(st.file[m], key)
                                 /\ \A k \in m + 1 .. N : ~Assigns(st.file[k], key)
                                 /\ Value(key, Assigned(st.file[m])) = {r.cfg[key]}
      <4>1. PICK m \in 1 .. N : /\ Assigns(st.file[m], key)
                                /\ \A k \in m + 1 .. N : ~Assigns(st.file[k], key)
                                /\ Value(key, Assigned(st.file[m])) = {r.cfg[key]}
        BY <3>3
      <4>2. m \in P /\ P \subseteq 1 .. N
        BY <3>1, <4>1
      <4>3. ASSUME NEW j \in P PROVE m >= j
        <5>1. j \in 1 .. N /\ j \notin m + 1 .. N
          BY <3>1, <4>1
        <5> QED  BY <1>1, <5>1
      <4>4. Max(P) = m
        BY <1>1, <4>2, <4>3, EndIsUnique
      <4>5. P # {}
        BY <4>2
      <4> QED  BY <1>3, <4>1, <4>4, <4>5 DEF FromFile, P
    <3> QED  BY <2>2, <2>5, <3>2, <3>3 DEF Loaded
  <2> QED  BY <2>3, <2>4, <2>5 DEF r, N
<1>4. CASE st.found = "absent" /\ ~st.explicit
  <2>1. r = Fresh
    BY <1>4 DEF ReadFile
  <2>2. ~BadFile(st)
    BY <1>4 DEF BadFile
  <2>3. \A key \in Keys : FromFile(st, key) = {Defaults[key]}
    BY <1>4 DEF FromFile
  <2> HIDE DEF r
  <2> QED  BY <1>1, <1>2, <2>1, <2>2, <2>3 DEF r
<1>5. CASE st.found = "unreadable" \/ (st.found = "absent" /\ st.explicit)
  <2>1. r = Refused(Fresh)
    BY <1>5 DEF ReadFile
  <2>2. Refused(Fresh) \in Readings /\ ~Refused(Fresh).ok /\ Refused(Fresh).warnings = 0
    BY <1>2 DEF Refused, Readings, Fresh
  <2>3. BadFile(st)
    BY <1>5 DEF BadFile
  <2> HIDE DEF r
  <2> QED  BY <1>1, <2>1, <2>2, <2>3 DEF r
<1> QED  BY <1>3, <1>4, <1>5 DEF IsStart

(* Invalid() is a bad file or an invalid variable. *)
LEMMA InvalidIs ==
  ASSUME NEW st
  PROVE  Invalid(st) <=> BadFile(st) \/ \E key \in DOMAIN st.env : Value(key, st.env[key]) = {}
BY DEF Invalid, BadFile, BadLine

(* What Configure() returns for every start. *)
LEMMA ConfigureMeans ==
  ASSUME NEW st, IsStart(st)
  PROVE  LET r == Configure(st)
         IN /\ r.ok \in BOOLEAN /\ r.warnings \in 0 .. Len(st.file) /\ DOMAIN r.cfg = Keys
            /\ r.ok = ~Invalid(st)
            /\ r.ok => \A key \in Keys : Meant(st, key) = {r.cfg[key]}
<1> DEFINE r == Configure(st)
           x == ReadFile(st)
           Env(key) == CHOOSE v \in Value(key, st.env[key]) : TRUE
<1>1. /\ x \in Readings /\ x.warnings <= Len(st.file)
      /\ x.ok <=> ~BadFile(st)
      /\ x.ok => \A key \in Keys : FromFile(st, key) = {x.cfg[key]}
  BY FileMeans
<1>2. r = IF x.ok THEN apply_env_overrides(st.env, x) ELSE x
  BY DEF Configure, ReadFile, Fresh
<1> HIDE DEF r, x
<1>3. /\ x.ok \in BOOLEAN /\ x.warnings \in 0 .. Len(st.file) /\ x.cfg \in [Keys -> Stored]
      /\ x = [ok |-> x.ok, cfg |-> x.cfg, warnings |-> x.warnings]
  <2>1. Len(st.file) \in Nat
    BY LenProperties DEF IsStart
  <2>2. /\ x.ok \in BOOLEAN /\ x.warnings \in Nat /\ x.cfg \in [Keys -> Stored]
        /\ x = [ok |-> x.ok, cfg |-> x.cfg, warnings |-> x.warnings]
    BY <1>1 DEF Readings
  <2> QED  BY <1>1, <2>1, <2>2
<1>4. CASE ~x.ok
  <2>1. r = x /\ BadFile(st)
    BY <1>1, <1>2, <1>4
  <2>2. Invalid(st)
    BY <2>1, InvalidIs
  <2> QED  BY <1>3, <1>4, <2>1, <2>2 DEF r
<1>5. CASE x.ok /\ \E key \in DOMAIN st.env : Value(key, st.env[key]) = {}
  <2>1. r = Refused(x)
    BY <1>2, <1>5 DEF apply_env_overrides
  <2>2. /\ ~Refused(x).ok /\ Refused(x).ok \in BOOLEAN
        /\ Refused(x).cfg = x.cfg /\ Refused(x).warnings = x.warnings
    BY <1>3 DEF Refused
  <2>3. Invalid(st)
    BY <1>5, InvalidIs
  <2> QED  BY <1>3, <2>1, <2>2, <2>3 DEF r
<1>6. CASE x.ok /\ ~\E key \in DOMAIN st.env : Value(key, st.env[key]) = {}
  <2>1. r = [x EXCEPT !.cfg = [key \in Keys |->
               IF key \in DOMAIN st.env THEN Env(key) ELSE x.cfg[key]]]
    BY <1>2, <1>6 DEF apply_env_overrides
  <2> HIDE DEF Env
  <2>2. /\ r.ok = x.ok /\ r.warnings = x.warnings /\ DOMAIN r.cfg = Keys
        /\ \A key \in Keys : r.cfg[key] = IF key \in DOMAIN st.env THEN Env(key) ELSE x.cfg[key]
    BY <1>3, <2>1
  <2>3. ~Invalid(st)
    BY <1>1, <1>6, InvalidIs
  <2>4. ASSUME NEW key \in Keys
        PROVE  Meant(st, key) = {r.cfg[key]}
    <3>1. CASE key \in DOMAIN st.env
      <4>1. Value(key, st.env[key]) = {Env(key)}
        BY <1>6, <3>1, ValueStored DEF Env
      <4> QED  BY <2>2, <3>1, <4>1 DEF Meant
    <3>2. CASE key \notin DOMAIN st.env
      <4>1. Meant(st, key) = FromFile(st, key)
        BY <3>2 DEF Meant, FromFile
      <4> QED  BY <1>1, <1>6, <2>2, <3>2, <4>1
    <3> QED  BY <3>1, <3>2
  <2> QED  BY <1>3, <1>6, <2>2, <2>3, <2>4 DEF r
<1> QED  BY <1>3, <1>4, <1>5, <1>6

-----------------------------------------------------------------------------
(* Limits *)

(* The values of a key with a range lie in it. *)
LEMMA LongValues ==
  ASSUME NEW key \in Keys, NEW lo, NEW hi, Takes[key] = Long(lo, hi), NEW s
  PROVE  \A v \in Value(key, s) : v \in lo .. hi
<1>1. Takes[key].kind = "long" /\ Takes[key].lo = lo /\ Takes[key].hi = hi
  BY DEF Long
<1> QED  BY <1>1 DEF Value

(* A key with a range that its default lies in. *)
Ranged(key, lo, hi) == /\ key \in Keys /\ Takes[key] = Long(lo, hi)
                       /\ Defaults[key] \in lo .. hi

(* How a key is seen to be one. *)
LEMMA RangedIs ==
  ASSUME NEW key \in Keys, NEW lo \in Int, NEW hi \in Int, Takes[key] = Long(lo, hi),
         NEW d \in Int, Defaults[key] = d, lo <= d, d <= hi
  PROVE  Ranged(key, lo, hi)
BY DEF Ranged

(* Whatever it is configured to, it stays within the range. *)
LEMMA MeantInRange ==
  ASSUME NEW key, NEW lo, NEW hi, Ranged(key, lo, hi), NEW st, NEW v \in Meant(st, key)
  PROVE  v \in lo .. hi
BY LongValues DEF Ranged, Meant

(* The keys of the server the other modules have an assumption on. *)
LEMMA ServerRanges ==
  ASSUME NEW key
  PROVE  /\ key = "threads" => Ranged(key, 1, 256)
         /\ key = "max_request_bytes" => Ranged(key, 256, 1048576)
         /\ key = "max_body_bytes" => Ranged(key, 1, 16777216)
<1>1. default_thread_count \in 1 .. 256
  BY CoresAssumption DEF default_thread_count
<1>2. key \in {"threads", "max_request_bytes", "max_body_bytes"} => key \in DOMAIN ServerKeys
  BY SMT DEF ServerKeys
<1>3. DOMAIN ServerKeys = DOMAIN ServerDefaults
  BY SMT DEF ServerKeys, ServerDefaults
<1>4. key \in DOMAIN ServerKeys => /\ key \in Keys /\ Takes[key] = ServerKeys[key]
                                   /\ Defaults[key] = ServerDefaults[key]
  BY <1>3 DEF Keys, Takes, Defaults, Join
<1>5. /\ key = "threads" => ServerKeys[key] = Long(1, 256)
      /\ key = "max_request_bytes" => ServerKeys[key] = Long(256, 1048576)
      /\ key = "max_body_bytes" => ServerKeys[key] = Long(1, 16777216)
  BY SMT DEF ServerKeys
<1>6. /\ key = "threads" => ServerDefaults[key] = default_thread_count
      /\ key = "max_request_bytes" => ServerDefaults[key] = 8192
      /\ key = "max_body_bytes" => ServerDefaults[key] = 65536
  BY SMT DEF ServerDefaults
<1>7. CASE key = "threads"
  <2>1. Takes[key] = Long(1, 256) /\ Defaults[key] = default_thread_count /\ key \in Keys
    BY <1>2, <1>4, <1>5, <1>6, <1>7, SMT
  <2>2. Ranged(key, 1, 256)
    BY <1>1, <2>1, SMT DEF Ranged
  <2> QED  BY <1>7, <2>2, SMT
<1>8. CASE key = "max_request_bytes"
  <2>1. Takes[key] = Long(256, 1048576) /\ Defaults[key] = 8192 /\ key \in Keys
    BY <1>2, <1>4, <1>5, <1>6, <1>8, SMT
  <2>2. Ranged(key, 256, 1048576)
    BY <2>1, RangedIs, SMT
  <2> QED  BY <1>8, <2>2, SMT
<1>9. CASE key = "max_body_bytes"
  <2>1. Takes[key] = Long(1, 16777216) /\ Defaults[key] = 65536 /\ key \in Keys
    BY <1>2, <1>4, <1>5, <1>6, <1>9, SMT
  <2>2. Ranged(key, 1, 16777216)
    BY <2>1, RangedIs, SMT
  <2> QED  BY <1>9, <2>2, SMT
<1> QED  BY <1>7, <1>8, <1>9, SMT

(* Those of the connection pool. *)
LEMMA MqttRanges ==
  ASSUME NEW key
  PROVE  /\ key = "mqtt_qos" => Ranged(key, 0, 2)
         /\ key = "mqtt_pool_size" => Ranged(key, 1, 64)
         /\ key = "mqtt_queue_size" => Ranged(key, 1, 65536)
<1>1. key \in {"mqtt_qos", "mqtt_pool_size", "mqtt_queue_size"} =>
        key \in DOMAIN MqttKeys \ DOMAIN ServerKeys
  BY SMT DEF ServerKeys, MqttKeys
<1>2. DOMAIN ServerKeys = DOMAIN ServerDefaults /\ DOMAIN MqttKeys = DOMAIN MqttDefaults
  BY SMT DEF ServerKeys, ServerDefaults, MqttKeys, MqttDefaults
<1>3. key \in DOMAIN MqttKeys \ DOMAIN ServerKeys =>
        /\ key \in Keys /\ Takes[key] = MqttKeys[key]
        /\ Defaults[key] = MqttDefaults[key]
  BY <1>2 DEF Keys, Takes, Defaults, Join
<1>4. /\ key = "mqtt_qos" => MqttKeys[key] = Long(0, 2)
      /\ key = "mqtt_pool_size" => MqttKeys[key] = Long(1, 64)
      /\ key = "mqtt_queue_size" => MqttKeys[key] = Long(1, 65536)
  BY SMT DEF MqttKeys
<1>5. /\ key = "mqtt_qos" => MqttDefaults[key] = 1
      /\ key = "mqtt_pool_size" => MqttDefaults[key] = 1
      /\ key = "mqtt_queue_size" => MqttDefaults[key] = 256
  BY SMT DEF MqttDefaults
<1>6. CASE key = "mqtt_qos"
  <2>1. Takes[key] = Long(0, 2) /\ Defaults[key] = 1 /\ key \in Keys
    BY <1>1, <1>3, <1>4, <1>5, <1>6, SMT
  <2>2. Ranged(key, 0, 2)
    BY <2>1, SMT DEF Ranged
  <2> QED  BY <1>6, <2>2, SMT
<1>7. CASE key = "mqtt_pool_size"
  <2>1. Takes[key] = Long(1, 64) /\ Defaults[key] = 1 /\ key \in Keys
    BY <1>1, <1>3, <1>4, <1>5, <1>7, SMT
  <2>2. Ranged(key, 1, 64)
    BY <2>1, SMT DEF Ranged
  <2> QED  BY <1>7, <2>2, SMT
<1>8. CASE key = "mqtt_queue_size"
  <2>1. Takes[key] = Long(1, 65536) /\ Defaults[key] = 256 /\ key \in Keys
    BY <1>1, <1>3, <1>4, <1>5, <1>8, SMT
  <2>2. Ranged(key, 1, 65536)
    BY <2>1, SMT DEF Ranged
  <2> QED  BY <1>8, <2>2, SMT
<1> QED  BY <1>6, <1>7, <1>8, SMT

(* Those of the webhook queue. *)
LEMMA WebhookRanges ==
  ASSUME NEW key
  PROVE  key = "webhook_queue_size" => Ranged(key, 1, 65536)
<1> SUFFICES ASSUME key = "webhook_queue_size"
             PROVE  Ranged(key, 1, 65536)
  OBVIOUS
<1>1. key \in DOMAIN WebhookKeys \ (DOMAIN ServerKeys \cup DOMAIN MqttKeys)
  BY SMT DEF ServerKeys, MqttKeys, WebhookKeys
<1>2. /\ DOMAIN ServerKeys = DOMAIN ServerDefaults /\ DOMAIN MqttKeys = DOMAIN MqttDefaults
      /\ DOMAIN WebhookKeys = DOMAIN WebhookDefaults
  BY SMT DEF ServerKeys, ServerDefaults, MqttKeys, MqttDefaults, WebhookKeys, WebhookDefaults
<1>3. key \in DOMAIN WebhookKeys \ (DOMAIN ServerKeys \cup DOMAIN MqttKeys) =>
        /\ key \in Keys /\ Takes[key] = WebhookKeys[key]
        /\ Defaults[key] = WebhookDefaults[key]
  BY <1>2 DEF Keys, Takes, Defaults, Join
<1>4. WebhookKeys[key] = Long(1, 65536) /\ WebhookDefaults[key] = 256
  BY SMT DEF WebhookKeys, WebhookDefaults
<1>5. Takes[key] = Long(1, 65536) /\ Defaults[key] = 256 /\ key \in Keys
  BY <1>1, <1>3, <1>4, SMT
<1> QED  BY <1>5, SMT DEF Ranged

(* A configuration that is meant is within the limits. *)
LEMMA MeantIsWithinLimits ==
  ASSUME NEW st, NEW cfg, \A key \in Keys : cfg[key] \in Meant(st, key)
  PROVE  WithinLimits(cfg)
<1>1. ASSUME NEW key, NEW lo, NEW hi, Ranged(key, lo, hi)
      PROVE  cfg[key] \in lo .. hi
  <2>1. key \in Keys
    BY <1>1 DEF Ranged
  <2> QED  BY <1>1, <2>1, MeantInRange
<1>2. /\ \A key : key = "threads" => cfg[key] >= 1
      /\ \A key : key = "max_request_bytes" => cfg[key] >= 256
      /\ \A key : key = "max_body_bytes" => cfg[key] >= 1
  BY <1>1, ServerRanges, SMT
<1>3. /\ \A key : key = "mqtt_qos" => cfg[key] \in 0 .. 2
      /\ \A key : key = "mqtt_pool_size" => cfg[key] >= 1
      /\ \A key : key = "mqtt_queue_size" => cfg[key] >= 1
  BY <1>1, MqttRanges, SMT
<1>4. \A key : key = "webhook_queue_size" => cfg[key] >= 1
  BY <1>1, WebhookRanges, SMT
<1> QED  BY <1>2, <1>3, <1>4, Zenon DEF WithinLimits

-----------------------------------------------------------------------------
(* TypeOK and ConfigIsMeant *)

(* What an instance holds is what Configure() made of its own file and       *)
(* environment, and it is at work only on one that was accepted.             *)
ReadInv ==
  /\ DOMAIN reading = Instances
  /\ \A i \in Instances : /\ \A r \in reading[i] : r = Configure(start[i])
                          /\ pc[i] # "off" => \E r \in reading[i] : r.ok

(* A start is one main() can have. *)
LEMMA StartIsOne ==
  ASSUME StartTypeOK, NEW i \in Instances
  PROVE  IsStart(start[i])
BY StartsAssumption DEF StartTypeOK, IsStart

(* A system call is made by an instance at work, and moves no other one. *)
LEMMA OneIsAtWork ==
  ASSUME StartTypeOK, NEW i \in Instances, SocketStep(i)
  PROVE  pc[i] # "off" /\ \A j \in Instances \ {i} : pc'[j] = pc[j]
<1> USE DEF StartTypeOK, SocketTypeOK, Goto
<1>1. CASE InitFails(i) \/ Lstat(i) \/ Probe(i) \/ RemoveStale(i) \/ Bind(i) \/ Chmod(i)
  BY <1>1 DEF InitFails, Lstat, Probe, RemoveStale, Bind, Chmod
<1>2. CASE Listen(i) \/ Run(i) \/ RunEnds(i) \/ CloseSocket(i) \/ UnlinkSocket(i)
           \/ UnlinkFails(i) \/ Crash(i)
  BY <1>2 DEF Listen, Run, RunEnds, CloseSocket, UnlinkSocket, UnlinkFails, Crash
<1> QED  BY <1>1, <1>2 DEF SocketStep

(* main() puts its reading in place before start() does anything. *)
LEMMA ReadStep ==
  ASSUME StartTypeOK, ReadInv, [Next]_vars
  PROVE  ReadInv'
<1>1. CASE UNCHANGED vars
  BY <1>1 DEF vars, socketvars, server, ReadInv
<1>2. ASSUME NEW i \in Instances, Main(i)
      PROVE  ReadInv'
  <2> DEFINE r == Configure(start[i])
  <2>1. /\ start' = start /\ reading' = [reading EXCEPT ![i] = {r}] /\ pc[i] = "off"
        /\ IF r.ok THEN Begin(i, r.cfg.socket, r.cfg.socket_mode)
           ELSE UNCHANGED <<server, files, orphans>>
    BY <1>2 DEF Main
  <2>2. /\ \A j \in Instances \ {i} : pc'[j] = pc[j]
        /\ pc'[i] # "off" => r.ok
    <3> HIDE DEF r
    <3> QED  BY <2>1 DEF Begin, Goto, server, StartTypeOK, SocketTypeOK
  <2>3. ASSUME NEW j \in Instances
        PROVE  /\ \A x \in reading'[j] : x = Configure(start'[j])
               /\ pc'[j] # "off" => \E x \in reading'[j] : x.ok
    <3>1. CASE j = i
      <4>1. reading'[j] = {r}
        BY <2>1, <3>1 DEF ReadInv
      <4> QED  BY <2>1, <2>2, <3>1, <4>1
    <3>2. CASE j # i
      <4>1. reading'[j] = reading[j] /\ pc'[j] = pc[j]
        BY <2>1, <2>2, <3>2 DEF ReadInv
      <4> QED  BY <2>1, <4>1 DEF ReadInv
    <3> QED  BY <3>1, <3>2
  <2> QED  BY <2>1, <2>3 DEF ReadInv
<1>3. ASSUME NEW i \in Instances, SocketStep(i), UNCHANGED <<start, reading>>
      PROVE  ReadInv'
  BY <1>3, OneIsAtWork DEF ReadInv
<1> QED  BY <1>1, <1>2, <1>3 DEF Next

(* Before the first start nothing is read and nobody is at work. *)
LEMMA ReadInit == Init => ReadInv
BY DEF Init, SocketInit, ReadInv

(* Whatever the files and environments say: what an instance has read covers *)
(* every key with at most one warning a line, and none is at work without a  *)
(* configuration that was accepted (main.cpp:327-354).                       *)
THEOREM ReadingIsTyped == Spec => []TypeOK
<1>1. StartTypeOK /\ ReadInv /\ [Next]_vars => ReadInv'
  BY ReadStep
<1>2. ASSUME StartTypeOK, ReadInv
      PROVE  TypeOK
  <2>1. SocketTypeOK /\ \A i \in Instances : start[i] \in Starts(i)
    BY <1>2 DEF StartTypeOK
  <2>2. ASSUME NEW i \in Instances, NEW r \in reading[i]
        PROVE  /\ r.ok \in BOOLEAN /\ r.warnings \in 0 .. Len(start[i].file)
               /\ DOMAIN r.cfg = Keys
    <3>1. r = Configure(start[i])
      BY <1>2, <2>2 DEF ReadInv
    <3>2. IsStart(start[i])
      BY <1>2, StartIsOne
    <3> QED  BY <3>1, <3>2, ConfigureMeans
  <2> QED  BY <1>2, <2>1, <2>2 DEF TypeOK, ReadInv
<1> QED  BY ReadInit, TypeCorrect, <1>1, <1>2, PTL DEF Spec

(* What a step of main() reads is what its operator meant. *)
LEMMA ReadsWhatIsMeant ==
  ASSUME StartTypeOK, ReadInv, [Next]_vars, NEW i \in Instances, reading'[i] # reading[i],
         NEW r \in reading'[i]
  PROVE  /\ r.ok = ~Invalid(start[i])
         /\ r.ok => /\ \A key \in Keys : Meant(start[i], key) = {r.cfg[key]}
                    /\ WithinLimits(r.cfg)
<1>1. ReadInv' /\ start' = start
  <2>1. start' = start
    BY StepCases DEF vars
  <2> QED  BY <2>1, ReadStep
<1>2. r = Configure(start[i]) /\ IsStart(start[i])
  BY <1>1, StartIsOne DEF ReadInv
<1>3. /\ r.ok = ~Invalid(start[i])
      /\ r.ok => \A key \in Keys : Meant(start[i], key) = {r.cfg[key]}
  BY <1>2, ConfigureMeans
<1>4. ASSUME r.ok PROVE WithinLimits(r.cfg)
  <2>1. \A key \in Keys : r.cfg[key] \in Meant(start[i], key)
    BY <1>3, <1>4
  <2> QED  BY <2>1, MeantIsWithinLimits
<1> QED  BY <1>3, <1>4

(* For every file of any length and every environment: main() starts exactly *)
(* if nothing has to be refused, and then every one of the 41 fields has the *)
(* value of the environment, else of the last line that sets it, else the    *)
(* default, within the limits the other modules assume (config.cpp:473-516,  *)
(* 582-600, main.cpp:327-354).                                               *)
THEOREM ConfigurationIsMeant == Spec => ConfigIsMeant
<1>1. StartTypeOK /\ ReadInv /\ [Next]_vars => ReadInv'
  BY ReadStep
<1>2. StartTypeOK /\ ReadInv /\ [Next]_vars =>
        [\A i \in Instances : reading'[i] # reading[i] =>
           \A r \in reading'[i] :
             /\ r.ok = ~Invalid(start[i])
             /\ r.ok => /\ \A key \in Keys : Meant(start[i], key) = {r.cfg[key]}
                        /\ WithinLimits(r.cfg)]_vars
  BY ReadsWhatIsMeant
<1> QED  BY ReadInit, TypeCorrect, <1>1, <1>2, PTL DEF Spec, ConfigIsMeant
=============================================================================
