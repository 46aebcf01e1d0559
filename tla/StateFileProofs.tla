-------------------------- MODULE StateFileProofs --------------------------
(***************************************************************************)
(* What holds of the state file for every set of metric names and values,   *)
(* and for any number of threads, however their saves overlap: the          *)
(* variables keep their types and no stream leaks; a save() that meets no   *)
(* other one leaves a file load() accepts wherever the process dies, and    *)
(* the memory on disk, whatever earlier saves did to each other; and while  *)
(* none overlap the store implements DurableState.  The run file_crash      *)
(* shows what overlapping saves do in between.                              *)
(***************************************************************************)
EXTENDS StateFile, TLAPS

-----------------------------------------------------------------------------
(* format_double() and the text of a state. *)

(* What format_double() keeps of a number is a number. *)
LEMMA WrittenType ==
  ASSUME NEW v \in Nat \cup {Absent}
  PROVE  Written(v) \in Nat \cup {Absent}
<1>1. CASE v = Absent
  BY <1>1 DEF Written
<1>2. CASE v \in Nat
  <2>1. v % Precision \in Nat /\ v % Precision <= v
    BY <1>2, PrecisionAssumption
  <2> QED BY <1>2, <2>1 DEF Written
<1> QED BY <1>1, <1>2

(* Taking the remainder away leaves a multiple. *)
LEMMA QuotientTimes ==
  ASSUME NEW p \in Nat \ {0}, NEW v \in Int
  PROVE  v - (v % p) = p * (v \div p) /\ v \div p \in Int
  OBVIOUS

(* A multiple has no remainder. *)
LEMMA MultipleRemainder ==
  ASSUME NEW p \in Nat \ {0}, NEW d \in Int
  PROVE  (p * d) % p = 0
<1> DEFINE w == p * d
           s == w % p
           e == w \div p
<1>1. w \in Int /\ s \in Int /\ e \in Int /\ 0 <= s /\ s < p
  OBVIOUS
<1>2. w = p * e + s
  <2>1. w - s = p * e
    BY <1>1, QuotientTimes
  <2> HIDE DEF w, s, e
  <2> QED BY <1>1, <2>1
<1>3. s = p * (d - e)
  BY <1>1, <1>2
<1>4. CASE d - e = 0
  BY <1>3, <1>4
<1>5. CASE d - e >= 1
  <2>1. p * (d - e) >= p
    BY <1>1, <1>5
  <2> QED BY <1>1, <1>3, <2>1
<1>6. CASE d - e <= -1
  <2>1. p * (d - e) <= -p
    BY <1>1, <1>6
  <2> QED BY <1>1, <1>3, <2>1
<1> QED BY <1>1, <1>4, <1>5, <1>6

(* Reading back what format_double() wrote and writing it again changes      *)
(* nothing: the digits are lost once.                                        *)
LEMMA WrittenTwice ==
  ASSUME NEW v \in Nat \cup {Absent}
  PROVE  Written(Written(v)) = Written(v)
<1>1. CASE v = Absent
  BY <1>1 DEF Written
<1>2. CASE v \in Nat
  <2> DEFINE d == v \div Precision
  <2>1. v - (v % Precision) = Precision * d /\ d \in Int
    BY <1>2, PrecisionAssumption, QuotientTimes
  <2>2. (Precision * d) % Precision = 0
    BY <2>1, PrecisionAssumption, MultipleRemainder
  <2>3. Precision * d \in Int
    BY <2>1, PrecisionAssumption
  <2>4. Written(v) = Precision * d /\ Written(v) # Absent
    BY <1>2, <2>1, WrittenType, ValuesAssumption, PrecisionAssumption DEF Written
  <2> HIDE DEF d
  <2> QED BY <2>2, <2>3, <2>4 DEF Written
<1> QED BY <1>1, <1>2

(* The text of a state is what a file may hold. *)
LEMMA TextType ==
  ASSUME NEW s \in [Names -> Nat \cup {Absent}]
  PROVE  /\ Text(s) \in Contents
         /\ Text(s).kind = "text"
         /\ Text(s).state = [n \in Names |-> Written(s[n])]
BY WrittenType DEF Text, Contents

-----------------------------------------------------------------------------
(* Types, for any number of threads saving at once. *)

(* Every step keeps the variables in their types, and the open streams those *)
(* of the threads that write.                                                *)
LEMMA TypeStep == TypeOK /\ [Next]_vars => TypeOK'
<1> SUFFICES ASSUME TypeOK, [Next]_vars PROVE TypeOK'
  OBVIOUS
<1> USE InodesAssumption DEF TypeOK, Goto, memory, disk, history
<1>1. CASE UNCHANGED vars
  BY <1>1 DEF vars
<1>2. ASSUME NEW t \in Threads, Change(t) PROVE TypeOK'
  BY <1>2, ValuesAssumption DEF Change, Set, Remove
<1>3. ASSUME NEW t \in Threads, Snapshot(t) PROVE TypeOK'
  BY <1>3 DEF Snapshot, Others
<1>4. ASSUME NEW t \in Threads, Rename(t) \/ SaveFails(t) PROVE TypeOK'
  <2>1. raced' \in BOOLEAN
    BY <1>4, Zenon DEF Rename, SaveFails
  <2> QED BY <1>4, <2>1 DEF Rename, SaveFails
<1>5. ASSUME NEW t \in Threads, Open(t) PROVE TypeOK'
  <2>1. Empty \in Contents
    BY DEF Empty, Contents, NoState
  <2> QED BY <1>5, <2>1 DEF Open, OpenInode
<1>6. ASSUME NEW t \in Threads, Write(t) \/ WriteFails(t) PROVE TypeOK'
  <2>1. Partial \in Contents
    BY DEF Partial, Contents, NoState
  <2>2. Text(snap[t]) \in Contents
    BY TextType
  <2>3. CASE Write(t)
    BY <2>2, <2>3 DEF Write
  <2>4. CASE WriteFails(t)
    BY <2>1, <2>4 DEF WriteFails
  <2> QED BY <1>6, <2>3, <2>4
<1>7. CASE Crash
  BY <1>7 DEF Crash, NoState
<1>8. CASE LoadFile \/ LoadUnopened \/ LoadRefused
  <2>1. Loaded \in [Names -> Nat \cup {Absent}]
    BY DEF Loaded, NoState, Contents
  <2> QED BY <1>8, <2>1 DEF LoadFile, LoadUnopened, LoadRefused, NoState
<1> QED BY <1>1, <1>2, <1>3, <1>4, <1>5, <1>6, <1>7, <1>8 DEF Next, Save

(* StateStore's variables and the file system's keep their types, and no     *)
(* stream stays open, however saves overlap and wherever the process dies.   *)
THEOREM TypeCorrect == Spec => []TypeOK
<1>1. Init => TypeOK
  <2>1. Init => raced \in BOOLEAN /\ unread \in BOOLEAN
    BY Zenon DEF Init
  <2> QED BY <2>1, InodesAssumption DEF Init, TypeOK, NoState, Empty, Contents
<1> QED BY <1>1, TypeStep, PTL DEF Spec

-----------------------------------------------------------------------------
(* Saves that meet, and saves that do not. *)

(* A process that is not up has no thread in a change or in save(). *)
DownIsIdle == process # "up" => \A t \in Threads : tpc[t] = "idle"

(* Only a save() that has not returned is noted as having met another. *)
OverlapsInSave == \A t \in overlapping : tpc[t] \in InSave

(* state.json is never the file being written. *)
TmpIsNotFile == tmp \in Inodes => tmp # file

(* What a thread in a save() that met no other one may rely on: it is the    *)
(* only one there, the .tmp file is its stream's, and complete once it is    *)
(* written; a change its text does not have yet has a thread of its own      *)
(* before its snapshot.                                                      *)
Undisturbed(t) ==
  /\ \A u \in Threads : tpc[u] \in InSave => u = t
  /\ tpc[t] = "write" => stream[t] = tmp
  /\ tpc[t] = "rename" => tmp \in Inodes /\ content[tmp] = Text(snap[t])
  /\ (\A u \in Threads : tpc[u] # "snapshot") => snap[t] = values

LoneSavers ==
  \A t \in Threads : tpc[t] \in InSave /\ t \notin overlapping => Undisturbed(t)

(* state.json holds a whole text. *)
FileIsText ==
  file \in Inodes => /\ content[file].kind = "text"
                     /\ \A n \in Names : Written(content[file].state[n])
                                           = content[file].state[n]

(* After a save() that met no other one. *)
Healed == ~raced => overlapping = {} /\ FileIsText

FileInv == /\ DownIsIdle /\ OverlapsInSave /\ TmpIsNotFile
           /\ LoneSavers /\ Healed /\ FileIsCurrent

(* While a thread is in save() no other one is undisturbed there. *)
LEMMA NobodyElse ==
  ASSUME FileInv, NEW t \in Threads, tpc[t] \in InSave,
         NEW u \in Threads, u # t, tpc[u] \in InSave
  PROVE  u \in overlapping /\ t \in overlapping
BY DEF FileInv, LoneSavers, Undisturbed

(* Without a race, the only thread in save() is undisturbed. *)
LEMMA UnracedIsLone ==
  ASSUME FileInv, NEW t \in Threads, tpc[t] \in InSave, ~raced
  PROVE  Undisturbed(t)
BY DEF FileInv, LoneSavers, Healed

(* A change: its thread waits before the snapshot, so nothing is claimed of  *)
(* texts and files until it has taken one.                                   *)
LEMMA ChangeKeepsInv ==
  ASSUME TypeOK, FileInv, NEW t \in Threads, Change(t)
  PROVE  FileInv'
<1> USE DEF TypeOK, FileInv, Goto, disk, history
<1>1. /\ tpc[t] = "idle" /\ tpc' = [tpc EXCEPT ![t] = "snapshot"] /\ process = "up"
      /\ UNCHANGED <<process, snap, stream, file, tmp, content, unsaved,
                     overlapping, raced, unread>>
  BY DEF Change, Set, Remove
<1>2. tpc'[t] = "snapshot" /\ \A u \in Threads \ {t} : tpc'[u] = tpc[u]
  BY <1>1
<1>3. DownIsIdle' /\ OverlapsInSave' /\ TmpIsNotFile'
  BY <1>1, <1>2 DEF DownIsIdle, OverlapsInSave, TmpIsNotFile, InSave
<1>4. LoneSavers'
  BY <1>1, <1>2 DEF LoneSavers, Undisturbed, InSave, Text
<1>5. Healed'
  BY <1>1 DEF Healed, FileIsText
<1>6. FileIsCurrent'
  BY <1>2 DEF FileIsCurrent
<1> QED BY <1>3, <1>4, <1>5, <1>6

(* save()'s text: the values of this moment.  Whoever is in save() already   *)
(* is noted, with this thread, as overlapping.                               *)
LEMMA SnapshotKeepsInv ==
  ASSUME TypeOK, FileInv, NEW t \in Threads, Snapshot(t)
  PROVE  FileInv'
<1> USE DEF TypeOK, FileInv, Goto, disk, memory
<1>1. /\ tpc[t] = "snapshot" /\ tpc'[t] = "open" /\ snap'[t] = values
      /\ \A u \in Threads \ {t} : tpc'[u] = tpc[u] /\ snap'[u] = snap[u]
      /\ UNCHANGED <<values, process, stream, file, tmp, content, unsaved, unread>>
  BY DEF Snapshot
<1>2. DownIsIdle' /\ TmpIsNotFile' /\ FileIsCurrent'
  BY <1>1 DEF DownIsIdle, TmpIsNotFile, FileIsCurrent
<1>3. OverlapsInSave'
  BY <1>1 DEF OverlapsInSave, Snapshot, Others, InSave
<1>4. CASE Others(t) = {}
  <2>1. \A u \in Threads : tpc'[u] \in InSave => u = t
    BY <1>1, <1>4 DEF Others
  <2>2. LoneSavers'
    BY <1>1, <2>1 DEF LoneSavers, Undisturbed
  <2>3. Healed'
    BY <1>1, <1>4 DEF Snapshot, Healed, FileIsText
  <2> QED BY <1>2, <1>3, <2>2, <2>3
<1>5. CASE Others(t) # {}
  <2>1. /\ raced' /\ t \in overlapping'
        /\ \A u \in Threads \ {t} : tpc'[u] \in InSave => u \in overlapping'
    BY <1>1, <1>5 DEF Snapshot, Others
  <2>2. LoneSavers' /\ Healed'
    BY <2>1 DEF LoneSavers, Healed
  <2> QED BY <1>2, <1>3, <2>2
<1> QED BY <1>4, <1>5

(* The .tmp file is emptied or made; state.json is another inode. *)
LEMMA OpenKeepsInv ==
  ASSUME TypeOK, FileInv, NEW t \in Threads, Open(t)
  PROVE  FileInv' /\ (~raced => Loaded' = Loaded)
<1> USE InodesAssumption DEF TypeOK, FileInv, Goto, memory, history
<1>1. PICK i \in Inodes : OpenInode(t, i)
  BY DEF Open
<1>2. i # file
  BY <1>1 DEF OpenInode, TmpIsNotFile, InUse
<1>3. /\ tmp' = i /\ file' = file /\ stream'[t] = i
      /\ content' = [content EXCEPT ![i] = Empty]
      /\ tpc[t] = "open" /\ tpc'[t] = "write"
      /\ \A u \in Threads \ {t} : tpc'[u] = tpc[u]
      /\ UNCHANGED <<values, process, snap, unsaved, overlapping, raced, unread>>
  BY <1>1 DEF OpenInode
<1>4. DownIsIdle' /\ OverlapsInSave' /\ TmpIsNotFile' /\ FileIsCurrent'
  BY <1>2, <1>3 DEF DownIsIdle, OverlapsInSave, TmpIsNotFile, FileIsCurrent, InSave
<1>5. LoneSavers'
  <2>1. ASSUME NEW u \in Threads, tpc'[u] \in InSave, u \notin overlapping
        PROVE  u = t
    BY <1>3, <2>1, NobodyElse DEF InSave
  <2>2. t \notin overlapping => Undisturbed(t)'
    BY <1>3 DEF LoneSavers, Undisturbed, InSave
  <2> QED BY <1>3, <2>1, <2>2 DEF LoneSavers
<1>6. FileIsText => FileIsText' /\ Loaded' = Loaded
  BY <1>2, <1>3 DEF FileIsText, Loaded
<1> QED BY <1>3, <1>4, <1>5, <1>6 DEF Healed

(* The text goes to the .tmp file, whole or in part. *)
LEMMA WriteKeepsInv ==
  ASSUME TypeOK, FileInv, NEW t \in Threads, Write(t) \/ WriteFails(t)
  PROVE  FileInv' /\ (~raced => Loaded' = Loaded)
<1> USE InodesAssumption DEF TypeOK, FileInv, Goto, memory, history
<1>1. /\ tpc[t] = "write" /\ tpc'[t] \in {"rename", "idle"}
      /\ \A u \in Threads \ {t} : tpc'[u] = tpc[u]
      /\ \E c : content' = [content EXCEPT ![stream[t]] = c]
      /\ UNCHANGED <<values, process, snap, file, tmp, raced, unread>>
      /\ tpc'[t] = "rename" => /\ content'[stream[t]] = Text(snap[t])
                               /\ overlapping' = overlapping
      /\ tpc'[t] = "idle" => unsaved' = unsaved \cup {t} /\ overlapping' = overlapping \ {t}
  BY DEF Write, WriteFails
<1>2. stream[t] \in Inodes
  BY <1>1
<1>3. DownIsIdle' /\ OverlapsInSave' /\ TmpIsNotFile'
  BY <1>1 DEF DownIsIdle, OverlapsInSave, TmpIsNotFile, InSave
<1>4. FileIsCurrent'
  <2>1. CASE tpc'[t] = "rename"
    BY <2>1 DEF FileIsCurrent
  <2>2. CASE tpc'[t] = "idle"
    BY <1>1, <2>2 DEF FileIsCurrent
  <2> QED BY <1>1, <2>1, <2>2
<1>5. LoneSavers'
  <2>1. ASSUME NEW u \in Threads, tpc'[u] \in InSave, u \notin overlapping'
        PROVE  u = t /\ tpc'[t] = "rename" /\ t \notin overlapping
    <3>1. CASE u = t
      BY <1>1, <2>1, <3>1 DEF InSave
    <3>2. CASE u # t
      BY <1>1, <2>1, <3>2, NobodyElse DEF InSave
    <3> QED BY <3>1, <3>2
  <2>2. tpc'[t] = "rename" /\ t \notin overlapping => Undisturbed(t)'
    <3> SUFFICES ASSUME tpc'[t] = "rename", t \notin overlapping PROVE Undisturbed(t)'
      OBVIOUS
    <3>1. Undisturbed(t) /\ stream[t] = tmp
      BY <1>1 DEF LoneSavers, Undisturbed, InSave
    <3>2. tmp' \in Inodes /\ content'[tmp'] = Text(snap'[t])
      BY <1>1, <1>2, <3>1
    <3> QED BY <1>1, <3>1, <3>2 DEF Undisturbed, InSave
  <2> QED BY <2>1, <2>2 DEF LoneSavers
<1>6. ASSUME ~raced PROVE FileIsText' /\ overlapping' = {} /\ Loaded' = Loaded
  <2>1. stream[t] = tmp /\ overlapping = {} /\ FileIsText
    BY <1>1, <1>6, UnracedIsLone DEF Undisturbed, InSave, Healed
  <2>2. stream[t] # file
    BY <1>2, <2>1 DEF TmpIsNotFile
  <2> QED BY <1>1, <1>2, <2>1, <2>2 DEF FileIsText, Loaded
<1> QED BY <1>1, <1>3, <1>4, <1>5, <1>6 DEF Healed

(* The rename() of a save() that met no other one puts its text, whole, in   *)
(* state.json's place.                                                       *)
LEMMA LoneRename ==
  ASSUME TypeOK, FileInv, NEW t \in Threads, Rename(t), t \notin overlapping
  PROVE  /\ Undisturbed(t) /\ FileIsText' /\ overlapping' = {}
         /\ Loaded' = [n \in Names |-> Written(snap[t][n])]
<1> USE InodesAssumption DEF TypeOK, FileInv
<1>1. Undisturbed(t) /\ tpc[t] = "rename"
  BY DEF Rename, LoneSavers, InSave
<1>2. /\ tmp \in Inodes /\ content[tmp] = Text(snap[t])
      /\ snap[t] \in [Names -> Nat \cup {Absent}]
  BY <1>1 DEF Undisturbed
<1>3. file' = tmp /\ content' = content
  BY DEF Rename
<1>4. /\ content[tmp].kind = "text"
      /\ content[tmp].state = [n \in Names |-> Written(snap[t][n])]
  BY <1>2, TextType
<1>5. Loaded' = [n \in Names |-> Written(snap[t][n])]
  BY <1>2, <1>3, <1>4 DEF Loaded
<1>6. FileIsText'
  <2>1. ASSUME NEW n \in Names
        PROVE  Written(content[tmp].state[n]) = content[tmp].state[n]
    <3>1. snap[t][n] \in Nat \cup {Absent} /\ content[tmp].state[n] = Written(snap[t][n])
      BY <1>2, <1>4
    <3> QED BY <3>1, WrittenTwice
  <2> QED BY <1>2, <1>3, <1>4, <2>1 DEF FileIsText
<1>7. overlapping' = {}
  <2>1. \A u \in overlapping : u = t
    BY <1>1 DEF OverlapsInSave, Undisturbed
  <2> QED BY <2>1 DEF Rename
<1> QED BY <1>1, <1>5, <1>6, <1>7

(* It is the newest text unless another change waits for its snapshot.  A    *)
(* rename() in a race leaves the race to be healed.                          *)
LEMMA RenameKeepsInv ==
  ASSUME TypeOK, FileInv, NEW t \in Threads, Rename(t)
  PROVE  FileInv'
<1> USE InodesAssumption DEF TypeOK, FileInv, Goto, memory
<1>1. /\ file' = tmp /\ tmp' = NoInode /\ content' = content
      /\ tpc[t] = "rename" /\ tpc'[t] = "idle"
      /\ \A u \in Threads \ {t} : tpc'[u] = tpc[u]
      /\ overlapping' = overlapping \ {t} /\ raced' = (raced /\ t \in overlapping)
      /\ UNCHANGED <<values, process, snap, stream>>
  BY DEF Rename
<1>2. DownIsIdle' /\ OverlapsInSave' /\ TmpIsNotFile'
  BY <1>1 DEF DownIsIdle, OverlapsInSave, TmpIsNotFile, InSave
<1>3. LoneSavers'
  <2>1. ASSUME NEW u \in Threads, tpc'[u] \in InSave PROVE u \in overlapping'
    BY <1>1, <2>1, NobodyElse DEF InSave
  <2> QED BY <2>1 DEF LoneSavers
<1>4. CASE t \in overlapping
  <2>1. raced'
    BY <1>1, <1>4 DEF Healed
  <2> QED BY <1>2, <1>3, <2>1 DEF Healed, FileIsCurrent
<1>5. CASE t \notin overlapping
  <2>1. Healed'
    BY <1>5, LoneRename DEF Healed
  <2>2. FileIsCurrent'
    <3> SUFFICES ASSUME \A u \in Threads : tpc'[u] = "idle"
                 PROVE  Loaded' = [n \in Names |-> Written(values'[n])]
      BY DEF FileIsCurrent
    <3>1. \A u \in Threads : tpc[u] # "snapshot"
      BY <1>1
    <3>2. snap[t] = values
      BY <1>5, <3>1, LoneRename DEF Undisturbed
    <3>3. Loaded' = [n \in Names |-> Written(snap[t][n])]
      BY <1>5, LoneRename
    <3> QED BY <1>1, <3>2, <3>3
  <2> QED BY <1>2, <1>3, <2>1, <2>2
<1> QED BY <1>4, <1>5

(* A save() that could not open or rename is reported. *)
LEMMA SaveFailsKeepsInv ==
  ASSUME TypeOK, FileInv, NEW t \in Threads, SaveFails(t)
  PROVE  FileInv'
<1> USE DEF TypeOK, FileInv, Goto, memory, disk
<1>1. /\ tpc[t] \in InSave /\ tpc'[t] = "idle" /\ t \in unsaved'
      /\ \A u \in Threads \ {t} : tpc'[u] = tpc[u]
      /\ overlapping' = overlapping \ {t}
      /\ UNCHANGED <<values, process, snap, stream, file, tmp, content, raced, unread>>
  BY DEF SaveFails, InSave
<1>2. DownIsIdle' /\ OverlapsInSave' /\ TmpIsNotFile' /\ FileIsCurrent'
  BY <1>1 DEF DownIsIdle, OverlapsInSave, TmpIsNotFile, FileIsCurrent
<1>3. LoneSavers'
  <2>1. ASSUME NEW u \in Threads, tpc'[u] \in InSave PROVE u \in overlapping'
    BY <1>1, <2>1, NobodyElse DEF InSave
  <2> QED BY <2>1 DEF LoneSavers
<1>4. Healed'
  BY <1>1 DEF Healed, FileIsText
<1> QED BY <1>2, <1>3, <1>4

(* A crash leaves the files, and load() reads the one that is whole, unless  *)
(* it cannot.                                                                *)
LEMMA RestartKeepsInv ==
  ASSUME TypeOK, FileInv, Crash \/ LoadFile \/ LoadUnopened \/ LoadRefused
  PROVE  FileInv'
<1> USE InodesAssumption DEF TypeOK, FileInv, disk, history
<1>1. CASE Crash
  BY <1>1 DEF Crash, DownIsIdle, OverlapsInSave, TmpIsNotFile, LoneSavers, Healed,
              FileIsText, FileIsCurrent, InSave
<1>2. CASE LoadFile \/ LoadUnopened \/ LoadRefused
  <2>1. /\ process # "up" /\ UNCHANGED <<tpc, snap, stream, file, tmp, content, unsaved,
                                         overlapping, raced>>
    BY <1>2 DEF LoadFile, LoadUnopened, LoadRefused
  <2>2. \A t \in Threads : tpc[t] = "idle"
    BY <2>1 DEF DownIsIdle
  <2>3. DownIsIdle' /\ OverlapsInSave' /\ TmpIsNotFile' /\ LoneSavers' /\ Healed'
    BY <2>1, <2>2 DEF DownIsIdle, OverlapsInSave, TmpIsNotFile, LoneSavers, Healed,
                      FileIsText, InSave
  <2>4. CASE LoadUnopened \/ LoadRefused
    <3>1. FileIsCurrent'
      BY <2>4 DEF LoadUnopened, LoadRefused, FileIsCurrent
    <3> QED BY <2>3, <3>1
  <2>5. CASE LoadFile
    <3>1. FileIsText => Loaded = [n \in Names |-> Written(Loaded[n])]
      <4>1. CASE file = NoInode
        BY <4>1 DEF Loaded, NoState, Written
      <4>2. CASE file \in Inodes
        <5>1. Loaded = content[file].state /\ Loaded \in [Names -> Nat \cup {Absent}]
          BY <4>2 DEF Loaded, Contents
        <5> QED BY <4>2, <5>1 DEF FileIsText
      <4> QED BY <4>1, <4>2
    <3>2. values' = Loaded /\ Loaded' = Loaded
      BY <2>1, <2>5 DEF LoadFile, Loaded
    <3>3. FileIsCurrent'
      BY <2>1, <3>1, <3>2 DEF FileIsCurrent, Healed
    <3> QED BY <2>3, <3>3
  <2> QED BY <1>2, <2>4, <2>5
<1> QED BY <1>1, <1>2

(* Every step keeps FileInv, saves that overlap included. *)
LEMMA FileInvStep == TypeOK /\ FileInv /\ [Next]_vars => FileInv'
<1> SUFFICES ASSUME TypeOK, FileInv, [Next]_vars PROVE FileInv'
  OBVIOUS
<1>1. CASE UNCHANGED vars
  BY <1>1 DEF vars, memory, disk, history, FileInv, DownIsIdle, OverlapsInSave,
              TmpIsNotFile, LoneSavers, Undisturbed, Text, Healed, FileIsText,
              FileIsCurrent, Loaded
<1> QED BY <1>1, ChangeKeepsInv, SnapshotKeepsInv, OpenKeepsInv, WriteKeepsInv,
           RenameKeepsInv, SaveFailsKeepsInv, RestartKeepsInv DEF Next, Save

(* FileInv holds from the start. *)
LEMMA FileInvInit == Init => FileInv
BY InodesAssumption DEF Init, FileInv, DownIsIdle, OverlapsInSave, TmpIsNotFile, LoneSavers,
                        Healed, FileIsText, FileIsCurrent, InSave, Loaded, NoState, Written

(* For any number of threads: after a save() that met no other one, and      *)
(* until two meet again, the next process can load state.json wherever this  *)
(* one dies and whatever fails.                                              *)
THEOREM LoneSavesLoadable == Spec => []LoneSavesHeal
<1>1. TypeOK /\ FileInv => LoneSavesHeal
  BY DEF TypeOK, FileInv, Healed, FileIsText, LoneSavesHeal, Loadable
<1> QED BY <1>1, TypeCorrect, FileInvInit, FileInvStep, PTL DEF Spec

(* server.cpp, "already durable locally at this point", for any number of    *)
(* threads: whenever no thread is in a change or a save and none failed, the *)
(* file is the memory, unless the last saves overlapped or load() has left   *)
(* the file unread.                                                          *)
THEOREM LoneSavesCurrent == Spec => []FileIsCurrent
<1>1. FileInv => FileIsCurrent
  BY DEF FileInv
<1> QED BY <1>1, TypeCorrect, FileInvInit, FileInvStep, PTL DEF Spec

-----------------------------------------------------------------------------
(* The steps of DurableState. *)

Memory == IF process = "up" THEN values ELSE Loaded

(* Taking a thread out of save() takes its text, at most, out of Saving. *)
LEMMA SavingShrinks ==
  ASSUME NEW t \in Threads, UNCHANGED snap, tpc'[t] = "idle",
         \A u \in Threads \ {t} : tpc'[u] = tpc[u]
  PROVE  Saving' \subseteq Saving
BY DEF Saving, InSave

(* A thread that goes on in save() leaves Saving as it is. *)
LEMMA SavingStays ==
  ASSUME UNCHANGED snap, \A u \in Threads : tpc'[u] \in InSave <=> tpc[u] \in InSave
  PROVE  Saving' = Saving
BY DEF Saving

(* Every step without a race, and the one that ends it, is one of            *)
(* DurableState's or changes nothing it sees.                                *)
LEMMA StepIsDurable ==
  ASSUME TypeOK, FileInv, [Next]_vars, ~raced'
  PROVE  Durable!Next \/ UNCHANGED <<Memory, Saving, Loaded>>
<1> USE InodesAssumption DEF TypeOK, Goto, memory, disk, history, Memory
<1>1. CASE UNCHANGED vars
  BY <1>1 DEF vars, Loaded, Saving
<1>2. ASSUME NEW t \in Threads, Change(t) PROVE Durable!Next
  <2>1. PICK n \in Names, v \in Values \cup {Absent} :
          /\ values' = [values EXCEPT ![n] = v]
          /\ process = "up" /\ process' = "up" /\ UNCHANGED <<file, content, snap>>
          /\ tpc[t] = "idle" /\ tpc' = [tpc EXCEPT ![t] = "snapshot"]
    BY <1>2 DEF Change, Set, Remove
  <2>2. \A u \in Threads : tpc'[u] \in InSave <=> tpc[u] \in InSave
    BY <2>1 DEF InSave
  <2>3. Saving' = Saving /\ Loaded' = Loaded
    BY <2>1, <2>2, SavingStays DEF Loaded
  <2> QED BY <2>1, <2>3 DEF Durable!Next, Durable!Update
<1>3. ASSUME NEW t \in Threads, Snapshot(t) PROVE Durable!Next
  <2>1. process = "up" /\ UNCHANGED <<values, process>> /\ Loaded' = Loaded
    BY <1>3 DEF Snapshot, FileInv, DownIsIdle, Loaded
  <2>2. /\ tpc[t] = "snapshot" /\ tpc'[t] = "open" /\ snap'[t] = values
        /\ \A u \in Threads \ {t} : tpc'[u] = tpc[u] /\ snap'[u] = snap[u]
    BY <1>3 DEF Snapshot
  <2>3. Saving' = Saving \cup {values}
    BY <2>2 DEF Saving, InSave
  <2> QED BY <2>1, <2>3 DEF Durable!Next, Durable!Begin
<1>4. ASSUME NEW t \in Threads, SaveFails(t) PROVE Durable!Next
  <2>1. /\ UNCHANGED <<values, process, snap>> /\ Loaded' = Loaded
        /\ tpc'[t] = "idle" /\ \A u \in Threads \ {t} : tpc'[u] = tpc[u]
    BY <1>4 DEF SaveFails, Loaded
  <2>2. Saving' \subseteq Saving
    BY <2>1, SavingShrinks
  <2> QED BY <2>1, <2>2 DEF Durable!Next, Durable!GiveUp, Durable!Ends
<1>5. ASSUME NEW t \in Threads, Open(t) PROVE UNCHANGED <<Memory, Saving, Loaded>>
  <2>1. PICK i \in Inodes : OpenInode(t, i)
    BY <1>5 DEF Open
  <2>2. /\ UNCHANGED <<values, process, snap, raced>>
        /\ \A u \in Threads : tpc'[u] \in InSave <=> tpc[u] \in InSave
    BY <2>1 DEF OpenInode, InSave
  <2>3. Loaded' = Loaded
    BY <1>5, <2>2, OpenKeepsInv
  <2> QED BY <2>2, <2>3, SavingStays
<1>6. ASSUME NEW t \in Threads, Write(t) \/ WriteFails(t)
      PROVE  Durable!Next
  <2>1. /\ UNCHANGED <<values, process, snap, raced>>
        /\ tpc[t] = "write" /\ tpc'[t] \in {"rename", "idle"}
        /\ \A u \in Threads \ {t} : tpc'[u] = tpc[u]
    BY <1>6 DEF Write, WriteFails
  <2>2. Loaded' = Loaded
    BY <1>6, <2>1, WriteKeepsInv
  <2>3. Saving' \subseteq Saving
    BY <2>1 DEF Saving, InSave
  <2> QED BY <2>1, <2>2, <2>3 DEF Durable!Next, Durable!GiveUp, Durable!Ends
<1>7. ASSUME NEW t \in Threads, Rename(t) PROVE Durable!Next
  <2>1. t \notin overlapping
    BY <1>7 DEF Rename, FileInv, Healed
  <2>2. Loaded' = [n \in Names |-> Written(snap[t][n])]
    BY <1>7, <2>1, LoneRename
  <2>3. /\ process = "up" /\ UNCHANGED <<values, process, snap>>
        /\ tpc[t] = "rename" /\ tpc'[t] = "idle"
        /\ \A u \in Threads \ {t} : tpc'[u] = tpc[u]
    BY <1>7 DEF Rename, FileInv, DownIsIdle
  <2>4. Saving' \subseteq Saving /\ snap[t] \in Saving
    BY <2>3, SavingShrinks DEF Saving, InSave
  <2> QED BY <2>2, <2>3, <2>4 DEF Durable!Next, Durable!Persist, Durable!Ends,
                                  Durable!WrittenState, Durable!Written, Written
<1>8. CASE Crash
  <2>1. Saving' = {}
    BY <1>8 DEF Crash, Saving, InSave
  <2> QED BY <1>8, <2>1 DEF Crash, Loaded, Durable!Next, Durable!Restart
<1>9. CASE LoadFile \/ LoadUnopened \/ LoadRefused
  <2>1. UNCHANGED <<tpc, snap, file, content>>
    BY <1>9 DEF LoadFile, LoadUnopened, LoadRefused
  <2>2. Saving' = Saving /\ Loaded' = Loaded
    BY <2>1 DEF Saving, Loaded
  <2> QED BY <1>9, <2>2 DEF LoadFile, LoadUnopened, LoadRefused, Durable!Next,
                            Durable!FreshStart, Durable!NoState, NoState
<1> QED BY <1>1, <1>2, <1>3, <1>4, <1>5, <1>6, <1>7, <1>8, <1>9 DEF Next, Save

(* The store starts as DurableState does. *)
LEMMA InitIsDurable == Init => Durable!Init
BY DEF Init, Durable!Init, Durable!NoState, NoState, Loaded, Saving, InSave

(* For any number of threads: seen through load(), memory and disk take the  *)
(* steps of DurableState, a lone save()'s rename() being its Persist, in all *)
(* steps but those of a race.                                                *)
THEOREM LoneSavesAreAtomic == Spec => SaveIsAtomic
<1>1. TypeOK /\ FileInv /\ [Next]_vars => [raced' \/ Durable!Next]_Durable!vars
  BY StepIsDurable DEF Memory, Durable!vars
<1> QED BY <1>1, InitIsDurable, TypeCorrect, FileInvInit, FileInvStep, PTL
        DEF Spec, SaveIsAtomic

(* One thread that changes and saves, a single HTTP worker without           *)
(* subscriptions, has nobody to race with: the store implements DurableState *)
(* and a crash always leaves a file the next process can load.               *)
THEOREM SingleThreadIsAtomic ==
  ASSUME NEW s, Threads = {s}
  PROVE  Spec => Durable!Spec /\ []CrashLeavesLoadable
<1>1. Init => ~raced
  BY DEF Init
<1>2. ~raced /\ [Next]_vars => ~raced'
  <2> SUFFICES ASSUME ~raced, [Next]_vars PROVE ~raced'
    OBVIOUS
  <2>1. \A t \in Threads : Others(t) = {}
    BY DEF Others
  <2>2. \A t \in Threads : Change(t) \/ Save(t) => ~raced'
    BY <2>1 DEF Change, Set, Remove, Save, Snapshot, Open, OpenInode, Write, WriteFails,
                Rename, SaveFails, history
  <2>3. Crash \/ LoadFile \/ LoadUnopened \/ LoadRefused => ~raced'
    BY DEF Crash, LoadFile, LoadUnopened, LoadRefused, history
  <2> QED BY <2>2, <2>3 DEF Next, vars, history
<1>3. TypeOK /\ FileInv /\ ~raced' /\ [Next]_vars => [Durable!Next]_Durable!vars
  BY StepIsDurable DEF Memory, Durable!vars
<1>4. ~raced /\ LoneSavesHeal => CrashLeavesLoadable
  BY DEF LoneSavesHeal, CrashLeavesLoadable
<1> QED BY <1>1, <1>2, <1>3, <1>4, LoneSavesLoadable, InitIsDurable, TypeCorrect,
           FileInvInit, FileInvStep, PTL
        DEF Spec, Durable!Spec
=============================================================================
