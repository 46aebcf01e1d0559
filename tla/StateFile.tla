----------------------------- MODULE StateFile -----------------------------
(***************************************************************************)
(* StateStore (src/state.cpp): the values in memory, and state.json on      *)
(* disk.  set() and remove() hold the store's mutex; save() holds it only   *)
(* for the snapshot, and then writes <path>.tmp and renames it with nothing *)
(* to keep two saves apart.  The threads are the HTTP workers and the       *)
(* subscribe worker; each change is followed by a save (server.cpp's        *)
(* handle_metric_write/_delete, main.cpp's message handler).                *)
(*                                                                         *)
(* The file system is external: two directory entries, and inodes that stay *)
(* in being while a name or an open stream refers to them.  Process crashes *)
(* are modelled, power failures are not.                                    *)
(***************************************************************************)
EXTENDS Integers, FiniteSets

CONSTANTS Threads,    \* the threads that change the store
          Names,      \* metric names
          Values,     \* the numbers a metric may take
          Absent,     \* "no such entry"
          Precision,  \* what format_double() keeps of a value
          Inodes,     \* enough for two names and one stream per thread
          NoInode     \* "no such file"

ASSUME ValuesAssumption == Values \subseteq Nat /\ Absent \notin Nat
ASSUME PrecisionAssumption == Precision \in Nat \ {0}
ASSUME InodesAssumption == NoInode \notin Inodes

VARIABLES values,     \* values_
          process,    \* "up", "down", or "refused": load() failed at startup
          tpc,        \* thread -> where it is in save()
          snap,       \* thread -> save()'s text
          stream,     \* thread -> the inode save()'s ofstream has open
          file,       \* external: the inode state.json names
          tmp,        \* external: the inode state.json.tmp names
          content,    \* external: inode -> what it holds
          unsaved,    \* threads whose last save() returned an error
          overlapping,\* history: threads whose save() has met another one
          raced,      \* history: saves have met since one ran by itself
          unread      \* history: load() could not open the file that is there

memory == <<values, process>>
disk == <<file, tmp, content>>
history == <<overlapping, raced, unread>>
vars == <<memory, tpc, snap, stream, disk, unsaved, history>>

(* format_double() writes nine significant digits: what is beyond them is   *)
(* gone when parse_double() reads the text back.                            *)
Written(v) == IF v = Absent THEN Absent ELSE v - (v % Precision)

NoState == [n \in Names |-> Absent]
States == [Names -> Values \cup {Absent}]

(* What a file holds: the text of a state, nothing yet, or part of a text.  *)
Text(s) == [kind |-> "text", state |-> [n \in Names |-> Written(s[n])]]
Empty == [kind |-> "empty", state |-> NoState]
Partial == [kind |-> "partial", state |-> NoState]
Contents == [kind : {"text", "empty", "partial"},
             state : [Names -> Nat \cup {Absent}]]

(* Where save() has its snapshot and has not returned. *)
InSave == {"open", "write", "rename"}

(* A thread has a stream open exactly while it writes: none leaks. *)
TypeOK ==
  /\ values \in [Names -> Nat \cup {Absent}]
  /\ process \in {"up", "down", "refused"}
  /\ tpc \in [Threads -> {"idle", "snapshot", "open", "write", "rename"}]
  /\ snap \in [Threads -> [Names -> Nat \cup {Absent}]]
  /\ stream \in [Threads -> Inodes \cup {NoInode}]
  /\ \A t \in Threads : stream[t] \in Inodes <=> tpc[t] = "write"
  /\ file \in Inodes \cup {NoInode}
  /\ tmp \in Inodes \cup {NoInode}
  /\ content \in [Inodes -> Contents]
  /\ unsaved \in SUBSET Threads
  /\ overlapping \in SUBSET Threads
  /\ raced \in BOOLEAN
  /\ unread \in BOOLEAN

Init ==
  /\ values = NoState
  /\ process = "up"
  /\ tpc = [t \in Threads |-> "idle"]
  /\ snap = [t \in Threads |-> NoState]
  /\ stream = [t \in Threads |-> NoInode]
  /\ file = NoInode
  /\ tmp = NoInode
  /\ content = [i \in Inodes |-> Empty]
  /\ unsaved = {}
  /\ overlapping = {}
  /\ raced = FALSE
  /\ unread = FALSE

Goto(t, pc) == tpc' = [tpc EXCEPT ![t] = pc]

-----------------------------------------------------------------------------
(* set(), and remove() of an entry that is there; each caller then saves.   *)
(* remove() of an absent entry answers 404 and changes nothing.             *)

Set(t, n, v) ==
  /\ tpc[t] = "idle" /\ process = "up"
  /\ values' = [values EXCEPT ![n] = v]
  /\ Goto(t, "snapshot")
  /\ UNCHANGED <<process, snap, stream, disk, unsaved, history>>

(* Mutant: the removal is not followed by a save. *)
RemoveUnsaved(t, n) ==
  /\ tpc[t] = "idle" /\ process = "up"
  /\ values[n] # Absent
  /\ values' = [values EXCEPT ![n] = Absent]
  /\ UNCHANGED <<process, tpc, snap, stream, disk, unsaved, history>>

Remove(t, n) ==
  /\ tpc[t] = "idle" /\ process = "up"
  /\ values[n] # Absent
  /\ values' = [values EXCEPT ![n] = Absent]
  /\ Goto(t, "snapshot")
  /\ UNCHANGED <<process, snap, stream, disk, unsaved, history>>

-----------------------------------------------------------------------------
(* save(), step by step. *)

Others(t) == {u \in Threads \ {t} : tpc[u] \in InSave}

(* From here to its return a save() may meet another one. *)
Snapshot(t) ==
  /\ tpc[t] = "snapshot"
  /\ snap' = [snap EXCEPT ![t] = values]
  /\ Goto(t, "open")
  /\ raced' = (raced \/ Others(t) # {})
  /\ overlapping' = IF Others(t) = {} THEN overlapping
                                     ELSE overlapping \cup {t} \cup Others(t)
  /\ UNCHANGED <<memory, stream, disk, unsaved, unread>>

InUse == {file, tmp} \cup {stream[t] : t \in Threads}

(* Mutant: state.json itself is truncated and rewritten. *)
OpenInPlace(t, i) ==
  /\ tpc[t] = "open"
  /\ i \in Inodes
  /\ IF file # NoInode THEN i = file ELSE i \notin InUse
  /\ tmp' = i
  /\ content' = [content EXCEPT ![i] = Empty]
  /\ stream' = [stream EXCEPT ![t] = i]
  /\ Goto(t, "write")
  /\ UNCHANGED <<memory, snap, file, unsaved, history>>

(* ofstream(tmp_path, trunc): truncates the .tmp that is there, whoever has  *)
(* it open, or creates it.                                                   *)
OpenInode(t, i) ==
  /\ tpc[t] = "open"
  /\ i \in Inodes
  /\ IF tmp # NoInode THEN i = tmp ELSE i \notin InUse
  /\ tmp' = i
  /\ content' = [content EXCEPT ![i] = Empty]
  /\ stream' = [stream EXCEPT ![t] = i]
  /\ Goto(t, "write")
  /\ UNCHANGED <<memory, snap, file, unsaved, history>>

Open(t) == \E i \in Inodes : OpenInode(t, i)

(* out << text, flush and close. *)
Write(t) ==
  /\ tpc[t] = "write"
  /\ content' = [content EXCEPT ![stream[t]] = Text(snap[t])]
  /\ stream' = [stream EXCEPT ![t] = NoInode]
  /\ Goto(t, "rename")
  /\ UNCHANGED <<memory, snap, file, tmp, unsaved, history>>

(* Mutant: the stream's state is not looked at before the rename. *)
WriteFailsUnseen(t) ==
  /\ tpc[t] = "write"
  /\ content' = [content EXCEPT ![stream[t]] = Partial]
  /\ stream' = [stream EXCEPT ![t] = NoInode]
  /\ Goto(t, "rename")
  /\ UNCHANGED <<memory, snap, file, tmp, unsaved, history>>

(* Mutant: the early return leaves the stream open. *)
WriteFailsLeaks(t) ==
  /\ tpc[t] = "write"
  /\ content' = [content EXCEPT ![stream[t]] = Partial]
  /\ unsaved' = unsaved \cup {t}
  /\ overlapping' = overlapping \ {t}
  /\ Goto(t, "idle")
  /\ UNCHANGED <<memory, snap, stream, file, tmp, raced, unread>>

(* The file system is full: part of the text is there, save() returns. *)
WriteFails(t) ==
  /\ tpc[t] = "write"
  /\ content' = [content EXCEPT ![stream[t]] = Partial]
  /\ stream' = [stream EXCEPT ![t] = NoInode]
  /\ unsaved' = unsaved \cup {t}
  /\ overlapping' = overlapping \ {t}
  /\ Goto(t, "idle")
  /\ UNCHANGED <<memory, snap, file, tmp, raced, unread>>

(* A save() that met no other one ends what earlier ones left. *)
Rename(t) ==
  /\ tpc[t] = "rename"
  /\ tmp # NoInode
  /\ file' = tmp
  /\ tmp' = NoInode
  /\ unsaved' = unsaved \ {t}
  /\ overlapping' = overlapping \ {t}
  /\ raced' = (raced /\ t \in overlapping)
  /\ unread' = FALSE
  /\ Goto(t, "idle")
  /\ UNCHANGED <<memory, snap, stream, content>>

(* The stream cannot be opened, or rename() fails: no right to write the     *)
(* directory, or another save has renamed the .tmp away.                     *)
SaveFails(t) ==
  /\ tpc[t] \in {"open", "rename"}
  /\ unsaved' = unsaved \cup {t}
  /\ overlapping' = overlapping \ {t}
  /\ Goto(t, "idle")
  /\ UNCHANGED <<memory, snap, stream, disk, raced, unread>>

-----------------------------------------------------------------------------
(* The process dies at any point; what is on disk stays. *)
Crash ==
  /\ process = "up"
  /\ process' = "down"
  /\ values' = NoState
  /\ tpc' = [t \in Threads |-> "idle"]
  /\ snap' = [t \in Threads |-> NoState]
  /\ stream' = [t \in Threads |-> NoInode]
  /\ unsaved' = {}
  /\ overlapping' = {}
  /\ unread' = FALSE
  /\ UNCHANGED <<disk, raced>>

(* load() when the process is started again, whether it died or refused to   *)
(* start: a missing file is a fresh start, a text is taken ...               *)
Loadable == file # NoInode => content[file].kind = "text"
Loaded == IF file = NoInode THEN NoState ELSE content[file].state

LoadFile ==
  /\ process # "up"
  /\ Loadable
  /\ process' = "up"
  /\ values' = Loaded
  /\ UNCHANGED <<tpc, snap, stream, disk, unsaved, history>>

(* ... so is a file that is there and cannot be opened, whatever it holds:   *)
(* the store starts empty ...                                                *)
LoadUnopened ==
  /\ process # "up"
  /\ file # NoInode
  /\ process' = "up"
  /\ values' = NoState
  /\ unread' = TRUE
  /\ UNCHANGED <<tpc, snap, stream, disk, unsaved, overlapping, raced>>

(* ... and one that does not parse, or cannot be read to its end, ends the   *)
(* process before it serves anything.                                        *)
LoadRefused ==
  /\ process # "up"
  /\ file # NoInode
  /\ process' = "refused"
  /\ UNCHANGED <<values, tpc, snap, stream, disk, unsaved, history>>

Change(t) == \E n \in Names : Remove(t, n) \/ \E v \in Values : Set(t, n, v)
Save(t) == Snapshot(t) \/ Open(t) \/ Write(t) \/ WriteFails(t)
             \/ Rename(t) \/ SaveFails(t)

Next == \/ \E t \in Threads : Change(t) \/ Save(t)
        \/ Crash \/ LoadFile \/ LoadUnopened \/ LoadRefused

Spec == Init /\ [][Next]_vars

-----------------------------------------------------------------------------
(* Properties. *)

(* state.h: "A crash mid-write leaves the previous state.json untouched":    *)
(* whenever the process dies, the next one can load the file.                *)
CrashLeavesLoadable == Loadable

(* What overlapping saves leave is healed by the first save() that meets no  *)
(* other one: from its rename() on, until two saves overlap again, the next  *)
(* process can load the file wherever this one dies and whatever fails.      *)
LoneSavesHeal == ~raced => Loadable

(* Every accepted change reaches state.json: when no thread is in save() and *)
(* none reported an error, the file is the memory, to format_double()'s      *)
(* digits (server.cpp: "already durable locally at this point"), unless the  *)
(* last saves overlapped, and the older text may have been renamed last, or  *)
(* load() left a file unread and nothing was saved since.                    *)
FileIsCurrent ==
  (/\ process = "up" /\ unsaved = {} /\ ~raced /\ ~unread
   /\ \A t \in Threads : tpc[t] = "idle")
    => Loaded = [n \in Names |-> Written(values[n])]

(* The texts of the saves under way. *)
Saving == {snap[t] : t \in {u \in Threads : tpc[u] \in InSave}}

Durable == INSTANCE DurableState WITH
             memory <- IF process = "up" THEN values ELSE Loaded,
             saving <- Saving,
             disk <- Loaded

(* save() is an atomic update: memory and disk, seen through load(), take    *)
(* only the steps of the persistence StateStore promises, as long as no      *)
(* saves overlap; the rename() that ends a race is such a step again.        *)
SaveIsAtomic ==
  Durable!Init /\ [][raced' \/ Durable!Next]_Durable!vars
=============================================================================
