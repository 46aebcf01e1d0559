---------------------------- MODULE DurableState ----------------------------
(***************************************************************************)
(* What StateStore promises of the state file (src/state.h, README "State   *)
(* persistence"): there is one current state in memory and one on disk, the *)
(* disk goes in a single step to a complete state the memory had when a     *)
(* save() began, and a restart resumes from what the disk holds, or empty   *)
(* when it cannot open it.                                                  *)
(***************************************************************************)
EXTENDS Integers

CONSTANTS Names,      \* metric names
          Values,     \* the numbers a metric may take
          Absent,     \* "no such entry"
          Precision   \* values are written to the nearest lower multiple of this

VARIABLES memory,     \* values_ of the running process
          saving,     \* the states save() is about to write
          disk        \* what load() would read

vars == <<memory, saving, disk>>

(* format_double() keeps nine significant digits; what is beyond them is    *)
(* gone when parse_double() reads the text back.                            *)
Written(v) == IF v = Absent THEN Absent ELSE v - (v % Precision)

WrittenState(s) == [n \in Names |-> Written(s[n])]

NoState == [n \in Names |-> Absent]

Init == memory = NoState /\ saving = {} /\ disk = NoState

Update == \E n \in Names, v \in Values \cup {Absent} :
            memory' = [memory EXCEPT ![n] = v] /\ UNCHANGED <<saving, disk>>

Begin == saving' = saving \cup {memory} /\ UNCHANGED <<memory, disk>>

(* A save() that ends may leave another one with the same text. *)
Ends == saving' \subseteq saving

GiveUp == Ends /\ UNCHANGED <<memory, disk>>

Persist == /\ \E s \in saving : disk' = WrittenState(s)
           /\ Ends
           /\ UNCHANGED memory

Restart == memory' = disk /\ saving' = {} /\ UNCHANGED disk

FreshStart == memory' = NoState /\ UNCHANGED <<saving, disk>>

Next == Update \/ Begin \/ GiveUp \/ Persist \/ Restart \/ FreshStart

Spec == Init /\ [][Next]_vars
=============================================================================
