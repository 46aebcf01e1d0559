------------------------------ MODULE Startup ------------------------------
(***************************************************************************)
(* main() from its command line to a serving instance: the configuration    *)
(* (Config) decides whether the process starts at all and on which path and *)
(* with which mode setup_socket() (SocketSetup) works.  Several instances   *)
(* start, fail, stop and are killed independently, each with its own file   *)
(* and environment, which stay the same from one start to the next.         *)
(***************************************************************************)
EXTENDS Config, SocketSetup

CONSTANT Starts(_)  \* instance -> the command lines, files and environments it may have

(* A file is lines of text; of the environment only the variables of         *)
(* kEnvKeys are looked at.  The paths and modes are those that are           *)
(* configured, or the built-in ones.                                         *)
ASSUME StartsAssumption ==
  /\ Defaults.socket \in Paths /\ Defaults.socket_mode \in Modes
  /\ \A i \in Instances : \A st \in Starts(i) :
       /\ st.found \in {"readable", "unreadable", "absent"} /\ st.explicit \in BOOLEAN
       /\ st.file \in Seq(Seq(STRING)) /\ DOMAIN st.env \subseteq Keys
  /\ \A i \in Instances : \A st \in Starts(i) :
       Configure(st).ok => /\ Configure(st).cfg.socket \in Paths
                           /\ Configure(st).cfg.socket_mode \in Modes

VARIABLES start,    \* instance -> its own
          reading   \* instance -> what Configure() made of it, none before the first start

vars == <<start, reading, socketvars>>

TypeOK ==
  /\ SocketTypeOK
  /\ \A i \in Instances :
       /\ start[i] \in Starts(i)
       /\ \A r \in reading[i] :
            /\ r.ok \in BOOLEAN /\ r.warnings \in 0 .. Len(start[i].file)
            /\ DOMAIN r.cfg = Keys
       /\ pc[i] # "off" => \E r \in reading[i] : r.ok

Init ==
  /\ SocketInit(Defaults.socket, Defaults.socket_mode)
  /\ start \in [Instances -> UNION {Starts(i) : i \in Instances}]
  /\ \A i \in Instances : start[i] \in Starts(i)
  /\ reading = [i \in Instances |-> {}]

(* Mutant: the error is logged and the defaults are used. *)
MainCarriesOn(i) ==
  LET r == Configure(start[i])
  IN /\ pc[i] = "off"
     /\ reading' = [reading EXCEPT ![i] = {r}]
     /\ Begin(i, Defaults.socket, Defaults.socket_mode)
     /\ UNCHANGED start

(* main() reads the configuration; refused, it returns 1 before anything else. *)
Main(i) ==
  LET r == Configure(start[i])
  IN /\ pc[i] = "off"
     /\ reading' = [reading EXCEPT ![i] = {r}]
     /\ IF r.ok THEN Begin(i, r.cfg.socket, r.cfg.socket_mode)
        ELSE UNCHANGED <<server, files, orphans>>
     /\ UNCHANGED start

Next ==
  \E i \in Instances :
    /\ \/ Main(i)
       \/ SocketStep(i) /\ UNCHANGED <<start, reading>>
    /\ RecordDisturbance

Spec == Init /\ [][Next]_vars

-----------------------------------------------------------------------------
(* What the documentation says a setting is: the environment variable, else  *)
(* the last line of the file that sets it, else the built-in default.        *)

Assigns(line, key) ==
  LET t == trim(line) IN
    t # << >> /\ t[1] # "#" /\ \E n \in DOMAIN t :
      /\ t[n] = "=" /\ \A k \in 1 .. n - 1 : t[k] # "="
      /\ trim(SubSeq(t, 1, n - 1)) = <<key>>

Assigned(line) == trim(Tail(SubSeq(line, SelectInSeq(line, LAMBDA c : c = "="), Len(line))))

Setters(file, key) == {n \in DOMAIN file : Assigns(file[n], key)}

Meant(st, key) ==
  IF key \in DOMAIN st.env THEN Value(key, st.env[key])
  ELSE IF st.found = "readable" /\ Setters(st.file, key) # {}
       THEN Value(key, Assigned(st.file[Max(Setters(st.file, key))]))
       ELSE {Defaults[key]}

(* Something main() must refuse: a file it cannot read, a line that is not   *)
(* key=value or has an invalid value, an invalid variable.                   *)
Invalid(st) ==
  \/ st.found = "unreadable" \/ (st.found = "absent" /\ st.explicit)
  \/ \E key \in DOMAIN st.env : Value(key, st.env[key]) = {}
  \/ st.found = "readable" /\ \E n \in DOMAIN st.file :
       LET t == trim(st.file[n]) IN
         /\ t # << >> /\ t[1] # "#"
         /\ \/ \A k \in DOMAIN t : t[k] # "="
            \/ \E key \in Keys : Assigns(t, key) /\ Value(key, Assigned(t)) = {}

(* The assumptions of the other modules on what is configured. *)
WithinLimits(cfg) ==
  /\ cfg.mqtt_pool_size >= 1 /\ cfg.mqtt_queue_size >= 1
  /\ cfg.webhook_queue_size >= 1 /\ cfg.threads >= 1 /\ cfg.mqtt_qos \in 0 .. 2
  /\ cfg.max_request_bytes >= 256 /\ cfg.max_body_bytes >= 1

(* Whenever main() reads a configuration: it starts exactly if no line, no   *)
(* variable and no path has to be refused, and then every field has the      *)
(* value its operator meant, the environment's, else that of the last line   *)
(* that sets it, else the default (config.h:7), within the limits the        *)
(* queues, pools and buffers of the other modules assume.                    *)
ConfigIsMeant ==
  [][\A i \in Instances : reading'[i] # reading[i] =>
       \A r \in reading'[i] :
         /\ r.ok = ~Invalid(start[i])
         /\ r.ok => /\ \A key \in Keys : Meant(start[i], key) = {r.cfg[key]}
                    /\ WithinLimits(r.cfg)]_vars
=============================================================================
