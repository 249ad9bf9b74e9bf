------------------------------ MODULE Startup ------------------------------
(***************************************************************************)
(* How the SoM, pc and the control station start: each loads the config    *)
(* file, takes its settings out of the document one constructor after the  *)
(* other, opens what it needs and goes into its loop.  What fails ends the *)
(* process without its destructors: RCPLANE_ASSERT is exit(1), and nothing *)
(* in the three mains catches what ConfigManager throws.  Meanwhile the    *)
(* file may be edited, and message queues outlive who made them.           *)
(***************************************************************************)
EXTENDS Config

CONSTANTS
  Documents,  \* what the file can hold, by name
  MaxStarts,  \* bound: starts of the SoM
  MaxEdits    \* bound: edits of the file

ASSUME StartupAssumption ==
  /\ {"missing", "broken", "none"} \cap DOMAIN Documents = {}
  /\ MaxStarts \in Nat /\ MaxEdits \in Nat

VARIABLES
  file,      \* the document in the file, or "missing" or "broken"
  edits,     \* edits so far
  at,        \* the stage each program is in
  loaded,    \* m_json: the document each program has loaded, or "none"
  settings,  \* what each program has taken out of it, by path and type
  queues,    \* the queues that exist, by name
  starts,    \* starts of the SoM so far
  abrupt     \* history: starts of the SoM that ended while they had queues

vars == <<file, edits, at, loaded, settings, queues, starts, abrupt>>

Programs == {"som", "pc", "station"}

(* Mutant: the port is opened last.                                        *)
Stages_PortLast ==
  [som |-> <<"load", "controller", "serial", "autopilot",
             "transmitter", "init", "port", "loop">>,
   pc |-> <<"load", "receiver", "init", "loop">>,
   station |-> <<"load", "receiver", "init", "loop">>]

Stages == [som |-> <<"load", "controller", "serial", "port", "autopilot",
                     "transmitter", "init", "loop">>,
           pc |-> <<"load", "receiver", "init", "loop">>,
           station |-> <<"load", "receiver", "init", "loop">>]

After(p) ==
  LET i == CHOOSE j \in DOMAIN Stages[p] : Stages[p][j] = at[p]
  IN  Stages[p][i + 1]

-----------------------------------------------------------------------------
(* What each constructor asks of getValue: paths, and the type for each.   *)
Io(part, key) == <<"rcplane", "io", part, key>>
Autopilot(key) == <<"rcplane", "autopilot", key>>
Stabilize(key) == <<"rcplane", "autopilot", "stabilize", key>>
SomKey(key) == <<"rcplane", "som", "som_controller", key>>

QueueNames == <<Io("telemetry", "debug_mq_name"),
                Io("telemetry", "attitude_mq_name"),
                Io("telemetry", "onboard_mq_name")>>
Kinds == DOMAIN QueueNames
QueueSize == Io("telemetry", "mq_size")
MaxThrottle == Autopilot("max_throttle")
MaxAileron == Autopilot("max_aileron_deflection")
MaxDeflections == {MaxAileron, Autopilot("max_elevator_deflection"),
                   Autopilot("max_rudder_deflection")}

Controller ==
  {SomKey("handshake_attempts"), SomKey("main_loop_delay_ms")} \X {"uint32"}
Serial ==
  ({Io("serial_controller", "tty_dev"),
    <<"rcplane", "common", "handshake_termination_string">>} \X {"string"})
  \cup ({Io("serial_controller", k) :
           k \in {"baud_rate", "read_timeout_ms", "write_timeout_ms"}}
         \X {"uint32"})
(* Mutant: the throttle's limit is read like the other three.              *)
Utility_Signed == (MaxDeflections \cup {MaxThrottle}) \X {"int8"}
Utility == {<<MaxThrottle, "uint8">>} \cup (MaxDeflections \X {"int8"})
(* StabilizeAutopilot takes the limit of the ailerons again, as a double.  *)
StabilizeGains ==
  ({MaxAileron} \cup {Stabilize(k) : k \in {"kp", "ki", "kd", "tau",
                                           "max_integral_error"}})
  \X {"double"}
Receiver == {QueueNames[k] : k \in Kinds} \X {"string"}
Transmitter == Receiver \cup {<<QueueSize, "uint32">>}

Readers == {"controller", "serial", "autopilot", "transmitter", "receiver"}

Wanted(stage) ==
  CASE stage = "controller" -> Controller
    [] stage = "serial" -> Serial
    [] stage = "autopilot" -> Utility \cup StabilizeGains
    [] stage = "transmitter" -> Transmitter
    [] stage = "receiver" -> Receiver

-----------------------------------------------------------------------------
Init ==
  /\ file \in DOMAIN Documents \cup {"missing", "broken"} /\ edits = 0
  /\ at = [p \in Programs |-> "off"]
  /\ loaded = [p \in Programs |-> "none"]
  /\ settings = [p \in Programs |-> <<>>]
  /\ queues = <<>> /\ starts = 0 /\ abrupt = {}

(* The process is gone, and what it had in memory with it.                 *)
Gone(p) ==
  /\ at' = [at EXCEPT ![p] = "off"]
  /\ loaded' = [loaded EXCEPT ![p] = "none"]
  /\ settings' = [settings EXCEPT ![p] = <<>>]

GoOn(p) == at' = [at EXCEPT ![p] = After(p)]

Edit ==
  /\ edits < MaxEdits
  /\ edits' = edits + 1
  /\ file' \in (DOMAIN Documents \cup {"missing", "broken"}) \ {file}
  /\ UNCHANGED <<at, loaded, settings, queues, starts, abrupt>>

Start(p) ==
  /\ at[p] = "off"
  /\ p = "som" => starts < MaxStarts
  /\ starts' = IF p = "som" THEN starts + 1 ELSE starts
  /\ at' = [at EXCEPT ![p] = "load"]
  /\ UNCHANGED <<file, edits, loaded, settings, queues, abrupt>>

(* loadConfig.  parse throws in every program; that there is no file is    *)
(* reported by the result, which the control station does not look at.     *)
Load(p) ==
  /\ at[p] = "load"
  /\ \/ /\ file \in DOMAIN Documents
        /\ loaded' = [loaded EXCEPT ![p] = file]
        /\ GoOn(p) /\ UNCHANGED settings
     \/ file = "missing" /\ p = "station" /\ GoOn(p)
          /\ UNCHANGED <<loaded, settings>>
     \/ file = "missing" /\ p # "station" /\ Gone(p)
     \/ file = "broken" /\ Gone(p)
  /\ UNCHANGED <<file, edits, queues, starts, abrupt>>

Json(p) == IF loaded[p] = "none" THEN Null ELSE Documents[loaded[p]]

(* What a program has once its next constructor has taken its settings.    *)
With(p, taken) ==
  [want \in DOMAIN settings[p] \cup DOMAIN taken |->
     IF want \in DOMAIN taken THEN taken[want] ELSE settings[p][want]]

(* Mutant: a setting that cannot be had is left for later.                 *)
Read_Lenient(p) ==
  /\ at[p] \in Readers
  /\ settings' = [settings EXCEPT ![p] = With(p,
       [want \in Wanted(at[p]) |-> GetValue(Json(p), want[1], want[2])])]
  /\ GoOn(p)
  /\ UNCHANGED <<file, edits, loaded, queues, starts, abrupt>>

(* A constructor takes its settings; the first that cannot be had throws.  *)
Read(p) ==
  /\ at[p] \in Readers
  /\ LET taken == [want \in Wanted(at[p])
                     |-> GetValue(Json(p), want[1], want[2])]
     IN  \/ /\ \A want \in DOMAIN taken : taken[want] # TypeError
            /\ settings' = [settings EXCEPT ![p] = With(p, taken)]
            /\ GoOn(p) /\ UNCHANGED loaded
         \/ /\ \E want \in DOMAIN taken : taken[want] = TypeError
            /\ Gone(p)
  /\ UNCHANGED <<file, edits, queues, starts, abrupt>>

(* SerialController::open.                                                 *)
OpenPort ==
  /\ at["som"] = "port"
  /\ \/ GoOn("som") /\ UNCHANGED <<loaded, settings>>
     \/ Gone("som")
  /\ UNCHANGED <<file, edits, queues, starts, abrupt>>

Name(p, k) == settings[p][<<QueueNames[k], "string">>].text
ConfiguredSize == settings["som"][<<QueueSize, "uint32">>].whole

(* The queues once the first n are open: a queue is made by the first kind *)
(* that asks for its name, with the size configured, unless it was there.  *)
(* Its messages have the size of that kind's.                              *)
Opened(n) ==
  [name \in DOMAIN queues \cup {Name("som", k) : k \in 1 .. n} |->
     IF name \in DOMAIN queues THEN queues[name]
     ELSE [kind |-> CHOOSE k \in 1 .. n :
                      /\ Name("som", k) = name
                      /\ \A j \in 1 .. k - 1 : Name("som", j) # name,
           size |-> ConfiguredSize, start |-> starts]]

(* TelemetryTransmitterMQ::init: any of the three may fail to open, and    *)
(* those before it stay behind.                                            *)
InitTransmitter ==
  /\ at["som"] = "init"
  /\ \/ /\ queues' = Opened(3) /\ GoOn("som")
        /\ UNCHANGED <<loaded, settings, abrupt>>
     \/ \E n \in 0 .. 2 :
          /\ queues' = Opened(n) /\ Gone("som")
          /\ abrupt' = abrupt \cup {starts}
  /\ UNCHANGED <<file, edits, starts>>

(* TelemetryReceiverMQ::init; TelemetryThread ignores what it returns.     *)
InitReceiver(p) ==
  /\ p # "som" /\ at[p] = "init"
  /\ \/ /\ p = "station" \/ \A k \in Kinds : Name(p, k) \in DOMAIN queues
        /\ GoOn(p) /\ UNCHANGED <<loaded, settings>>
     \/ /\ p = "pc" /\ \E k \in Kinds : Name(p, k) \notin DOMAIN queues
        /\ Gone(p)
  /\ UNCHANGED <<file, edits, queues, starts, abrupt>>

(* Mutant: the queue that was added last is not removed.                   *)
Stop_ForgetsOnboard ==
  /\ at["som"] = "loop"
  /\ queues' = [name \in DOMAIN queues \ {Name("som", k) : k \in {1, 2}}
                  |-> queues[name]]
  /\ Gone("som")
  /\ UNCHANGED <<file, edits, starts, abrupt>>

(* The SoM's destructors remove the three queues by name.                  *)
Stop ==
  /\ at["som"] = "loop"
  /\ queues' = [name \in DOMAIN queues \ {Name("som", k) : k \in Kinds}
                  |-> queues[name]]
  /\ Gone("som")
  /\ UNCHANGED <<file, edits, starts, abrupt>>

(* A program is killed, or closed by its user.                             *)
Kill(p) ==
  /\ at[p] # "off"
  /\ Gone(p)
  /\ abrupt' = IF p = "som" /\ at[p] = "loop" THEN abrupt \cup {starts}
               ELSE abrupt
  /\ UNCHANGED <<file, edits, queues, starts>>

Next ==
  \/ Edit \/ OpenPort \/ InitTransmitter \/ Stop
  \/ \E p \in Programs : Start(p) \/ Load(p) \/ Read(p) \/ InitReceiver(p) \/ Kill(p)

Spec == Init /\ [][Next]_vars

-----------------------------------------------------------------------------
TypeOK ==
  /\ file \in DOMAIN Documents \cup {"missing", "broken"}
  /\ edits \in 0 .. MaxEdits /\ starts \in 0 .. MaxStarts
  /\ \A p \in Programs :
       /\ at[p] \in {"off"} \cup {Stages[p][i] : i \in DOMAIN Stages[p]}
       /\ loaded[p] \in DOMAIN Documents \cup {"none"}
       /\ \A want \in DOMAIN settings[p] : settings[p][want] # TypeError
  /\ \A name \in DOMAIN queues :
       queues[name].kind \in Kinds /\ queues[name].start \in 1 .. starts
  /\ abrupt \subseteq 1 .. starts

(* What stands at a path of a document, said without null's help: every    *)
(* key on the way leads from an object to a value that is there.           *)
Child(json, key) ==
  IF json.kind = "object" /\ key \in DOMAIN json.fields
  THEN json.fields[key]
  ELSE Null

Stands(json, path) ==
  LET node[i \in 0 .. Len(path)] ==
        IF i = 0 THEN json ELSE Child(node[i - 1], path[i])
  IN  node[Len(path)]

(* No program gets into its loop without a document, even the control      *)
(* station that ignores loadConfig's result, nor with a setting that the   *)
(* document does not hold: a missing key becomes null on the way, and null *)
(* is nothing a setting can be made of.                                    *)
RunsConfigured ==
  \A p \in Programs : at[p] = "loop" =>
    /\ loaded[p] \in DOMAIN Documents
    /\ \A k \in Kinds :
         settings[p][<<QueueNames[k], "string">>]
           = Stands(Documents[loaded[p]], QueueNames[k])
    /\ \A want \in DOMAIN settings[p] :
         Stands(Documents[loaded[p]], want[1]) # Null

(* While the SoM runs, each kind of message has a queue made for its kind, *)
(* of the size configured, whatever was there before and however the file  *)
(* was edited meanwhile; unless open_or_create found one that an earlier   *)
(* start left, or two kinds share a name.                                  *)
QueuesAsConfigured ==
  at["som"] = "loop" => \A k \in Kinds :
    LET name == Name("som", k)
    IN  /\ name \in DOMAIN queues
        /\ \/ queues[name] = [kind |-> k, start |-> starts,
                              size |-> ConfiguredSize]
           \/ queues[name].start \in abrupt
           \/ \E j \in Kinds \ {k} : Name("som", j) = name

(* A queue exists because the SoM runs, or because a start of it ended     *)
(* with its queues open.  A start that fails for its file, its settings or *)
(* its port leaves none: everything that can fail comes before init.       *)
LeftoversExplained ==
  \A name \in DOMAIN queues :
    \/ queues[name].start = starts /\ at["som"] # "off"
    \/ queues[name].start \in abrupt

(* The limits in use are those of which Autopilot's LimitsAssumption       *)
(* speaks, for every document with limits of that size, and both readers   *)
(* of the ailerons' limit have the same.  getValue itself would let others *)
(* through, narrowed, and then the two differ.                             *)
Safe(path, json) ==
  \E n \in IF path = MaxThrottle THEN 0 .. 255 ELSE 0 .. 127 :
    json = Number(n, FALSE)

LimitsUsable ==
  at["som"] = "loop" => \A path \in MaxDeflections \cup {MaxThrottle} :
    Safe(path, Stands(Documents[loaded["som"]], path)) =>
      \A want \in Utility \cup StabilizeGains : want[1] = path =>
        settings["som"][want] = Stands(Documents[loaded["som"]], path)
=============================================================================
