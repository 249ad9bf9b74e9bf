--------------------------- MODULE StartupProofs ----------------------------
(***************************************************************************)
(* Proofs, for any documents and any number of starts and edits, of what   *)
(* Startup promises about settings and message queues.  The lookup of a    *)
(* path is a recursive function over its keys; what it computes for a path *)
(* of any length is proved by way of the first key to go wrong.            *)
(***************************************************************************)
EXTENDS Startup, WellFoundedInduction, TLAPS

(* Every set of naturals that is not empty has a least element: induction  *)
(* for a claim about n is the statement that no n is the first to fail it. *)
LEMMA Least ==
  ASSUME NEW T \in SUBSET Nat, T # {}
  PROVE  \E n \in T : \A m \in T : n <= m
<1> DEFINE R == {ss \in Nat \X Nat : ss[1] < ss[2]}
<1>1. IsWellFoundedOn(R, Nat)
  BY NatLessThanWellFounded, Zenon DEF OpToRel
<1>2. T \subseteq Nat
  OBVIOUS
<1> HIDE DEF R
<1>3. PICK n \in T : \A m \in T : ~(<<m, n>> \in R)
  BY <1>1, <1>2, WFMin, Zenon
<1>4. \A m \in T : ~(m < n)
  BY <1>3 DEF R
<1> QED
  BY <1>3, <1>4

(* The values on the way down a path: what accumulate passes along, and    *)
(* what stands there.                                                      *)
Way(json, path, way, n) ==
  way = [i \in 0 .. n |->
           IF i = 0 THEN <<json, json>>
           ELSE <<At(way[i - 1][1], path[i]), Child(way[i - 1][2], path[i])>>]

(* There is such a way for a path of any length.                           *)
LEMMA WayExists ==
  ASSUME NEW json, NEW path, NEW n \in Nat
  PROVE  \E way : Way(json, path, way, n)
<1> DEFINE T == {k \in Nat : ~ \E way : Way(json, path, way, k)}
<1>1. SUFFICES ASSUME T # {} PROVE FALSE
  BY DEF T
<1>2. PICK k \in T : \A m \in T : k <= m
  BY <1>1, Least
<1>3. CASE k = 0
  <2>1. Way(json, path, [i \in 0 .. 0 |-> <<json, json>>], 0)
    BY DEF Way
  <2> QED
    BY <1>2, <1>3, <2>1
<1>4. CASE k # 0
  <2>1. k - 1 \in Nat /\ k - 1 \notin T
    BY <1>2, <1>4
  <2>2. PICK way : Way(json, path, way, k - 1)
    BY <2>1
  <2> DEFINE next == <<At(way[k - 1][1], path[k]), Child(way[k - 1][2], path[k])>>
             more == [i \in 0 .. k |-> IF i = k THEN next ELSE way[i]]
  <2>3. \A i \in 0 .. k - 1 :
          way[i] = IF i = 0 THEN <<json, json>>
                   ELSE <<At(way[i - 1][1], path[i]), Child(way[i - 1][2], path[i])>>
    BY <2>1, <2>2 DEF Way
  <2>4. \A i \in 0 .. k :
          more[i] = IF i = 0 THEN <<json, json>>
                    ELSE <<At(more[i - 1][1], path[i]),
                           Child(more[i - 1][2], path[i])>>
    <3>1. \A i \in 0 .. k - 1 : more[i] = way[i]
      BY <2>1
    <3>2. more[k] = next /\ k - 1 \in 0 .. k - 1
      BY <1>4, <2>1
    <3>3. more[k] = <<At(more[k - 1][1], path[k]),
                      Child(more[k - 1][2], path[k])>>
      BY <3>1, <3>2
    <3> HIDE DEF more
    <3>4. ASSUME NEW i \in 0 .. k - 1
          PROVE  more[i] = IF i = 0 THEN <<json, json>>
                           ELSE <<At(more[i - 1][1], path[i]),
                                  Child(more[i - 1][2], path[i])>>
      <4>1. CASE i = 0
        BY <2>3, <3>1, <4>1
      <4>2. CASE i # 0
        <5>1. i - 1 \in 0 .. k - 1
          BY <2>1, <4>2
        <5> QED
          BY <2>3, <3>1, <4>2, <5>1
      <4> QED
        BY <4>1, <4>2
    <3> QED
      BY <1>4, <2>1, <3>3, <3>4
  <2>5. more = [i \in 0 .. k |->
                  IF i = 0 THEN <<json, json>>
                  ELSE <<At(more[i - 1][1], path[i]),
                         Child(more[i - 1][2], path[i])>>]
    BY <2>4
  <2>6. Way(json, path, more, k)
    BY <2>5 DEF Way
  <2> QED
    BY <1>2, <2>6
<1> QED
  BY <1>3, <1>4

(* So the two recursive definitions are what they say.                     *)
LEMMA SubUnfolds ==
  ASSUME NEW json, NEW path, Len(path) \in Nat
  PROVE  \E sub : /\ SubJson(json, path) = sub[Len(path)]
                  /\ sub[0] = json
                  /\ \A i \in 1 .. Len(path) : sub[i] = At(sub[i - 1], path[i])
<1> DEFINE sub == CHOOSE sub : sub = [i \in 0 .. Len(path) |->
                    IF i = 0 THEN json ELSE At(sub[i - 1], path[i])]
<1>1. sub = [i \in 0 .. Len(path) |->
               IF i = 0 THEN json ELSE At(sub[i - 1], path[i])]
  <2>1. PICK way : Way(json, path, way, Len(path))
    BY WayExists
  <2> DEFINE first == [i \in 0 .. Len(path) |-> way[i][1]]
  <2>2. first = [i \in 0 .. Len(path) |->
                   IF i = 0 THEN json ELSE At(first[i - 1], path[i])]
    BY <2>1 DEF Way
  <2> HIDE DEF first
  <2> QED
    BY <2>2, Zenon
<1>2. SubJson(json, path) = sub[Len(path)]
  BY Zenon DEF SubJson
<1> HIDE DEF sub
<1> QED
  BY <1>1, <1>2

LEMMA StandsUnfolds ==
  ASSUME NEW json, NEW path, Len(path) \in Nat
  PROVE  \E node : /\ Stands(json, path) = node[Len(path)]
                   /\ node[0] = json
                   /\ \A i \in 1 .. Len(path) :
                        node[i] = Child(node[i - 1], path[i])
<1> DEFINE node == CHOOSE node : node = [i \in 0 .. Len(path) |->
                     IF i = 0 THEN json ELSE Child(node[i - 1], path[i])]
<1>1. node = [i \in 0 .. Len(path) |->
                IF i = 0 THEN json ELSE Child(node[i - 1], path[i])]
  <2>1. PICK way : Way(json, path, way, Len(path))
    BY WayExists
  <2> DEFINE second == [i \in 0 .. Len(path) |-> way[i][2]]
  <2>2. second = [i \in 0 .. Len(path) |->
                    IF i = 0 THEN json ELSE Child(second[i - 1], path[i])]
    BY <2>1 DEF Way
  <2> HIDE DEF second
  <2> QED
    BY <2>2, Zenon
<1>2. Stands(json, path) = node[Len(path)]
  BY Zenon DEF Stands
<1> HIDE DEF node
<1> QED
  BY <1>1, <1>2

(* A step of accumulate: where the document has a value, it has the same.  *)
Agree(s, node) == s = node \/ (node = Null /\ s = TypeError)

LEMMA StepAgrees ==
  ASSUME NEW s, NEW node, NEW key, Agree(s, node)
  PROVE  Agree(At(s, key), Child(node, key))
<1>1. CASE s = node
  <2>1. CASE node.kind = "object"
    <3>1. CASE key \in DOMAIN node.fields
      BY <1>1, <2>1, <3>1 DEF Agree, At, Child
    <3>2. CASE key \notin DOMAIN node.fields
      BY <1>1, <2>1, <3>2 DEF Agree, At, Child
    <3> QED
      BY <3>1, <3>2
  <2>2. CASE node.kind = "null"
    BY <1>1, <2>2 DEF Agree, At, Child
  <2>3. CASE node.kind \notin {"object", "null"}
    BY <1>1, <2>3 DEF Agree, At, Child
  <2> QED
    BY <2>1, <2>2, <2>3
<1>2. CASE node = Null /\ s = TypeError
  BY <1>2 DEF Agree, At, Child, Null, TypeError
<1> QED
  BY <1>1, <1>2 DEF Agree

(* A setting that can be had is made of what stands at its path, and       *)
(* something does.                                                         *)
THEOREM LookupCorrect ==
  ASSUME NEW json, NEW path, Len(path) \in Nat, NEW T,
         GetValue(json, path, T) # TypeError
  PROVE  /\ Stands(json, path) # Null
         /\ GetValue(json, path, T) = Get(Stands(json, path), T)
<1>1. PICK sub : /\ SubJson(json, path) = sub[Len(path)]
                 /\ sub[0] = json
                 /\ \A i \in 1 .. Len(path) : sub[i] = At(sub[i - 1], path[i])
  BY SubUnfolds
<1>2. PICK node : /\ Stands(json, path) = node[Len(path)]
                  /\ node[0] = json
                  /\ \A i \in 1 .. Len(path) :
                       node[i] = Child(node[i - 1], path[i])
  BY StandsUnfolds
<1>3. Agree(sub[Len(path)], node[Len(path)])
  <2> DEFINE F == {i \in 0 .. Len(path) : ~Agree(sub[i], node[i])}
  <2>1. SUFFICES ASSUME F # {} PROVE FALSE
    BY DEF F
  <2>2. F \in SUBSET Nat
    OBVIOUS
  <2>3. PICK i \in F : \A j \in F : i <= j
    BY <2>1, <2>2, Least
  <2>4. i # 0
    BY <1>1, <1>2, <2>3 DEF Agree
  <2>5. i \in 1 .. Len(path) /\ i - 1 \in 0 .. Len(path) /\ i - 1 \notin F
    BY <2>3, <2>4
  <2>6. Agree(sub[i - 1], node[i - 1])
    BY <2>5
  <2>7. Agree(At(sub[i - 1], path[i]), Child(node[i - 1], path[i]))
    BY <2>6, StepAgrees
  <2>8. sub[i] = At(sub[i - 1], path[i]) /\ node[i] = Child(node[i - 1], path[i])
    BY <1>1, <1>2, <2>5
  <2> QED
    BY <2>3, <2>7, <2>8
<1>4. Get(TypeError, T) = TypeError /\ Get(Null, T) = TypeError
  BY DEF Get, TypeError, Null
<1>5. GetValue(json, path, T) = Get(sub[Len(path)], T)
  BY <1>1 DEF GetValue
<1> QED
  BY <1>2, <1>3, <1>4, <1>5 DEF Agree

(* Nothing stands anywhere in a document that was never loaded.            *)
LEMMA NothingStands ==
  ASSUME NEW path, Len(path) \in Nat
  PROVE  Stands(Null, path) = Null
<1>1. PICK node : /\ Stands(Null, path) = node[Len(path)]
                  /\ node[0] = Null
                  /\ \A i \in 1 .. Len(path) :
                       node[i] = Child(node[i - 1], path[i])
  BY StandsUnfolds
<1> DEFINE F == {i \in 0 .. Len(path) : node[i] # Null}
<1>2. SUFFICES ASSUME F # {} PROVE FALSE
  BY <1>1 DEF F
<1>3. F \in SUBSET Nat
  OBVIOUS
<1>4. PICK i \in F : \A j \in F : i <= j
  BY <1>2, <1>3, Least
<1>5. i \in 1 .. Len(path) /\ node[i - 1] = Null
  BY <1>1, <1>4
<1> QED
  BY <1>1, <1>4, <1>5 DEF Child, Null

-----------------------------------------------------------------------------
SomStages == {"off", "load", "controller", "serial", "port", "autopilot",
              "transmitter", "init", "loop"}

(* Where the SoM can be; what it has is kept by program.                   *)
PlaceInv ==
  /\ DOMAIN at = Programs /\ at["som"] \in SomStages
  /\ DOMAIN settings = Programs
  /\ starts \in Nat

(* The SoM in its loop knows the names of all queues of its own start.     *)
OwnInv ==
  \A name \in DOMAIN queues :
    \/ queues[name].start \in abrupt
    \/ /\ queues[name].start = starts /\ at["som"] = "loop"
       /\ \E k \in Kinds : Name("som", k) = name

(* Kinds are the three places of the list of names.                        *)
LEMMA ThreeKinds == Kinds = 1 .. 3
  BY DEF Kinds, QueueNames

(* The SoM's stages follow each other as its constructor does.             *)
LEMMA NextStage ==
  ASSUME at["som"] \in SomStages \ {"off", "loop"}
  PROVE  /\ After("som") \in SomStages \ {"off"}
         /\ After("som") = "loop" <=> at["som"] = "init"
<1> DEFINE i == CHOOSE j \in DOMAIN Stages["som"] : Stages["som"][j] = at["som"]
<1>1. Stages["som"] = <<"load", "controller", "serial", "port", "autopilot",
                        "transmitter", "init", "loop">>
  BY DEF Stages
<1>2. DOMAIN Stages["som"] = 1 .. 8
  BY <1>1
<1>3. \E j \in 1 .. 8 : Stages["som"][j] = at["som"]
  <2>1. at["som"] \in {"load", "controller", "serial", "port", "autopilot",
                       "transmitter", "init"}
    BY DEF SomStages
  <2> QED
    BY <1>1, <2>1
<1>4. i \in 1 .. 8 /\ Stages["som"][i] = at["som"]
  BY <1>2, <1>3
<1>5. i # 8
  BY <1>1, <1>4 DEF SomStages
<1>6. i \in 1 .. 7
  BY <1>4, <1>5
<1>7. After("som") = Stages["som"][i + 1]
  BY DEF After
<1> HIDE DEF i
<1> QED
  BY <1>1, <1>4, <1>6, <1>7 DEF SomStages

(* What the first n queues opened add: new names only, made by this start. *)
LEMMA OpenedQueues ==
  ASSUME NEW n \in 0 .. 3
  PROVE  /\ DOMAIN Opened(n)
              = DOMAIN queues \cup {Name("som", k) : k \in 1 .. n}
         /\ \A name \in DOMAIN queues : Opened(n)[name] = queues[name]
         /\ \A name \in DOMAIN Opened(n) \ DOMAIN queues :
              Opened(n)[name].start = starts
  BY DEF Opened

(* The queue made for a kind is of that kind, unless the name was there    *)
(* or another kind has it too.                                             *)
LEMMA OpenedKind ==
  ASSUME NEW k \in 1 .. 3, Name("som", k) \notin DOMAIN queues,
         \A j \in (1 .. 3) \ {k} : Name("som", j) # Name("som", k)
  PROVE  Opened(3)[Name("som", k)]
           = [kind |-> k, start |-> starts,
              size |-> ConfiguredSize]
<1> DEFINE P(j) == /\ Name("som", j) = Name("som", k)
                   /\ \A l \in 1 .. j - 1 : Name("som", l) # Name("som", k)
<1>1. P(k)
  OBVIOUS
<1>2. \A j \in 1 .. 3 : P(j) => j = k
  OBVIOUS
<1>3. (CHOOSE j \in 1 .. 3 : P(j)) = k
  BY <1>1, <1>2
<1>4. Opened(3)[Name("som", k)]
        = [kind |-> CHOOSE j \in 1 .. 3 : P(j),
           size |-> ConfiguredSize, start |-> starts]
  BY DEF Opened
<1> QED
  BY <1>3, <1>4

-----------------------------------------------------------------------------
(* A step of another program, of the file, or of the SoM before its queues *)
(* are open, as far as the SoM is concerned.                               *)
Aside ==
  /\ UNCHANGED <<queues, starts, abrupt>>
  /\ \/ UNCHANGED <<at["som"], settings["som"]>>
     \/ at["som"] \notin {"off", "init", "loop"} /\ at'["som"] # "loop"

(* Every step is one of those, or changes the queues or the starts.        *)
LEMMA StepKinds ==
  ASSUME PlaceInv, [Next]_vars
  PROVE  /\ PlaceInv'
         /\ \/ Aside
            \/ Start("som") \/ InitTransmitter \/ Stop \/ Kill("som")
<1> USE DEF PlaceInv, Programs
<1>1. ASSUME NEW p \in Programs, GoOn(p), at[p] # "off", p = "som" => at[p] # "loop"
      PROVE  /\ DOMAIN at' = Programs /\ at'["som"] \in SomStages
             /\ p = "som" => (at'["som"] = "loop" <=> at["som"] = "init")
             /\ p # "som" => at'["som"] = at["som"]
  <2>1. CASE p = "som"
    BY <1>1, <2>1, NextStage DEF GoOn
  <2>2. CASE p # "som"
    BY <1>1, <2>2 DEF GoOn
  <2> QED
    BY <2>1, <2>2
<1>2. ASSUME NEW p \in Programs, Gone(p)
      PROVE  /\ DOMAIN at' = Programs /\ DOMAIN settings' = Programs
             /\ p = "som" => at'["som"] = "off"
             /\ p # "som" => UNCHANGED <<at["som"], settings["som"]>>
  BY <1>2 DEF Gone
<1>3. CASE Edit
  BY <1>3 DEF Edit, Aside
<1>4. CASE OpenPort
  <2>1. CASE GoOn("som") /\ UNCHANGED settings
    BY <1>1, <1>4, <2>1 DEF OpenPort, Aside, SomStages
  <2>2. CASE Gone("som")
    BY <1>2, <1>4, <2>2 DEF OpenPort, Aside, SomStages
  <2> QED
    BY <1>4, <2>1, <2>2 DEF OpenPort
<1>5. CASE InitTransmitter
  <2>1. CASE GoOn("som") /\ UNCHANGED settings
    BY <1>1, <1>5, <2>1 DEF InitTransmitter
  <2>2. CASE Gone("som")
    BY <1>2, <1>5, <2>2 DEF InitTransmitter, SomStages
  <2> QED
    BY <1>5, <2>1, <2>2 DEF InitTransmitter
<1>6. CASE Stop
  BY <1>2, <1>6 DEF Stop, SomStages
<1>7. ASSUME NEW p \in Programs, Start(p)
      PROVE  PlaceInv' /\ (Aside \/ Start("som"))
  <2>1. CASE p = "som"
    BY <1>7, <2>1 DEF Start, SomStages
  <2>2. CASE p # "som"
    BY <1>7, <2>2 DEF Start, Aside
  <2> QED
    BY <2>1, <2>2
<1>8. ASSUME NEW p \in Programs, Load(p)
      PROVE  PlaceInv' /\ Aside
  <2>1. CASE GoOn(p) /\ UNCHANGED settings
    BY <1>1, <1>8, <2>1 DEF Load, Aside, SomStages
  <2>2. CASE Gone(p)
    BY <1>2, <1>8, <2>2 DEF Load, Aside, SomStages
  <2> QED
    BY <1>8, <2>1, <2>2 DEF Load
<1>9. ASSUME NEW p \in Programs, Read(p)
      PROVE  PlaceInv' /\ Aside
  <2>1. UNCHANGED <<queues, starts, abrupt>> /\ at[p] \notin {"off", "init", "loop"}
    BY <1>9 DEF Read, Readers
  <2>2. \/ Gone(p)
        \/ /\ GoOn(p) /\ DOMAIN settings' = Programs
           /\ p # "som" => settings'["som"] = settings["som"]
    BY <1>9 DEF Read
  <2> QED
    BY <1>1, <1>2, <2>1, <2>2 DEF Aside, SomStages
<1>10. ASSUME NEW p \in Programs, InitReceiver(p)
       PROVE  PlaceInv' /\ Aside
  <2>1. p # "som" /\ UNCHANGED <<queues, starts, abrupt>> /\ at[p] = "init"
    BY <1>10 DEF InitReceiver
  <2>2. Gone(p) \/ (GoOn(p) /\ UNCHANGED settings)
    BY <1>10 DEF InitReceiver
  <2> QED
    BY <1>1, <1>2, <2>1, <2>2 DEF Aside
<1>11. ASSUME NEW p \in Programs, Kill(p)
       PROVE  PlaceInv' /\ (Aside \/ Kill("som"))
  <2>1. CASE p = "som"
    BY <1>2, <1>11, <2>1 DEF Kill, SomStages
  <2>2. CASE p # "som"
    BY <1>2, <1>11, <2>2 DEF Kill, Aside
  <2> QED
    BY <2>1, <2>2
<1>12. CASE UNCHANGED vars
  BY <1>12 DEF vars, Aside
<1> QED
  BY <1>3, <1>4, <1>5, <1>6, <1>7, <1>8, <1>9, <1>10, <1>11, <1>12 DEF Next

-----------------------------------------------------------------------------
LEMMA PlaceInvariant == Spec => []PlaceInv
<1>1. Init => PlaceInv
  BY DEF Init, PlaceInv, Programs, SomStages
<1> QED
  BY <1>1, StepKinds, PTL DEF Spec

(* Names are looked up in what the SoM has taken at its start.             *)
LEMMA SameNames ==
  ASSUME UNCHANGED settings["som"]
  PROVE  /\ \A k \in Kinds : Name("som", k)' = Name("som", k)
         /\ UNCHANGED ConfiguredSize
  BY DEF Name, ConfiguredSize

(* Every queue is of the start that runs, or of one that ended abruptly:   *)
(* before init there is none to leave, and after it the SoM removes what   *)
(* it opened or ends abruptly.                                             *)
LEMMA OwnInvariant == Spec => []OwnInv
<1>1. Init => OwnInv
  BY DEF Init, OwnInv
<1>2. PlaceInv /\ OwnInv /\ [Next]_vars => OwnInv'
  <2> SUFFICES ASSUME PlaceInv, OwnInv, [Next]_vars
               PROVE  OwnInv'
    OBVIOUS
  <2>1. CASE Aside
    <3>1. CASE UNCHANGED <<at["som"], settings["som"]>>
      BY <2>1, <3>1, SameNames DEF Aside, OwnInv
    <3>2. CASE at["som"] \notin {"off", "init", "loop"}
      BY <2>1, <3>2 DEF Aside, OwnInv
    <3> QED
      BY <2>1, <3>1, <3>2 DEF Aside
  <2>2. CASE Start("som")
    BY <2>2 DEF Start, OwnInv
  <2>3. CASE InitTransmitter
    <3>1. at["som"] = "init" /\ UNCHANGED starts
      BY <2>3 DEF InitTransmitter
    <3>2. \A name \in DOMAIN queues : queues[name].start \in abrupt
      BY <3>1 DEF OwnInv
    <3>3. CASE queues' = Opened(3) /\ GoOn("som") /\ UNCHANGED <<settings, abrupt>>
      <4>1. at'["som"] = "loop"
        BY <3>1, <3>3, NextStage DEF GoOn, PlaceInv, Programs, SomStages
      <4>2. \A k \in Kinds : Name("som", k)' = Name("som", k)
        BY <3>3, SameNames
      <4> QED
        BY <3>1, <3>2, <3>3, <4>1, <4>2, OpenedQueues, ThreeKinds DEF OwnInv
    <3>4. ASSUME NEW n \in 0 .. 2, queues' = Opened(n),
                 abrupt' = abrupt \cup {starts}
          PROVE  OwnInv'
      <4>1. n \in 0 .. 3
        OBVIOUS
      <4> QED
        BY <3>2, <3>4, <4>1, OpenedQueues DEF OwnInv
    <3> QED
      BY <2>3, <3>3, <3>4 DEF InitTransmitter
  <2>4. CASE Stop
    BY <2>4 DEF Stop, OwnInv
  <2>5. CASE Kill("som")
    BY <2>5 DEF Kill, OwnInv
  <2> QED
    BY <2>1, <2>2, <2>3, <2>4, <2>5, StepKinds
<1> QED
  BY <1>1, <1>2, PlaceInvariant, PTL DEF Spec

(* A start that fails before init, or ends through its destructors, leaves *)
(* no queue behind.                                                        *)
THEOREM LeftoversCorrect == Spec => []LeftoversExplained
<1>1. OwnInv => LeftoversExplained
  BY DEF OwnInv, LeftoversExplained
<1> QED
  BY <1>1, OwnInvariant, PTL

(* While the SoM runs it has for each kind a queue of that kind and of the *)
(* size configured, but for what an abrupt end left and for shared names.  *)
THEOREM QueuesCorrect == Spec => []QueuesAsConfigured
<1>1. Init => QueuesAsConfigured
  BY DEF Init, QueuesAsConfigured, Programs
<1>2. PlaceInv /\ OwnInv /\ QueuesAsConfigured /\ [Next]_vars
        => QueuesAsConfigured'
  <2> SUFFICES ASSUME PlaceInv, OwnInv, QueuesAsConfigured, [Next]_vars,
                      at'["som"] = "loop", NEW k \in Kinds
               PROVE  LET name == Name("som", k)'
                      IN  /\ name \in DOMAIN queues'
                          /\ \/ queues'[name] = [kind |-> k, start |-> starts',
                                   size |-> ConfiguredSize']
                             \/ queues'[name].start \in abrupt'
                             \/ \E j \in Kinds \ {k} : Name("som", j)' = name
    BY DEF QueuesAsConfigured
  <2>1. CASE Aside
    <3>1. UNCHANGED <<at["som"], settings["som"], queues, starts, abrupt>>
      BY <2>1 DEF Aside
    <3> QED
      BY <3>1, SameNames DEF QueuesAsConfigured
  <2>2. CASE InitTransmitter
    <3>1. /\ at["som"] = "init" /\ queues' = Opened(3)
          /\ UNCHANGED <<starts, settings, abrupt>>
      BY <2>2 DEF InitTransmitter, Gone, PlaceInv, Programs
    <3>2. /\ \A j \in Kinds : Name("som", j)' = Name("som", j)
          /\ UNCHANGED ConfiguredSize
      BY <3>1, SameNames
    <3>3. Name("som", k) \in DOMAIN Opened(3)
      BY OpenedQueues, ThreeKinds
    <3>4. CASE Name("som", k) \in DOMAIN queues
      <4>1. queues[Name("som", k)].start \in abrupt
        BY <3>1, <3>4 DEF OwnInv
      <4> QED
        BY <3>1, <3>2, <3>3, <3>4, <4>1, OpenedQueues
    <3>5. CASE /\ Name("som", k) \notin DOMAIN queues
               /\ \A j \in (1 .. 3) \ {k} : Name("som", j) # Name("som", k)
      <4>1. Opened(3)[Name("som", k)]
              = [kind |-> k, start |-> starts,
                 size |-> ConfiguredSize]
        BY <3>5, OpenedKind, ThreeKinds
      <4> QED
        BY <3>1, <3>2, <3>3, <4>1
    <3>6. CASE \E j \in Kinds \ {k} : Name("som", j) = Name("som", k)
      BY <3>1, <3>2, <3>3, <3>6
    <3> QED
      BY <3>4, <3>5, <3>6, ThreeKinds
  <2>3. CASE Start("som") \/ Stop \/ Kill("som")
    BY <2>3 DEF Start, Stop, Kill, Gone, PlaceInv, Programs
  <2> QED
    BY <2>1, <2>2, <2>3, StepKinds
<1> QED
  BY <1>1, <1>2, PlaceInvariant, OwnInvariant, PTL DEF Spec

-----------------------------------------------------------------------------
(* Everything some constructor takes.                                      *)
AllWanted == UNION {Wanted(stage) : stage \in Readers}

(* The document a program looks into.                                      *)
JsonOf(document) == IF document = "none" THEN Null ELSE Documents[document]

(* What a program in its place has: what all constructors before that one  *)
(* take, and nothing that its document does not give.                      *)
HasTaken(p, place, document, got) ==
  /\ place \in {"off"} \cup {Stages[p][i] : i \in DOMAIN Stages[p]}
  /\ document \in DOMAIN Documents \cup {"none"}
  /\ DOMAIN got \subseteq AllWanted
  /\ \A want \in DOMAIN got :
       /\ got[want] = GetValue(JsonOf(document), want[1], want[2])
       /\ got[want] # TypeError
  /\ place \in {"off", "load"} => DOMAIN got = {}
  /\ \A i, j \in DOMAIN Stages[p] :
       i < j /\ Stages[p][j] = place /\ Stages[p][i] \in Readers
         => Wanted(Stages[p][i]) \subseteq DOMAIN got

TakenInv ==
  /\ DOMAIN at = Programs /\ DOMAIN loaded = Programs
  /\ DOMAIN settings = Programs
  /\ \A p \in Programs : HasTaken(p, at[p], loaded[p], settings[p])

(* No stage comes twice, the first is to load, the last the loop, and none *)
(* is called "off".                                                        *)
LEMMA StageList ==
  ASSUME NEW p \in Programs
  PROVE  /\ Len(Stages[p]) \in {4, 8} /\ DOMAIN Stages[p] = 1 .. Len(Stages[p])
         /\ \A i, j \in DOMAIN Stages[p] : Stages[p][i] = Stages[p][j] => i = j
         /\ Stages[p][1] = "load" /\ Stages[p][Len(Stages[p])] = "loop"
         /\ \A i \in DOMAIN Stages[p] : Stages[p][i] # "off"
<1>1. CASE p = "som"
  <2>1. Stages[p] = <<"load", "controller", "serial", "port", "autopilot",
                      "transmitter", "init", "loop">>
    BY <1>1 DEF Stages
  <2> QED
    BY <2>1
<1>2. CASE p # "som"
  <2>1. Stages[p] = <<"load", "receiver", "init", "loop">>
    BY <1>2 DEF Stages, Programs
  <2> QED
    BY <2>1
<1> QED
  BY <1>1, <1>2

LEMMA NextPlace ==
  ASSUME NEW p \in Programs, at[p] \notin {"off", "loop"},
         at[p] \in {"off"} \cup {Stages[p][i] : i \in DOMAIN Stages[p]}
  PROVE  \E k \in DOMAIN Stages[p] :
           /\ k + 1 \in DOMAIN Stages[p]
           /\ at[p] = Stages[p][k] /\ After(p) = Stages[p][k + 1]
<1> DEFINE k == CHOOSE j \in DOMAIN Stages[p] : Stages[p][j] = at[p]
<1>1. k \in DOMAIN Stages[p] /\ Stages[p][k] = at[p]
  OBVIOUS
<1>2. k # Len(Stages[p])
  BY <1>1, StageList
<1>3. After(p) = Stages[p][k + 1]
  BY DEF After
<1> HIDE DEF k
<1>4. k + 1 \in DOMAIN Stages[p]
  BY <1>1, <1>2, StageList
<1> QED
  BY <1>1, <1>3, <1>4

(* A program goes on to its next stage, with what this one has taken.      *)
LEMMA Advance ==
  ASSUME NEW p \in Programs, NEW k \in DOMAIN Stages[p],
         k + 1 \in DOMAIN Stages[p],
         NEW before, NEW document, NEW old, NEW got,
         HasTaken(p, Stages[p][k], before, old),
         document \in DOMAIN Documents \cup {"none"},
         DOMAIN old \subseteq DOMAIN got, DOMAIN got \subseteq AllWanted,
         \A want \in DOMAIN got :
           /\ got[want] = GetValue(JsonOf(document), want[1], want[2])
           /\ got[want] # TypeError,
         Stages[p][k] \in Readers => Wanted(Stages[p][k]) \subseteq DOMAIN got
  PROVE  HasTaken(p, Stages[p][k + 1], document, got)
<1>1. k \in Nat /\ k >= 1 /\ DOMAIN Stages[p] \subseteq Nat
  BY StageList
<1>2. Stages[p][k + 1] \notin {"off", "load"}
  <2>1. k + 1 # 1 /\ 1 \in DOMAIN Stages[p]
    BY <1>1, StageList
  <2> QED
    BY <2>1, StageList
<1>3. ASSUME NEW i \in DOMAIN Stages[p], NEW j \in DOMAIN Stages[p],
             i < j, Stages[p][j] = Stages[p][k + 1], Stages[p][i] \in Readers
      PROVE  Wanted(Stages[p][i]) \subseteq DOMAIN got
  <2>1. j = k + 1
    BY <1>3, StageList
  <2>2. CASE i = k
    BY <1>3, <2>2
  <2>3. CASE i < k
    <3>1. Wanted(Stages[p][i]) \subseteq DOMAIN old
      BY <1>3, <2>3 DEF HasTaken
    <3> QED
      BY <3>1
  <2> QED
    BY <1>1, <1>3, <2>1, <2>2, <2>3
<1> QED
  BY <1>2, <1>3 DEF HasTaken

LEMMA NothingTaken ==
  ASSUME NEW p \in Programs
  PROVE  HasTaken(p, "off", "none", <<>>)
  BY StageList DEF HasTaken

(* A program that starts has nothing yet, whatever it has loaded.          *)
LEMMA StartTaken ==
  ASSUME NEW p \in Programs, NEW document, NEW got,
         HasTaken(p, "off", document, got)
  PROVE  HasTaken(p, "load", document, got)
<1>1. 1 \in DOMAIN Stages[p] /\ "load" \in {Stages[p][i] : i \in DOMAIN Stages[p]}
  BY StageList
<1>2. \A i, j \in DOMAIN Stages[p] : ~(i < j /\ Stages[p][j] = "load")
  <2> SUFFICES ASSUME NEW i \in DOMAIN Stages[p], NEW j \in DOMAIN Stages[p],
                      i < j, Stages[p][j] = "load"
               PROVE  FALSE
    OBVIOUS
  <2>1. j = 1 /\ i \in Nat /\ i >= 1
    BY <1>1, StageList
  <2> QED
    BY <2>1
<1> QED
  BY <1>1, <1>2 DEF HasTaken

(* A step changes where one program is and what it has; the others keep    *)
(* what they have.                                                         *)
Settled(p) == HasTaken(p, at'[p], loaded'[p], settings'[p])

OthersStay(p) ==
  /\ DOMAIN at' = Programs /\ DOMAIN loaded' = Programs
  /\ DOMAIN settings' = Programs
  /\ \A q \in Programs \ {p} : UNCHANGED <<at[q], loaded[q], settings[q]>>

LEMMA OneSettled ==
  ASSUME TakenInv, NEW p \in Programs, OthersStay(p), Settled(p)
  PROVE  TakenInv'
  BY DEF TakenInv, OthersStay, Settled

LEMMA GoneSettled ==
  ASSUME TakenInv, NEW p \in Programs, Gone(p)
  PROVE  TakenInv'
<1>1. OthersStay(p)
  BY DEF TakenInv, Gone, OthersStay
<1>2. Settled(p)
  BY NothingTaken DEF TakenInv, Gone, Settled
<1> QED
  BY <1>1, <1>2, OneSettled

LEMMA GoneOnSettled ==
  ASSUME TakenInv, NEW p \in Programs, at[p] \notin {"off", "loop"},
         at[p] \notin Readers, GoOn(p), UNCHANGED <<loaded, settings>>
  PROVE  TakenInv'
<1>1. OthersStay(p)
  BY DEF TakenInv, GoOn, OthersStay
<1>2. HasTaken(p, at[p], loaded[p], settings[p])
  BY DEF TakenInv
<1>3. PICK k \in DOMAIN Stages[p] :
        /\ k + 1 \in DOMAIN Stages[p]
        /\ at[p] = Stages[p][k] /\ After(p) = Stages[p][k + 1]
  BY <1>2, NextPlace DEF HasTaken
<1>4. HasTaken(p, Stages[p][k], loaded[p], settings[p])
  BY <1>2, <1>3
<1>5. HasTaken(p, Stages[p][k + 1], loaded[p], settings[p])
  <2>1. /\ loaded[p] \in DOMAIN Documents \cup {"none"}
        /\ DOMAIN settings[p] \subseteq AllWanted
        /\ \A want \in DOMAIN settings[p] :
             /\ settings[p][want] = GetValue(JsonOf(loaded[p]), want[1], want[2])
             /\ settings[p][want] # TypeError
    BY <1>2 DEF HasTaken
  <2> QED
    BY <1>3, <1>4, <2>1, Advance
<1>6. Settled(p)
  BY <1>3, <1>5 DEF TakenInv, GoOn, Settled
<1> QED
  BY <1>1, <1>6, OneSettled

(* Loading: what the file holds is what every setting will come from.      *)
LEMMA LoadSettled ==
  ASSUME TakenInv, NEW p \in Programs, at[p] = "load", GoOn(p),
         file \in DOMAIN Documents, loaded' = [loaded EXCEPT ![p] = file],
         UNCHANGED settings
  PROVE  TakenInv'
<1>1. OthersStay(p)
  BY DEF TakenInv, GoOn, OthersStay
<1>2. HasTaken(p, at[p], loaded[p], settings[p])
  BY DEF TakenInv
<1>3. PICK k \in DOMAIN Stages[p] :
        /\ k + 1 \in DOMAIN Stages[p]
        /\ at[p] = Stages[p][k] /\ After(p) = Stages[p][k + 1]
  BY <1>2, NextPlace DEF HasTaken
<1>4. HasTaken(p, Stages[p][k], loaded[p], settings[p])
  BY <1>2, <1>3
<1>5. HasTaken(p, Stages[p][k + 1], file, settings[p])
  <2>1. DOMAIN settings[p] = {} /\ Stages[p][k] \notin Readers
    BY <1>2, <1>3 DEF HasTaken, Readers
  <2> QED
    BY <1>3, <1>4, <2>1, Advance
<1>6. Settled(p)
  BY <1>3, <1>5 DEF TakenInv, GoOn, Settled
<1> QED
  BY <1>1, <1>6, OneSettled

(* A constructor that gets all it asks for.                                *)
LEMMA ReadSettled ==
  ASSUME TakenInv, NEW p \in Programs, at[p] \in Readers, GoOn(p),
         NEW taken, taken = [want \in Wanted(at[p])
                               |-> GetValue(Json(p), want[1], want[2])],
         \A want \in DOMAIN taken : taken[want] # TypeError,
         settings' = [settings EXCEPT ![p] = With(p, taken)],
         UNCHANGED loaded
  PROVE  TakenInv'
<1>1. OthersStay(p)
  BY DEF TakenInv, GoOn, OthersStay
<1>2. HasTaken(p, at[p], loaded[p], settings[p])
  BY DEF TakenInv
<1>3. PICK k \in DOMAIN Stages[p] :
        /\ k + 1 \in DOMAIN Stages[p]
        /\ at[p] = Stages[p][k] /\ After(p) = Stages[p][k + 1]
  BY <1>2, NextPlace DEF HasTaken, Readers
<1>4. HasTaken(p, Stages[p][k], loaded[p], settings[p])
  BY <1>2, <1>3
<1> DEFINE got == With(p, taken)
<1>5. DOMAIN got = DOMAIN settings[p] \cup Wanted(at[p])
  BY DEF With
<1>6. DOMAIN got \subseteq AllWanted
  BY <1>2, <1>5 DEF HasTaken, AllWanted
<1>7. \A want \in DOMAIN got :
        /\ got[want] = GetValue(JsonOf(loaded[p]), want[1], want[2])
        /\ got[want] # TypeError
  <2>1. ASSUME NEW want \in Wanted(at[p])
        PROVE  /\ got[want] = GetValue(JsonOf(loaded[p]), want[1], want[2])
               /\ got[want] # TypeError
    BY <2>1 DEF With, Json, JsonOf
  <2>2. ASSUME NEW want \in DOMAIN settings[p], want \notin Wanted(at[p])
        PROVE  /\ got[want] = GetValue(JsonOf(loaded[p]), want[1], want[2])
               /\ got[want] # TypeError
    BY <1>2, <2>2 DEF With, HasTaken
  <2> QED
    BY <1>5, <2>1, <2>2
<1> HIDE DEF got
<1>8. HasTaken(p, Stages[p][k + 1], loaded[p], got)
  <2>1. loaded[p] \in DOMAIN Documents \cup {"none"}
    BY <1>2 DEF HasTaken
  <2> QED
    BY <1>3, <1>4, <1>5, <1>6, <1>7, <2>1, Advance
<1>9. Settled(p)
  BY <1>3, <1>8 DEF TakenInv, GoOn, Settled, got
<1> QED
  BY <1>1, <1>9, OneSettled

LEMMA TakenInvariant == Spec => []TakenInv
<1>1. Init => TakenInv
  <2> SUFFICES ASSUME Init PROVE TakenInv
    OBVIOUS
  <2>1. \A p \in Programs : HasTaken(p, at[p], loaded[p], settings[p])
    BY NothingTaken DEF Init
  <2> QED
    BY <2>1 DEF Init, TakenInv
<1>2. TakenInv /\ [Next]_vars => TakenInv'
  <2> SUFFICES ASSUME TakenInv, [Next]_vars PROVE TakenInv'
    OBVIOUS
  <2>1. CASE UNCHANGED <<at, loaded, settings>>
    BY <2>1 DEF TakenInv
  <2>2. CASE Edit
    BY <2>1, <2>2 DEF Edit
  <2>3. CASE OpenPort
    <3>1. "som" \in Programs
      BY DEF Programs
    <3> QED
      BY <2>3, <3>1, GoneSettled, GoneOnSettled DEF OpenPort, Readers
  <2>4. CASE InitTransmitter
    <3>1. "som" \in Programs
      BY DEF Programs
    <3> QED
      BY <2>4, <3>1, GoneSettled, GoneOnSettled DEF InitTransmitter, Readers
  <2>5. CASE Stop
    <3>1. "som" \in Programs
      BY DEF Programs
    <3> QED
      BY <2>5, <3>1, GoneSettled DEF Stop
  <2>6. ASSUME NEW p \in Programs, Start(p)
        PROVE  TakenInv'
    <3>1. OthersStay(p)
      BY <2>6 DEF Start, TakenInv, OthersStay
    <3>2. Settled(p)
      BY <2>6, StartTaken DEF Start, TakenInv, Settled
    <3> QED
      BY <3>1, <3>2, OneSettled
  <2>7. ASSUME NEW p \in Programs, Load(p)
        PROVE  TakenInv'
    <3>1. at[p] = "load" /\ at[p] \notin {"off", "loop"} /\ at[p] \notin Readers
      BY <2>7 DEF Load, Readers
    <3> QED
      BY <2>7, <3>1, GoneSettled, GoneOnSettled, LoadSettled DEF Load
  <2>8. ASSUME NEW p \in Programs, Read(p)
        PROVE  TakenInv'
    <3> DEFINE taken == [want \in Wanted(at[p])
                           |-> GetValue(Json(p), want[1], want[2])]
    <3>1. CASE /\ \A want \in DOMAIN taken : taken[want] # TypeError
               /\ settings' = [settings EXCEPT ![p] = With(p, taken)]
               /\ GoOn(p) /\ UNCHANGED loaded
      <4>1. at[p] \in Readers
        BY <2>8 DEF Read
      <4> HIDE DEF taken
      <4>2. taken = [want \in Wanted(at[p])
                       |-> GetValue(Json(p), want[1], want[2])]
        BY DEF taken
      <4> QED
        BY <3>1, <4>1, <4>2, ReadSettled
    <3>2. CASE Gone(p)
      BY <3>2, GoneSettled
    <3> QED
      BY <2>8, <3>1, <3>2 DEF Read
  <2>9. ASSUME NEW p \in Programs, InitReceiver(p)
        PROVE  TakenInv'
    BY <2>9, GoneSettled, GoneOnSettled DEF InitReceiver, Readers
  <2>10. ASSUME NEW p \in Programs, Kill(p)
         PROVE  TakenInv'
    BY <2>10, GoneSettled DEF Kill
  <2> QED
    BY <2>1, <2>2, <2>3, <2>4, <2>5, <2>6, <2>7, <2>8, <2>9, <2>10
       DEF Next, vars
<1> QED
  BY <1>1, <1>2, PTL DEF Spec

-----------------------------------------------------------------------------
LEMMA PathLengths ==
  /\ \A part, key : Len(Io(part, key)) = 4
  /\ \A key : Len(Autopilot(key)) = 3 /\ Len(Stabilize(key)) = 4
              /\ Len(SomKey(key)) = 4
  BY DEF Io, Autopilot, Stabilize, SomKey

(* Every path is a sequence of keys.                                       *)
LEMMA WantedPaths ==
  ASSUME NEW want \in AllWanted
  PROVE  Len(want[1]) \in Nat
<1>1. PICK stage \in Readers : want \in Wanted(stage)
  BY DEF AllWanted
<1>2. ASSUME want \in Controller PROVE Len(want[1]) \in Nat
  BY <1>2, PathLengths DEF Controller
<1>3. ASSUME want \in Serial PROVE Len(want[1]) \in Nat
  <2>1. Len(<<"rcplane", "common", "handshake_termination_string">>) = 3
    OBVIOUS
  <2> QED
    BY <1>3, <2>1, PathLengths DEF Serial
<1>4. ASSUME want \in Utility \cup StabilizeGains PROVE Len(want[1]) \in Nat
  BY <1>4, PathLengths DEF Utility, StabilizeGains, MaxThrottle, MaxAileron,
                           MaxDeflections
<1>5. ASSUME want \in Transmitter PROVE Len(want[1]) \in Nat
  <2>1. \A k \in Kinds : Len(QueueNames[k]) = 4
    BY PathLengths DEF Kinds, QueueNames
  <2>2. Len(QueueSize) = 4
    BY PathLengths DEF QueueSize
  <2> QED
    BY <1>5, <2>1, <2>2 DEF Transmitter, Receiver
<1> QED
  BY <1>1, <1>2, <1>3, <1>4, <1>5 DEF Wanted, Readers, Transmitter

(* The names of the queues have been taken before they are used.           *)
LEMMA NamesTaken ==
  ASSUME TakenInv, NEW p \in Programs, at[p] \in {"init", "loop"}
  PROVE  Receiver \subseteq DOMAIN settings[p]
<1>1. HasTaken(p, at[p], loaded[p], settings[p])
  BY DEF TakenInv
<1>2. \A i, j \in DOMAIN Stages[p] :
       i < j /\ Stages[p][j] = at[p] /\ Stages[p][i] \in Readers
         => Wanted(Stages[p][i]) \subseteq DOMAIN settings[p]
  BY <1>1 DEF HasTaken
<1>3. CASE p = "som"
  <2>1. Stages[p] = <<"load", "controller", "serial", "port", "autopilot",
                      "transmitter", "init", "loop">>
    BY <1>3 DEF Stages
  <2>2. \E j \in {7, 8} : 6 < j /\ j \in DOMAIN Stages[p] /\ Stages[p][j] = at[p]
    BY <2>1
  <2>3. 6 \in DOMAIN Stages[p] /\ Stages[p][6] = "transmitter"
    BY <2>1
  <2>4. Wanted("transmitter") \subseteq DOMAIN settings[p]
    BY <1>2, <2>2, <2>3 DEF Readers
  <2> QED
    BY <2>4 DEF Wanted, Transmitter
<1>4. CASE p # "som"
  <2>1. Stages[p] = <<"load", "receiver", "init", "loop">>
    BY <1>4 DEF Stages, Programs
  <2>2. \E j \in {3, 4} : 2 < j /\ j \in DOMAIN Stages[p] /\ Stages[p][j] = at[p]
    BY <2>1
  <2>3. 2 \in DOMAIN Stages[p] /\ Stages[p][2] = "receiver"
    BY <2>1
  <2>4. Wanted("receiver") \subseteq DOMAIN settings[p]
    BY <1>2, <2>2, <2>3 DEF Readers
  <2> QED
    BY <2>4 DEF Wanted
<1> QED
  BY <1>3, <1>4

(* What a program has taken stands in its document, which it has loaded.   *)
LEMMA TakenStands ==
  ASSUME TakenInv, NEW p \in Programs, NEW want \in DOMAIN settings[p]
  PROVE  /\ loaded[p] \in DOMAIN Documents
         /\ Stands(Documents[loaded[p]], want[1]) # Null
         /\ settings[p][want] = Get(Stands(Documents[loaded[p]], want[1]), want[2])
         /\ settings[p][want] # TypeError
<1>1. HasTaken(p, at[p], loaded[p], settings[p])
  BY DEF TakenInv
<1>2. Len(want[1]) \in Nat
  BY <1>1, WantedPaths DEF HasTaken
<1>3. /\ settings[p][want] = GetValue(JsonOf(loaded[p]), want[1], want[2])
      /\ settings[p][want] # TypeError
  BY <1>1 DEF HasTaken
<1>4. /\ Stands(JsonOf(loaded[p]), want[1]) # Null
      /\ settings[p][want] = Get(Stands(JsonOf(loaded[p]), want[1]), want[2])
  BY <1>2, <1>3, LookupCorrect
<1>5. loaded[p] # "none"
  BY <1>2, <1>4, NothingStands DEF JsonOf
<1>6. JsonOf(loaded[p]) = Documents[loaded[p]] /\ loaded[p] \in DOMAIN Documents
  BY <1>1, <1>5 DEF JsonOf, HasTaken
<1> QED
  BY <1>3, <1>4, <1>6

(* Whatever the documents hold: no program is in its loop without a        *)
(* document, and its settings stand in it.                                 *)
THEOREM ConfiguredCorrect == Spec => []RunsConfigured
<1>1. TakenInv => RunsConfigured
  <2> SUFFICES ASSUME TakenInv, NEW p \in Programs, at[p] = "loop"
               PROVE  /\ loaded[p] \in DOMAIN Documents
                      /\ \A k \in Kinds :
                           settings[p][<<QueueNames[k], "string">>]
                             = Stands(Documents[loaded[p]], QueueNames[k])
                      /\ \A want \in DOMAIN settings[p] :
                           Stands(Documents[loaded[p]], want[1]) # Null
    BY DEF RunsConfigured
  <2>1. \A k \in Kinds : <<QueueNames[k], "string">> \in DOMAIN settings[p]
    BY NamesTaken DEF Receiver
  <2>2. 1 \in Kinds
    BY DEF Kinds, QueueNames
  <2>3. loaded[p] \in DOMAIN Documents
    BY <2>1, <2>2, TakenStands
  <2>4. ASSUME NEW k \in Kinds
        PROVE  settings[p][<<QueueNames[k], "string">>]
                 = Stands(Documents[loaded[p]], QueueNames[k])
    <3> DEFINE want == <<QueueNames[k], "string">>
               json == Stands(Documents[loaded[p]], QueueNames[k])
    <3>1. want \in DOMAIN settings[p]
          /\ want[1] = QueueNames[k] /\ want[2] = "string"
      BY <2>1
    <3>2. settings[p][want] = Get(json, "string") /\ settings[p][want] # TypeError
      BY <3>1, TakenStands
    <3> HIDE DEF want, json
    <3>3. settings[p][want] = json
      BY <3>2 DEF Get
    <3> QED
      BY <3>3 DEF want, json
  <2> QED
    BY <2>3, <2>4, TakenStands
<1> QED
  BY <1>1, TakenInvariant, PTL

(* A limit of a size that fits is taken as it is, by every type it is      *)
(* asked for in.                                                           *)
LEMMA SafeTaken ==
  ASSUME NEW want \in Utility \cup StabilizeGains,
         want[1] \in MaxDeflections \cup {MaxThrottle},
         NEW json, Safe(want[1], json)
  PROVE  Get(json, want[2]) = json
<1>1. PICK n \in IF want[1] = MaxThrottle THEN 0 .. 255 ELSE 0 .. 127 :
        json = Number(n, FALSE)
  BY DEF Safe
<1>2. want[1] = MaxThrottle => want[2] = "uint8"
  <2>1. MaxThrottle \notin MaxDeflections
    BY DEF MaxThrottle, MaxDeflections, MaxAileron, Autopilot
  <2>2. \A k \in {"kp", "ki", "kd", "tau", "max_integral_error"} :
          MaxThrottle # Stabilize(k)
    BY DEF MaxThrottle, Autopilot, Stabilize
  <2>3. MaxThrottle # MaxAileron
    BY <2>1 DEF MaxDeflections
  <2> QED
    BY <2>1, <2>2, <2>3 DEF Utility, StabilizeGains
<1>3. want[2] \in {"uint8", "int8", "double"}
  BY DEF Utility, StabilizeGains
<1>4. json.kind = "number" /\ json.whole = n
  BY <1>1 DEF Number
<1>5. CASE want[2] = "double"
  BY <1>4, <1>5 DEF Get
<1>6. CASE want[2] # "double"
  <2>1. Narrowed(n, want[2]) = n
    BY <1>1, <1>2, <1>3, <1>6 DEF Narrowed
  <2> QED
    BY <1>1, <1>3, <1>4, <1>6, <2>1 DEF Get
<1> QED
  BY <1>5, <1>6

(* The autopilot's settings have been taken by the SoM in its loop.        *)
LEMMA LimitsTaken ==
  ASSUME TakenInv, at["som"] = "loop"
  PROVE  Utility \cup StabilizeGains \subseteq DOMAIN settings["som"]
<1>1. Stages["som"] = <<"load", "controller", "serial", "port", "autopilot",
                        "transmitter", "init", "loop">>
  BY DEF Stages
<1>2. \A i, j \in DOMAIN Stages["som"] :
        i < j /\ Stages["som"][j] = at["som"] /\ Stages["som"][i] \in Readers
          => Wanted(Stages["som"][i]) \subseteq DOMAIN settings["som"]
  BY DEF TakenInv, HasTaken, Programs
<1>3. /\ 5 \in DOMAIN Stages["som"] /\ 8 \in DOMAIN Stages["som"]
      /\ Stages["som"][5] = "autopilot" /\ Stages["som"][8] = "loop"
  BY <1>1
<1>4. Wanted("autopilot") \subseteq DOMAIN settings["som"]
  BY <1>2, <1>3 DEF Readers
<1> QED
  BY <1>4 DEF Wanted

(* For every document with limits that fit, the limits in use are those of *)
(* the document, and both readers of the ailerons' limit have the same.    *)
THEOREM LimitsCorrect == Spec => []LimitsUsable
<1>1. TakenInv => LimitsUsable
  <2> SUFFICES ASSUME TakenInv, at["som"] = "loop",
                      NEW path \in MaxDeflections \cup {MaxThrottle},
                      Safe(path, Stands(Documents[loaded["som"]], path)),
                      NEW want \in Utility \cup StabilizeGains, want[1] = path
               PROVE  settings["som"][want]
                        = Stands(Documents[loaded["som"]], path)
    BY DEF LimitsUsable
  <2>1. want \in DOMAIN settings["som"] /\ "som" \in Programs
    BY LimitsTaken DEF Programs
  <2>2. settings["som"][want]
          = Get(Stands(Documents[loaded["som"]], want[1]), want[2])
    BY <2>1, TakenStands
  <2> QED
    BY <2>2, SafeTaken
<1> QED
  BY <1>1, TakenInvariant, PTL

-----------------------------------------------------------------------------
(* A queue is made for one of the kinds: the first that asks for its name. *)
LEMMA OpenedKinds ==
  ASSUME NEW n \in 0 .. 3, NEW name \in DOMAIN Opened(n) \ DOMAIN queues
  PROVE  Opened(n)[name].kind \in Kinds
<1> DEFINE T == {k \in 1 .. n : Name("som", k) = name}
           P(k) == /\ Name("som", k) = name
                   /\ \A j \in 1 .. k - 1 : Name("som", j) # name
<1>1. T # {} /\ T \in SUBSET Nat
  BY DEF Opened
<1>2. PICK k \in T : \A j \in T : k <= j
  BY <1>1, Least
<1>3. k \in 1 .. n /\ P(k)
  BY <1>2
<1>4. (CHOOSE j \in 1 .. n : P(j)) \in 1 .. n
  BY <1>3
<1>5. Opened(n)[name] = [kind |-> CHOOSE j \in 1 .. n : P(j),
                         size |-> ConfiguredSize, start |-> starts]
  BY DEF Opened
<1>6. Opened(n)[name].kind = CHOOSE j \in 1 .. n : P(j)
  BY <1>5
<1> QED
  BY <1>4, <1>6, ThreeKinds

(* What is counted and dated: starts, edits, and the start each queue is   *)
(* of.                                                                     *)
CountInv ==
  /\ starts \in 0 .. MaxStarts
  /\ at["som"] # "off" => starts >= 1
  /\ \A name \in DOMAIN queues :
       queues[name].kind \in Kinds /\ queues[name].start \in 1 .. starts
  /\ abrupt \subseteq 1 .. starts

LEMMA CountInvariant == Spec => []CountInv
<1>1. Init => CountInv
  BY StartupAssumption DEF Init, CountInv, Programs
<1>2. PlaceInv /\ CountInv /\ [Next]_vars => CountInv'
  <2> SUFFICES ASSUME PlaceInv, CountInv, [Next]_vars
               PROVE  CountInv'
    OBVIOUS
  <2>1. CASE Aside
    BY <2>1 DEF Aside, CountInv
  <2>2. CASE Start("som")
    <3>1. starts' = starts + 1 /\ starts < MaxStarts /\ UNCHANGED <<queues, abrupt>>
      BY <2>2 DEF Start
    <3>2. starts' \in 0 .. MaxStarts /\ starts' >= 1 /\ 1 .. starts \subseteq 1 .. starts'
      BY <3>1, StartupAssumption DEF CountInv
    <3> QED
      BY <3>1, <3>2 DEF CountInv
  <2>3. CASE InitTransmitter
    <3>1. at["som"] = "init" /\ UNCHANGED starts
      BY <2>3 DEF InitTransmitter
    <3>2. starts \in 1 .. starts
      BY <3>1 DEF CountInv
    <3>3. PICK n \in 0 .. 3 : queues' = Opened(n)
                              /\ (abrupt' = abrupt \/ abrupt' = abrupt \cup {starts})
      BY <2>3 DEF InitTransmitter
    <3>4. \A name \in DOMAIN queues' :
            queues'[name].kind \in Kinds /\ queues'[name].start \in 1 .. starts
      BY <3>2, <3>3, OpenedQueues, OpenedKinds DEF CountInv
    <3> QED
      BY <3>1, <3>2, <3>3, <3>4 DEF CountInv
  <2>4. CASE Stop
    BY <2>4 DEF Stop, Gone, PlaceInv, Programs, CountInv
  <2>5. CASE Kill("som")
    <3>1. UNCHANGED <<queues, starts>> /\ starts \in 1 .. starts
      BY <2>5 DEF Kill, CountInv
    <3> QED
      BY <2>5, <3>1 DEF Kill, CountInv
  <2> QED
    BY <2>1, <2>2, <2>3, <2>4, <2>5, StepKinds
<1> QED
  BY <1>1, <1>2, PlaceInvariant, PTL DEF Spec

(* The file changes by edits only.                                         *)
FileInv ==
  file \in DOMAIN Documents \cup {"missing", "broken"} /\ edits \in 0 .. MaxEdits

LEMMA FileInvariant == Spec => []FileInv
<1>1. Init => FileInv
  BY StartupAssumption DEF Init, FileInv
<1>2. FileInv /\ [Next]_vars => FileInv'
  <2> SUFFICES ASSUME FileInv, [Next]_vars PROVE FileInv'
    OBVIOUS
  <2>1. CASE Edit
    BY <2>1, StartupAssumption DEF Edit, FileInv
  <2>2. CASE UNCHANGED <<file, edits>>
    BY <2>2 DEF FileInv
  <2> QED
    BY <2>1, <2>2 DEF Next, vars, OpenPort, InitTransmitter, Stop, Start, Load,
                      Read, InitReceiver, Kill
<1> QED
  BY <1>1, <1>2, PTL DEF Spec

(* Types; that what a constructor has taken is no error; and that every    *)
(* queue is dated by a start that there was.                               *)
THEOREM TypeCorrect == Spec => []TypeOK
<1>1. TakenInv /\ CountInv /\ FileInv => TypeOK
  <2> SUFFICES ASSUME TakenInv, CountInv, FileInv PROVE TypeOK
    OBVIOUS
  <2>1. ASSUME NEW p \in Programs
        PROVE  /\ at[p] \in {"off"} \cup {Stages[p][i] : i \in DOMAIN Stages[p]}
               /\ loaded[p] \in DOMAIN Documents \cup {"none"}
               /\ \A want \in DOMAIN settings[p] : settings[p][want] # TypeError
    BY DEF TakenInv, HasTaken
  <2> QED
    BY <2>1 DEF TypeOK, CountInv, FileInv
<1> QED
  BY <1>1, TakenInvariant, CountInvariant, FileInvariant, PTL
=============================================================================
