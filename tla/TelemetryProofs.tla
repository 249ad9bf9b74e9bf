-------------------------- MODULE TelemetryProofs --------------------------
(***************************************************************************)
(* Proofs, for any number of receivers, queues of every size and any       *)
(* number of runs and turns, that the message queues keep their order.     *)
(***************************************************************************)
EXTENDS Telemetry, SequenceTheorems, TLAPS

(* What a run of the SoM's process goes through: it has opened the queues  *)
(* before the one it is at, and a turn that has begun has a number.        *)
SomInv ==
  /\ som \in {"down", "init", "send", "remove"} /\ at \in Kinds
  /\ runs \in 0 .. MaxRuns /\ turn \in 0 .. MaxTurns /\ first \in 0 .. turn
  /\ som # "down" => runs > 0
  /\ som = "send" /\ at > 1 => turn > 0

OpenedInv ==
  /\ named \in [Kinds -> 0 .. runs] /\ opened \in [Kinds -> 0 .. runs]
  /\ som = "init" => \A k \in 1 .. at - 1 : opened[k] # None
  /\ som \in {"send", "remove"} => \A k \in Kinds : opened[k] # None

QueueType == queue \in [Kinds -> [Runs -> Seq(1 .. MaxTurns)]]

RxType ==
  /\ rx \in [Receivers -> {"off", "open", "receive"}]
  /\ rxAt \in [Receivers -> Kinds]
  /\ handle \in [Receivers -> [Kinds -> 0 .. runs]]
  /\ got \in [Receivers -> Seq(1 .. MaxTurns)]

FlawsType == flaws \subseteq {"full", "killed", "cut", "shared", "mixed"}

IndType == SomInv /\ OpenedInv /\ QueueType /\ RxType /\ FlawsType

LEMMA InitType == Init => IndType
BY LimitsAssumption
  DEF Init, IndType, SomInv, OpenedInv, QueueType, RxType, FlawsType,
      Kinds, None, Runs

LEMMA SomStep == ASSUME IndType, Som PROVE SomInv'
BY LimitsAssumption
  DEF IndType, SomInv, Som, StartSom, OpenOrCreate, SendMessage, StopSom,
      Remove, KillSom, Advance, Kinds, Running

LEMMA OpenedStep == ASSUME IndType, Som PROVE OpenedInv'
<1> USE DEF Kinds, None
<1>0. SomInv /\ OpenedInv /\ at \in 1 .. 3 /\ runs \in Nat
  BY LimitsAssumption DEF IndType, SomInv
<1>1. CASE StartSom
  <2>1. 0 .. runs \subseteq 0 .. runs' /\ runs' \in Nat
    BY <1>0, <1>1 DEF StartSom
  <2>2. named' \in [Kinds -> 0 .. runs'] /\ opened' \in [Kinds -> 0 .. runs']
    BY <1>0, <1>1, <2>1 DEF StartSom, OpenedInv
  <2> QED
    BY <1>1, <2>2 DEF StartSom, OpenedInv
<1>2. CASE OpenOrCreate
  <2>1. runs > 0
    BY <1>0, <1>2 DEF OpenOrCreate, SomInv
  <2>2. named' \in [Kinds -> 0 .. runs] /\ named'[at] # 0 /\ runs' = runs
    BY <1>0, <1>2, <2>1 DEF OpenOrCreate, OpenedInv
  <2>3. /\ opened' \in [Kinds -> 0 .. runs] /\ opened'[at] # 0
        /\ \A k \in 1 .. at - 1 : opened'[k] # 0
    BY <1>0, <1>2, <2>2 DEF OpenOrCreate, OpenedInv
  <2>4. \/ at < 3 /\ at' = at + 1 /\ som' = "init"
        \/ at = 3 /\ som' = "send"
    BY <1>0, <1>2 DEF OpenOrCreate, Advance
  <2>5. \A k \in 1 .. at : opened'[k] # 0
    BY <1>0, <2>3
  <2> QED
    BY <1>0, <2>2, <2>3, <2>4, <2>5 DEF OpenedInv
<1>3. CASE SendMessage
  BY <1>0, <1>3 DEF SendMessage, Advance, OpenedInv
<1>4. CASE StopSom
  BY <1>0, <1>4 DEF StopSom, OpenedInv
<1>5. CASE Remove
  BY <1>0, <1>5 DEF Remove, Advance, OpenedInv
<1>6. CASE KillSom
  BY <1>0, <1>6 DEF KillSom, OpenedInv
<1> QED
  BY <1>1, <1>2, <1>3, <1>4, <1>5, <1>6 DEF Som

(* The queue a message is sent to, and the effect of sending it.           *)
LEMMA SendEffect ==
  ASSUME IndType, SendMessage
  PROVE  /\ at \in Kinds /\ opened[at] \in Runs
         /\ turn' \in 1 .. MaxTurns
         /\ queue[at][opened[at]] \in Seq(1 .. MaxTurns)
         /\ \/ UNCHANGED queue
            \/ /\ Len(queue[at][opened[at]]) < Capacity
               /\ queue' = [queue EXCEPT ![at][opened[at]] =
                              Append(queue[at][opened[at]], turn')]
<1>1. at \in Kinds /\ som = "send" /\ runs \in 0 .. MaxRuns
  BY DEF IndType, SomInv, SendMessage
<1>2. opened[at] \in Runs
  BY <1>1, LimitsAssumption DEF IndType, OpenedInv, None, Runs
<1>3. turn' \in 1 .. MaxTurns
  BY <1>1, LimitsAssumption DEF IndType, SomInv, SendMessage, Kinds
<1>4. queue[at][opened[at]] \in Seq(1 .. MaxTurns)
  BY <1>1, <1>2 DEF IndType, QueueType
<1> QED
  BY <1>1, <1>2, <1>3, <1>4 DEF SendMessage

LEMMA SomQueueType == ASSUME IndType, Som PROVE QueueType'
<1>1. CASE SendMessage
  <2>1. CASE UNCHANGED queue
    BY <2>1 DEF IndType, QueueType
  <2>2. CASE queue' = [queue EXCEPT ![at][opened[at]] =
                         Append(queue[at][opened[at]], turn')]
    <3>1. Append(queue[at][opened[at]], turn') \in Seq(1 .. MaxTurns)
      BY <1>1, SendEffect
    <3> QED
      BY <1>1, <2>2, <3>1, SendEffect DEF IndType, QueueType
  <2> QED
    BY <1>1, <2>1, <2>2, SendEffect
<1>2. CASE ~SendMessage
  BY <1>2
    DEF IndType, QueueType, Som, StartSom, OpenOrCreate, StopSom, Remove,
        KillSom
<1> QED
  BY <1>1, <1>2

LEMMA SomRxType == ASSUME IndType, Som PROVE RxType' /\ FlawsType'
<1>1. UNCHANGED rxVars
  BY DEF Som, StartSom, OpenOrCreate, SendMessage, StopSom, Remove, KillSom
<1>2. 0 .. runs \subseteq 0 .. runs'
  <2>1. runs' = runs \/ runs' = runs + 1
    BY DEF Som, StartSom, OpenOrCreate, SendMessage, StopSom, Remove, KillSom
  <2> QED
    BY <2>1, LimitsAssumption DEF IndType, SomInv
<1>3. handle \in [Receivers -> [Kinds -> 0 .. runs']]
  BY <1>2 DEF IndType, RxType
<1>4. RxType'
  BY <1>1, <1>3 DEF IndType, RxType, rxVars
<1>5. FlawsType'
  BY DEF IndType, FlawsType, Som, StartSom, OpenOrCreate, SendMessage,
         StopSom, Remove, KillSom
<1> QED
  BY <1>4, <1>5

(* What receiving takes.                                                   *)
LEMMA ReceiveEffect ==
  ASSUME IndType, NEW r \in Receivers, Receive(r)
  PROVE  \E k \in Kinds, i \in Runs :
           /\ k = rxAt[r] /\ i = handle[r][k]
           /\ queue[k][i] \in Seq(1 .. MaxTurns) /\ queue[k][i] # <<>>
           /\ queue' = [queue EXCEPT ![k][i] = Tail(queue[k][i])]
           /\ got' = [got EXCEPT ![r] =
                        Append(IF k = 1 THEN <<>> ELSE got[r],
                               Head(queue[k][i]))]
<1>1. rxAt[r] \in Kinds /\ runs \in 0 .. MaxRuns
  BY DEF IndType, RxType, SomInv
<1>2. handle[r][rxAt[r]] \in Runs
  BY <1>1, LimitsAssumption DEF IndType, RxType, Receive, None, Runs
<1>3. queue[rxAt[r]][handle[r][rxAt[r]]] \in Seq(1 .. MaxTurns)
  BY <1>1, <1>2 DEF IndType, QueueType
<1> QED
  BY <1>1, <1>2, <1>3 DEF Receive

LEMMA RxSomStep ==
  ASSUME IndType, NEW r \in Receivers, Receiver(r)
  PROVE  UNCHANGED <<som, at, runs, turn, first, opened, named>>
BY DEF Receiver, StartReceiver, OpenQueue, OpenFails, Receive, NullReceive,
       StopReceiver, somVars

LEMMA RxTypeStep ==
  ASSUME IndType, NEW r \in Receivers, Receiver(r)
  PROVE  QueueType' /\ RxType' /\ FlawsType'
<1>0. UNCHANGED runs
  BY RxSomStep
<1>1. FlawsType'
  BY DEF IndType, FlawsType, Receiver, StartReceiver, OpenQueue, OpenFails,
         Receive, NullReceive, StopReceiver
<1>2. CASE Receive(r)
  <2>1. PICK k \in Kinds, i \in Runs :
          /\ k = rxAt[r] /\ i = handle[r][k]
          /\ queue[k][i] \in Seq(1 .. MaxTurns) /\ queue[k][i] # <<>>
          /\ queue' = [queue EXCEPT ![k][i] = Tail(queue[k][i])]
          /\ got' = [got EXCEPT ![r] =
                       Append(IF k = 1 THEN <<>> ELSE got[r],
                              Head(queue[k][i]))]
    BY <1>2, ReceiveEffect
  <2>2. /\ Tail(queue[k][i]) \in Seq(1 .. MaxTurns)
        /\ Head(queue[k][i]) \in 1 .. MaxTurns
    BY <2>1, HeadTailProperties
  <2>3. Append(IF k = 1 THEN <<>> ELSE got[r], Head(queue[k][i]))
          \in Seq(1 .. MaxTurns)
    <3>1. got[r] \in Seq(1 .. MaxTurns) /\ <<>> \in Seq(1 .. MaxTurns)
      BY DEF IndType, RxType
    <3>2. (IF k = 1 THEN <<>> ELSE got[r]) \in Seq(1 .. MaxTurns)
      BY <3>1
    <3> QED
      BY <2>2, <3>2, AppendProperties
  <2>4. QueueType'
    BY <2>1, <2>2 DEF IndType, QueueType
  <2>5. got' \in [Receivers -> Seq(1 .. MaxTurns)]
    BY <2>1, <2>3 DEF IndType, RxType
  <2> QED
    BY <1>0, <1>1, <1>2, <2>4, <2>5
      DEF IndType, RxType, Receive, AdvanceRx, Kinds
<1>3. CASE ~Receive(r)
  <2>1. UNCHANGED queue
    BY <1>3 DEF Receiver, StartReceiver, OpenQueue, OpenFails, NullReceive,
                StopReceiver
  <2>2. QueueType'
    BY <2>1 DEF IndType, QueueType
  <2>3. CASE GoOff(r)
    <3>1. [k \in Kinds |-> None] \in [Kinds -> 0 .. runs]
      BY LimitsAssumption DEF IndType, SomInv, None
    <3>2. <<>> \in Seq(1 .. MaxTurns)
      OBVIOUS
    <3> QED
      BY <1>0, <1>1, <2>2, <2>3, <3>1, <3>2
        DEF IndType, RxType, GoOff, Kinds
  <2>4. CASE OpenQueue(r)
    <3>1. rxAt[r] \in Kinds /\ named[rxAt[r]] \in 0 .. runs
      BY DEF IndType, RxType, OpenedInv
    <3>2. handle' \in [Receivers -> [Kinds -> 0 .. runs']]
      BY <1>0, <2>4, <3>1 DEF IndType, RxType, OpenQueue
    <3>3. /\ rx' \in [Receivers -> {"off", "open", "receive"}]
          /\ rxAt' \in [Receivers -> Kinds]
      BY <2>4, <3>1 DEF IndType, RxType, OpenQueue, AdvanceRx, Kinds
    <3>4. UNCHANGED got
      BY <2>4 DEF OpenQueue
    <3> QED
      BY <1>1, <2>2, <3>2, <3>3, <3>4 DEF IndType, RxType
  <2>5. CASE ~GoOff(r) /\ ~OpenQueue(r)
    <3>1. UNCHANGED <<handle, got>>
      BY <1>3, <2>5 DEF Receiver, StartReceiver, OpenFails, NullReceive,
                        StopReceiver
    <3>2. \/ rx' = [rx EXCEPT ![r] = "open"] /\ rxAt' = rxAt
          \/ /\ rx' = [rx EXCEPT ![r] = "receive"]
             /\ rxAt' = [rxAt EXCEPT ![r] = 1]
      BY <1>3, <2>5 DEF Receiver, StartReceiver, OpenFails, NullReceive,
                        StopReceiver
    <3>3. /\ rx' \in [Receivers -> {"off", "open", "receive"}]
          /\ rxAt' \in [Receivers -> Kinds]
      <4>1. /\ rx \in [Receivers -> {"off", "open", "receive"}]
            /\ rxAt \in [Receivers -> Kinds] /\ 1 \in Kinds
        BY DEF IndType, RxType, Kinds
      <4>2. rx' \in [Receivers -> {"off", "open", "receive"}]
        BY <3>2, <4>1
      <4>3. rxAt' \in [Receivers -> Kinds]
        BY <3>2, <4>1
      <4> QED
        BY <4>2, <4>3
    <3> QED
      BY <1>0, <1>1, <2>2, <3>1, <3>3 DEF IndType, RxType
  <2> QED
    BY <2>3, <2>4, <2>5
<1> QED
  BY <1>2, <1>3

LEMMA StutterType == ASSUME IndType, UNCHANGED vars PROVE IndType'
BY DEF IndType, SomInv, OpenedInv, QueueType, RxType, FlawsType, vars,
       somVars, rxVars

LEMMA NextType == ASSUME IndType, [Next]_vars PROVE IndType'
<1>1. CASE Som
  BY <1>1, SomStep, OpenedStep, SomQueueType, SomRxType DEF IndType
<1>2. ASSUME NEW r \in Receivers, Receiver(r) PROVE IndType'
  BY <1>2, RxSomStep, RxTypeStep DEF IndType, SomInv, OpenedInv
<1>3. CASE UNCHANGED vars
  BY <1>3, StutterType
<1> QED
  BY <1>1, <1>2, <1>3 DEF Next

LEMMA TypeInvariant == Spec => []IndType
BY InitType, NextType, PTL DEF Spec

(* The type invariant, and that the SoM sends and removes only what it has *)
(* opened, however its earlier runs have ended.                            *)
THEOREM TypeCorrect == Spec => []TypeOK
<1>1. IndType => TypeOK
  BY DEF IndType, SomInv, OpenedInv, QueueType, RxType, FlawsType, TypeOK
<1> QED
  BY <1>1, TypeInvariant, PTL

-----------------------------------------------------------------------------
(* Order.  No message of kind k has a turn as late as Limit(k), and that   *)
(* of the next one sent is no earlier.                                     *)
Limit(k) == IF som = "send" /\ at > 1 /\ k >= at THEN turn ELSE turn + 1

Below(q, t) == \A n \in 1 .. Len(q) : q[n] < t
Above(q, t) == \A n \in 1 .. Len(q) : q[n] > t
Increasing(q) == \A m, n \in 1 .. Len(q) : m < n => q[m] < q[n]

(* The place of a receiver in its round, by what it has taken.             *)
PlaceInv ==
  \A r \in Receivers :
    /\ rx[r] # "receive" => got[r] = <<>>
    /\ rx[r] = "receive" /\ rxAt[r] = 1 => Len(got[r]) \in {0, 3}
    /\ rx[r] = "receive" /\ rxAt[r] > 1 => Len(got[r]) = rxAt[r] - 1

QueueInv ==
  \A k \in Kinds, i \in Runs :
    /\ Len(queue[k][i]) <= Capacity /\ Increasing(queue[k][i])
    /\ Below(queue[k][i], Limit(k))

TakenInv ==
  \A r \in Receivers, k \in Kinds :
    k <= Len(got[r]) =>
      /\ got[r][k] < Limit(k)
      /\ \A i \in Runs : handle[r][k] = i => Above(queue[k][i], got[r][k])

OrderInv == PlaceInv /\ QueueInv /\ TakenInv

LEMMA AppendOrder ==
  ASSUME NEW S \in SUBSET Nat, NEW q \in Seq(S), NEW t \in S, Increasing(q), Below(q, t)
  PROVE  Increasing(Append(q, t)) /\ Below(Append(q, t), t + 1)
<1>1. /\ Len(Append(q, t)) = Len(q) + 1 /\ Len(q) \in Nat
      /\ \A n \in 1 .. Len(q) : Append(q, t)[n] = q[n]
      /\ Append(q, t)[Len(q) + 1] = t
  BY AppendProperties
<1>2. \A n \in 1 .. Len(q) : q[n] \in Nat /\ q[n] < t
  BY ElementOfSeq DEF Below
<1>3. \A n \in 1 .. Len(q) + 1 : n = Len(q) + 1 \/ n \in 1 .. Len(q)
  BY <1>1
<1>4. Below(Append(q, t), t + 1)
  BY <1>1, <1>2, <1>3 DEF Below
<1>5. Increasing(Append(q, t))
  BY <1>1, <1>2, <1>3 DEF Increasing
<1> QED
  BY <1>4, <1>5

LEMMA TailOrder ==
  ASSUME NEW S \in SUBSET Nat, NEW q \in Seq(S), q # <<>>, Increasing(q)
  PROVE  /\ Increasing(Tail(q)) /\ Above(Tail(q), Head(q))
         /\ Len(Tail(q)) < Len(q)
         /\ Head(q) = q[1] /\ 1 \in 1 .. Len(q)
         /\ \A n \in 1 .. Len(Tail(q)) :
              Tail(q)[n] = q[n + 1] /\ n + 1 \in 1 .. Len(q)
<1>1. /\ Len(Tail(q)) = Len(q) - 1 /\ Len(q) \in Nat
      /\ \A n \in 1 .. Len(Tail(q)) : Tail(q)[n] = q[n + 1]
  BY HeadTailProperties
<1>2. Head(q) = q[1] /\ Len(q) > 0
  BY <1>1, EmptySeq
<1>3. \A n \in 1 .. Len(Tail(q)) : n + 1 \in 1 .. Len(q) /\ 1 < n + 1
  BY <1>1
<1>4. Above(Tail(q), Head(q))
  BY <1>1, <1>2, <1>3 DEF Above, Increasing
<1>5. Increasing(Tail(q))
  BY <1>1, <1>3 DEF Increasing
<1> QED
  BY <1>1, <1>2, <1>3, <1>4, <1>5

LEMMA LimitStep ==
  ASSUME IndType, Som, NEW k \in Kinds
  PROVE  /\ Limit(k) \in Nat /\ Limit(k)' \in Nat /\ Limit(k) <= Limit(k)'
         /\ SendMessage /\ k = at
              => Limit(k) <= turn' /\ Limit(k)' = turn' + 1
<1>0. /\ turn \in Nat /\ at \in 1 .. 3 /\ k \in 1 .. 3
      /\ som \in {"down", "init", "send", "remove"}
  BY LimitsAssumption DEF IndType, SomInv, Kinds
<1>1. CASE SendMessage
  BY <1>0, <1>1 DEF SendMessage, Advance, Limit
<1>2. CASE ~SendMessage
  BY <1>0, <1>2
    DEF Som, StartSom, OpenOrCreate, StopSom, Remove, KillSom, Advance, Limit
<1> QED
  BY <1>1, <1>2

(* What every sequence of messages is made of.                             *)
LEMMA Messages ==
  ASSUME IndType, NEW k \in Kinds, NEW i \in Runs
  PROVE  /\ 1 .. MaxTurns \in SUBSET Nat
         /\ queue[k][i] \in Seq(1 .. MaxTurns)
         /\ \A n \in 1 .. Len(queue[k][i]) : queue[k][i][n] \in Nat
<1>1. 1 .. MaxTurns \in SUBSET Nat
  BY LimitsAssumption
<1>2. queue[k][i] \in Seq(1 .. MaxTurns)
  BY DEF IndType, QueueType
<1> QED
  BY <1>1, <1>2, ElementOfSeq

LEMMA TakenNat ==
  ASSUME IndType, NEW r \in Receivers, NEW k \in Kinds, k <= Len(got[r])
  PROVE  got[r][k] \in Nat
<1>1. got[r] \in Seq(1 .. MaxTurns) /\ Len(got[r]) \in Nat
  BY LenProperties DEF IndType, RxType
<1>2. k \in 1 .. Len(got[r])
  BY <1>1 DEF Kinds
<1> QED
  BY <1>1, <1>2, ElementOfSeq, LimitsAssumption

(* The effect of a step of the SoM on one queue: a message is behind all   *)
(* others, or nothing changes.                                             *)
LEMMA SomQueueStep ==
  ASSUME IndType, Som, NEW k \in Kinds, NEW i \in Runs
  PROVE  \/ queue'[k][i] = queue[k][i]
         \/ /\ SendMessage /\ k = at /\ Len(queue[k][i]) < Capacity
            /\ turn' \in 1 .. MaxTurns
            /\ queue'[k][i] = Append(queue[k][i], turn')
<1>1. CASE SendMessage
  <2>1. CASE UNCHANGED queue
    BY <2>1
  <2>2. CASE /\ Len(queue[at][opened[at]]) < Capacity
             /\ queue' = [queue EXCEPT ![at][opened[at]] =
                            Append(queue[at][opened[at]], turn')]
    BY <1>1, <2>2, SendEffect DEF IndType, QueueType
  <2> QED
    BY <1>1, <2>1, <2>2, SendEffect
<1>2. CASE ~SendMessage
  BY <1>2 DEF Som, StartSom, OpenOrCreate, StopSom, Remove, KillSom
<1> QED
  BY <1>1, <1>2

LEMMA SomOrder == ASSUME IndType, OrderInv, Som PROVE OrderInv'
<1>0. UNCHANGED rxVars
  BY DEF Som, StartSom, OpenOrCreate, SendMessage, StopSom, Remove, KillSom
<1>1. PlaceInv'
  BY <1>0 DEF OrderInv, PlaceInv, rxVars
<1>2. ASSUME NEW k \in Kinds, NEW i \in Runs
      PROVE  /\ Len(queue'[k][i]) <= Capacity /\ Increasing(queue'[k][i])
             /\ Below(queue'[k][i], Limit(k)')
  <2> DEFINE q == queue[k][i]
  <2>0. /\ Len(q) <= Capacity /\ Increasing(q) /\ Below(q, Limit(k))
        /\ Limit(k) \in Nat /\ Limit(k)' \in Nat /\ Limit(k) <= Limit(k)'
    BY LimitStep DEF OrderInv, QueueInv
  <2>1. CASE queue'[k][i] = q
    <3>1. Below(q, Limit(k)')
      BY <2>0, Messages DEF Below
    <3> QED
      BY <2>0, <2>1, <3>1
  <2>2. CASE /\ SendMessage /\ k = at /\ Len(q) < Capacity
             /\ turn' \in 1 .. MaxTurns /\ queue'[k][i] = Append(q, turn')
    <3>1. Limit(k) <= turn' /\ Limit(k)' = turn' + 1 /\ turn' \in Nat
      BY <2>2, LimitStep, LimitsAssumption
    <3>2. Below(q, turn')
      BY <2>0, <3>1, Messages DEF Below
    <3>3. Increasing(Append(q, turn')) /\ Below(Append(q, turn'), turn' + 1)
      BY <2>0, <2>2, <3>2, Messages, AppendOrder
    <3>4. Len(Append(q, turn')) = Len(q) + 1 /\ Len(q) \in Nat
      BY <2>2, Messages, AppendProperties, LenProperties
    <3> QED
      BY <2>2, <3>1, <3>3, <3>4, CapacityAssumption
  <2> QED
    BY <2>1, <2>2, SomQueueStep
<1>3. ASSUME NEW r \in Receivers, NEW k \in Kinds, k <= Len(got[r])
      PROVE  /\ got[r][k] < Limit(k)'
             /\ \A i \in Runs :
                  handle[r][k] = i => Above(queue'[k][i], got[r][k])
  <2>0. /\ got[r][k] \in Nat /\ got[r][k] < Limit(k)
        /\ Limit(k) \in Nat /\ Limit(k)' \in Nat /\ Limit(k) <= Limit(k)'
    BY <1>3, TakenNat, LimitStep DEF OrderInv, TakenInv
  <2>1. ASSUME NEW i \in Runs, handle[r][k] = i
        PROVE  Above(queue'[k][i], got[r][k])
    <3> DEFINE q == queue[k][i]
    <3>0. Above(q, got[r][k])
      BY <1>3, <2>1 DEF OrderInv, TakenInv
    <3>1. CASE queue'[k][i] = q
      BY <3>0, <3>1
    <3>2. CASE /\ SendMessage /\ k = at /\ turn' \in 1 .. MaxTurns
               /\ queue'[k][i] = Append(q, turn')
      <4>1. /\ Len(Append(q, turn')) = Len(q) + 1 /\ Len(q) \in Nat
            /\ \A n \in 1 .. Len(q) : Append(q, turn')[n] = q[n]
            /\ Append(q, turn')[Len(q) + 1] = turn'
        BY <3>2, Messages, AppendProperties, LenProperties
      <4>2. got[r][k] < turn'
        BY <2>0, <3>2, LimitStep, LimitsAssumption
      <4> QED
        BY <3>0, <3>2, <4>1, <4>2 DEF Above
    <3> QED
      BY <3>1, <3>2, SomQueueStep
  <2> QED
    BY <2>0, <2>1
<1>4. QueueInv'
  BY <1>2 DEF QueueInv
<1>5. TakenInv'
  BY <1>0, <1>3 DEF TakenInv, rxVars
<1> QED
  BY <1>1, <1>4, <1>5 DEF OrderInv

(* A receive: the oldest message goes, and is put behind those that the    *)
(* round has so far.                                                       *)
LEMMA ReceiveOrder ==
  ASSUME IndType, OrderInv, NEW r \in Receivers, Receive(r)
  PROVE  OrderInv'
<1>1. PICK k \in Kinds, i \in Runs :
        /\ k = rxAt[r] /\ i = handle[r][k]
        /\ queue[k][i] \in Seq(1 .. MaxTurns) /\ queue[k][i] # <<>>
        /\ queue' = [queue EXCEPT ![k][i] = Tail(queue[k][i])]
        /\ got' = [got EXCEPT ![r] =
                     Append(IF k = 1 THEN <<>> ELSE got[r],
                            Head(queue[k][i]))]
  BY ReceiveEffect
<1> DEFINE q == queue[k][i]
           base == IF k = 1 THEN <<>> ELSE got[r]
<1>2. /\ UNCHANGED <<som, at, turn, handle>> /\ rx[r] = "receive"
      /\ rx' \in [Receivers -> {"off", "open", "receive"}]
      /\ rxAt' = [rxAt EXCEPT ![r] = IF @ < 3 THEN @ + 1 ELSE 1]
      /\ rx' = [rx EXCEPT ![r] = IF rxAt[r] < 3 THEN @ ELSE "receive"]
  BY RxSomStep DEF Receive, Receiver, AdvanceRx, IndType, RxType
<1>3. /\ Increasing(Tail(q)) /\ Above(Tail(q), Head(q))
      /\ Len(Tail(q)) < Len(q) /\ Len(Tail(q)) \in Nat /\ Len(q) \in Nat
      /\ Head(q) = q[1] /\ 1 \in 1 .. Len(q)
      /\ \A n \in 1 .. Len(Tail(q)) :
           Tail(q)[n] = q[n + 1] /\ n + 1 \in 1 .. Len(q)
  BY <1>1, Messages, TailOrder, HeadTailProperties, LenProperties
    DEF OrderInv, QueueInv
<1>4. /\ \A j \in Kinds, h \in Runs :
           queue'[j][h] = IF j = k /\ h = i THEN Tail(q) ELSE queue[j][h]
      /\ \A j \in Kinds : Limit(j)' = Limit(j) /\ Limit(j) \in Int
  <2>1. \A j \in Kinds : Limit(j)' = Limit(j) /\ Limit(j) \in Int
    BY <1>2, LimitsAssumption DEF Limit, IndType, SomInv
  <2> QED
    BY <1>1, <2>1 DEF IndType, QueueType
<1>5. /\ base \in Seq(1 .. MaxTurns) /\ Len(base) = k - 1
      /\ k # 1 => base = got[r]
      /\ Head(q) \in 1 .. MaxTurns
  <2>1. got[r] \in Seq(1 .. MaxTurns)
    BY DEF IndType, RxType
  <2>2. Head(q) \in 1 .. MaxTurns
    BY <1>1, HeadTailProperties
  <2>3. CASE k = 1
    BY <2>2, <2>3, EmptySeq
  <2>4. CASE k # 1
    <3>1. k > 1 /\ Len(got[r]) = k - 1
      BY <1>1, <1>2, <2>4 DEF OrderInv, PlaceInv, Kinds
    <3> QED
      BY <2>1, <2>2, <2>4, <3>1
  <2> QED
    BY <2>3, <2>4
<1>6. /\ got'[r] = Append(base, Head(q)) /\ Len(got'[r]) = k
      /\ got'[r][k] = Head(q)
      /\ \A j \in 1 .. k - 1 : got'[r][j] = got[r][j] /\ j <= Len(got[r])
      /\ \A t \in Receivers : t # r => got'[t] = got[t]
  <2>1. got'[r] = Append(base, Head(q))
    BY <1>1 DEF IndType, RxType
  <2>2. /\ Len(got'[r]) = k /\ got'[r][k] = Head(q)
        /\ \A j \in 1 .. k - 1 : got'[r][j] = base[j]
    BY <1>5, <2>1, AppendProperties DEF Kinds
  <2>3. \A j \in 1 .. k - 1 : base = got[r] /\ j <= Len(got[r])
    BY <1>5 DEF Kinds
  <2>4. \A t \in Receivers : t # r => got'[t] = got[t]
    BY <1>1 DEF IndType, RxType
  <2> QED
    BY <2>1, <2>2, <2>3, <2>4
<1>7. PlaceInv'
  <2>1. /\ rx \in [Receivers -> {"off", "open", "receive"}]
        /\ rxAt \in [Receivers -> Kinds]
    BY DEF IndType, RxType
  <2>2. /\ rx'[r] = "receive"
        /\ rxAt'[r] = IF k < 3 THEN k + 1 ELSE 1
        /\ \A t \in Receivers : t # r => rx'[t] = rx[t] /\ rxAt'[t] = rxAt[t]
    BY <1>1, <1>2, <2>1
  <2>3. /\ rxAt'[r] = 1 => Len(got'[r]) \in {0, 3}
        /\ rxAt'[r] > 1 => Len(got'[r]) = rxAt'[r] - 1
    BY <1>6, <2>2 DEF Kinds
  <2> QED
    BY <1>6, <2>2, <2>3 DEF OrderInv, PlaceInv
<1>8. QueueInv'
  <2>1. Len(Tail(q)) <= Capacity /\ Below(Tail(q), Limit(k))
    BY <1>3, CapacityAssumption DEF OrderInv, QueueInv, Below
  <2> QED
    BY <1>3, <1>4, <2>1 DEF OrderInv, QueueInv
<1>9. TakenInv'
  <2>1. \A t, h : Above(q, t) => Above(Tail(q), t)
    BY <1>3 DEF Above
  <2>2. ASSUME NEW t \in Receivers, NEW j \in Kinds, t # r, j <= Len(got[t])
        PROVE  /\ got[t][j] < Limit(j)
               /\ \A h \in Runs :
                    handle[t][j] = h => Above(queue'[j][h], got[t][j])
    BY <1>4, <2>1, <2>2 DEF OrderInv, TakenInv
  <2>3. ASSUME NEW j \in Kinds, j < k
        PROVE  /\ got'[r][j] < Limit(j)
               /\ \A h \in Runs :
                    handle[r][j] = h => Above(queue'[j][h], got'[r][j])
    <3>1. j \in 1 .. k - 1 /\ j # k
      BY <2>3 DEF Kinds
    <3>2. got'[r][j] = got[r][j] /\ j <= Len(got[r])
      BY <1>6, <3>1
    <3> QED
      BY <1>4, <3>1, <3>2 DEF OrderInv, TakenInv
  <2>4. /\ got'[r][k] < Limit(k)
        /\ \A h \in Runs :
             handle[r][k] = h => Above(queue'[k][h], got'[r][k])
    <3>1. Below(q, Limit(k)) /\ Above(queue'[k][i], Head(q))
      BY <1>3, <1>4 DEF OrderInv, QueueInv
    <3>2. Head(q) < Limit(k)
      BY <1>3, <3>1 DEF Below
    <3> QED
      BY <1>1, <1>6, <3>1, <3>2
  <2>5. \A j \in Kinds : j <= k => j = k \/ j < k
    BY DEF Kinds
  <2> QED
    BY <1>2, <1>4, <1>6, <2>2, <2>3, <2>4, <2>5 DEF TakenInv
<1> QED
  BY <1>7, <1>8, <1>9 DEF OrderInv

LEMMA ReceiverOrder ==
  ASSUME IndType, OrderInv, NEW r \in Receivers, Receiver(r), ~Receive(r)
  PROVE  OrderInv'
<1>1. UNCHANGED <<som, at, turn, queue>>
  BY DEF Receiver, StartReceiver, OpenQueue, OpenFails, NullReceive,
         StopReceiver, somVars
<1>2. QueueInv'
  BY <1>1 DEF OrderInv, QueueInv, Limit
<1>3. \A k \in Kinds : Limit(k)' = Limit(k)
  BY <1>1 DEF Limit
<1>4. /\ rx \in [Receivers -> {"off", "open", "receive"}]
      /\ rxAt \in [Receivers -> Kinds]
      /\ handle \in [Receivers -> [Kinds -> 0 .. runs]]
      /\ got \in [Receivers -> Seq(1 .. MaxTurns)]
  BY DEF IndType, RxType
(* In any such step, r has taken nothing of its round afterwards.          *)
<1>5. /\ got'[r] = <<>>
      /\ rx'[r] = "receive" => rxAt'[r] = 1
      /\ \A t \in Receivers : t # r =>
           /\ got'[t] = got[t] /\ handle'[t] = handle[t]
           /\ rx'[t] = rx[t] /\ rxAt'[t] = rxAt[t]
  <2>1. CASE GoOff(r)
    BY <1>4, <2>1 DEF GoOff
  <2>2. CASE OpenQueue(r)
    BY <1>4, <2>2 DEF OpenQueue, AdvanceRx, OrderInv, PlaceInv, Kinds
  <2>3. CASE StartReceiver(r)
    BY <1>4, <2>3 DEF StartReceiver, OrderInv, PlaceInv
  <2>4. CASE OpenFails(r) /\ ~GoOff(r)
    BY <1>4, <2>4 DEF OpenFails, OrderInv, PlaceInv
  <2> QED
    BY <2>1, <2>2, <2>3, <2>4 DEF Receiver, NullReceive, StopReceiver
<1>6. Len(got'[r]) = 0
  BY <1>5, EmptySeq
<1>7. PlaceInv'
  BY <1>5, <1>6 DEF OrderInv, PlaceInv
<1>8. TakenInv'
  <2>1. \A k \in Kinds : ~(k <= 0)
    BY DEF Kinds
  <2> QED
    BY <1>1, <1>3, <1>5, <1>6, <2>1 DEF OrderInv, TakenInv
<1> QED
  BY <1>2, <1>7, <1>8 DEF OrderInv

LEMMA InitOrder == Init => OrderInv
<1>1. Len(<<>>) = 0 /\ \A k \in Kinds : ~(k <= 0)
  BY EmptySeq DEF Kinds
<1>2. Init => PlaceInv
  BY <1>1 DEF Init, PlaceInv
<1>3. Init => QueueInv
  BY <1>1, CapacityAssumption
    DEF Init, QueueInv, Increasing, Below, Kinds
<1>4. Init => TakenInv
  BY <1>1 DEF Init, TakenInv
<1> QED
  BY <1>2, <1>3, <1>4 DEF OrderInv

LEMMA OrderInvariant == Spec => []OrderInv
<1>1. IndType /\ OrderInv /\ [Next]_vars => OrderInv'
  <2>1. IndType /\ OrderInv /\ UNCHANGED vars => OrderInv'
    BY DEF OrderInv, PlaceInv, QueueInv, TakenInv, Limit, vars, somVars,
           rxVars
  <2>2. ASSUME IndType, OrderInv, NEW r \in Receivers, Receiver(r)
        PROVE  OrderInv'
    BY <2>2, ReceiveOrder, ReceiverOrder
  <2> QED
    BY <2>1, <2>2, SomOrder DEF Next
<1> QED
  BY <1>1, InitOrder, TypeInvariant, PTL DEF Spec

(* Queues keep the order of the turns and hold none twice, over restarts   *)
(* and drops; what a receiver has taken is older than what it is to take.  *)
THEOREM OrderCorrect == Spec => []InOrder
<1>1. OrderInv => InOrder
  BY DEF OrderInv, QueueInv, TakenInv, InOrder, Increasing, Above
<1> QED
  BY <1>1, OrderInvariant, PTL

-----------------------------------------------------------------------------
(* Old messages.  A queue of a run to come is empty; and without a kill, a *)
(* name that a run finds in init is one it has given itself.               *)
UnusedInv == \A k \in Kinds, i \in Runs : i > runs => queue[k][i] = <<>>

NamesInv ==
  "killed" \notin flaws =>
    /\ som = "down" => \A k \in Kinds : named[k] = None
    /\ som = "init" =>
         \A k \in Kinds : /\ k < at => opened[k] = runs
                          /\ k >= at => named[k] = None
    /\ som = "send" => \A k \in Kinds : opened[k] = runs
    /\ som = "remove" => \A k \in Kinds : k < at => named[k] = None

NewInv ==
  /\ som = "send" /\ at > 1 => turn > first
  /\ "killed" \notin flaws /\ som # "down" =>
       \A k \in Kinds : Above(queue[k][runs], first)

FreshInv == UnusedInv /\ NamesInv /\ NewInv

LEMMA NamesStep == ASSUME IndType, FreshInv, Som PROVE NamesInv'
<1>0. /\ at \in 1 .. 3 /\ Kinds = 1 .. 3
      /\ named \in [Kinds -> 0 .. runs] /\ opened \in [Kinds -> 0 .. runs]
      /\ NamesInv
  BY DEF IndType, SomInv, OpenedInv, Kinds, FreshInv
<1>1. CASE StartSom
  BY <1>0, <1>1 DEF StartSom, NamesInv
<1>2. CASE OpenOrCreate
  <2>1. /\ som = "init" /\ UNCHANGED <<runs, flaws>>
        /\ named' = [named EXCEPT ![at] = IF @ = None THEN runs ELSE @]
        /\ opened' = [opened EXCEPT ![at] = named'[at]]
        /\ \/ at < 3 /\ at' = at + 1 /\ som' = "init"
           \/ at = 3 /\ at' = 1 /\ som' = "send"
    BY <1>0, <1>2 DEF OpenOrCreate, Advance
  <2>2. ASSUME "killed" \notin flaws
        PROVE  /\ \A k \in Kinds : k <= at => opened'[k] = runs
               /\ \A k \in Kinds : k > at => named'[k] = None
    BY <1>0, <2>1, <2>2 DEF NamesInv
  <2> QED
    BY <1>0, <2>1, <2>2 DEF NamesInv
<1>3. CASE SendMessage
  BY <1>0, <1>3 DEF SendMessage, Advance, NamesInv
<1>4. CASE StopSom
  BY <1>0, <1>4 DEF StopSom, NamesInv
<1>5. CASE Remove
  <2>1. /\ som = "remove" /\ UNCHANGED flaws
        /\ named' = [named EXCEPT ![at] = None]
        /\ \/ at < 3 /\ at' = at + 1 /\ som' = "remove"
           \/ at = 3 /\ at' = 1 /\ som' = "down"
    BY <1>0, <1>5 DEF Remove, Advance
  <2>2. ASSUME "killed" \notin flaws
        PROVE  \A k \in Kinds : k <= at => named'[k] = None
    BY <1>0, <2>1, <2>2 DEF NamesInv
  <2> QED
    BY <1>0, <2>1, <2>2 DEF NamesInv
<1>6. CASE KillSom
  BY <1>6 DEF KillSom, NamesInv
<1> QED
  BY <1>1, <1>2, <1>3, <1>4, <1>5, <1>6 DEF Som

LEMMA UnusedStep == ASSUME IndType, FreshInv, Som PROVE UnusedInv'
<1>0. runs \in Nat /\ runs' \in Nat /\ runs <= runs'
  BY LimitsAssumption
    DEF IndType, SomInv, Som, StartSom, OpenOrCreate, SendMessage, StopSom,
        Remove, KillSom
<1>1. ASSUME NEW k \in Kinds, NEW i \in Runs, i > runs'
      PROVE  queue'[k][i] = <<>>
  <2>1. i > runs /\ queue[k][i] = <<>>
    BY <1>0, <1>1 DEF FreshInv, UnusedInv, Runs
  <2>2. SendMessage => opened[at] <= runs
    BY <1>0, SendEffect DEF IndType, OpenedInv
  <2>3. SendMessage => queue'[k][i] = queue[k][i]
    <3>1. CASE SendMessage /\ UNCHANGED queue
      BY <3>1
    <3>2. CASE /\ SendMessage
               /\ queue' = [queue EXCEPT ![at][opened[at]] =
                              Append(queue[at][opened[at]], turn')]
      BY <1>0, <2>1, <2>2, <3>2, SendEffect
        DEF IndType, QueueType, OpenedInv, Runs
    <3> QED
      BY <3>1, <3>2, SendEffect
  <2>4. ~SendMessage => queue'[k][i] = queue[k][i]
    BY DEF Som, StartSom, OpenOrCreate, StopSom, Remove, KillSom
  <2> QED
    BY <2>1, <2>3, <2>4
<1> QED
  BY <1>1 DEF UnusedInv

LEMMA NewStep == ASSUME IndType, FreshInv, Som PROVE NewInv'
<1>0. /\ runs \in 0 .. MaxRuns /\ turn \in Nat /\ first \in Nat
      /\ first <= turn /\ at \in 1 .. 3
      /\ som # "down" => runs \in Runs
  BY LimitsAssumption DEF IndType, SomInv, Runs, Kinds
<1>1. som' = "send" /\ at' > 1 => turn' > first'
  BY <1>0
    DEF FreshInv, NewInv, Som, StartSom, OpenOrCreate, SendMessage, StopSom,
        Remove, KillSom, Advance
<1>2. ASSUME "killed" \notin flaws', som' # "down", NEW k \in Kinds
      PROVE  Above(queue'[k][runs'], first')
  <2>1. CASE StartSom
    <3>1. runs' \in Runs /\ runs' > runs
      BY <1>0, <2>1, LimitsAssumption DEF StartSom, Runs
    <3>2. queue'[k][runs'] = <<>>
      BY <2>1, <3>1 DEF StartSom, FreshInv, UnusedInv
    <3> QED
      BY <3>2, EmptySeq DEF Above
  <2>2. CASE ~StartSom
    <3>1. /\ som # "down" /\ "killed" \notin flaws
          /\ UNCHANGED <<runs, first>>
      BY <1>2, <2>2
        DEF Som, OpenOrCreate, SendMessage, StopSom, Remove, KillSom, Running
    <3>2. runs \in Runs /\ Above(queue[k][runs], first)
      BY <1>0, <3>1 DEF FreshInv, NewInv
    <3>3. CASE queue'[k][runs] = queue[k][runs]
      BY <3>1, <3>2, <3>3
    <3>4. CASE /\ SendMessage /\ turn' \in 1 .. MaxTurns
               /\ queue'[k][runs] = Append(queue[k][runs], turn')
      <4>1. turn' > first
        BY <1>0, <3>4 DEF SendMessage, FreshInv, NewInv
      <4>2. /\ Len(queue'[k][runs]) = Len(queue[k][runs]) + 1
            /\ Len(queue[k][runs]) \in Nat
            /\ \A n \in 1 .. Len(queue[k][runs]) :
                 queue'[k][runs][n] = queue[k][runs][n]
            /\ queue'[k][runs][Len(queue[k][runs]) + 1] = turn'
        BY <3>2, <3>4, Messages, AppendProperties, LenProperties
      <4>3. \A n \in 1 .. Len(queue[k][runs]) + 1 :
              n = Len(queue[k][runs]) + 1 \/ n \in 1 .. Len(queue[k][runs])
        BY <4>2
      <4>4. Above(queue'[k][runs], first)
        BY <3>2, <4>1, <4>2, <4>3 DEF Above
      <4> QED
        BY <3>1, <4>4
    <3> QED
      BY <3>2, <3>3, <3>4, SomQueueStep
  <2> QED
    BY <2>1, <2>2
<1> QED
  BY <1>1, <1>2 DEF NewInv

LEMMA ReceiverFresh ==
  ASSUME IndType, OrderInv, FreshInv, NEW r \in Receivers, Receiver(r)
  PROVE  FreshInv'
<1>1. UNCHANGED <<som, at, runs, turn, first, opened, named>>
  BY RxSomStep
<1>2. "killed" \notin flaws' => "killed" \notin flaws
  BY DEF Receiver, StartReceiver, OpenQueue, OpenFails, Receive, NullReceive,
         StopReceiver
<1>3. ASSUME NEW k \in Kinds, NEW i \in Runs
      PROVE  /\ queue[k][i] = <<>> => queue'[k][i] = <<>>
             /\ \A t : Above(queue[k][i], t) => Above(queue'[k][i], t)
  <2>1. CASE UNCHANGED queue
    BY <2>1
  <2>2. CASE Receive(r)
    <3>1. PICK j \in Kinds, h \in Runs :
            /\ j = rxAt[r] /\ h = handle[r][j]
            /\ queue[j][h] \in Seq(1 .. MaxTurns) /\ queue[j][h] # <<>>
            /\ queue' = [queue EXCEPT ![j][h] = Tail(queue[j][h])]
            /\ got' = [got EXCEPT ![r] =
                         Append(IF j = 1 THEN <<>> ELSE got[r],
                                Head(queue[j][h]))]
      BY <2>2, ReceiveEffect
    <3>2. queue'[k][i] = IF k = j /\ i = h THEN Tail(queue[j][h])
                         ELSE queue[k][i]
      BY <3>1 DEF IndType, QueueType
    <3>3. /\ Len(Tail(queue[j][h])) \in Nat
          /\ \A n \in 1 .. Len(Tail(queue[j][h])) :
               /\ Tail(queue[j][h])[n] = queue[j][h][n + 1]
               /\ n + 1 \in 1 .. Len(queue[j][h])
      BY <3>1, Messages, TailOrder, HeadTailProperties, LenProperties
        DEF OrderInv, QueueInv
    <3>4. \A t : Above(queue[j][h], t) => Above(Tail(queue[j][h]), t)
      BY <3>3 DEF Above
    <3> QED
      BY <3>1, <3>2, <3>4
  <2> QED
    BY <2>1, <2>2
      DEF Receiver, StartReceiver, OpenQueue, OpenFails, NullReceive,
          StopReceiver
<1>4. som # "down" => runs \in Runs
  BY LimitsAssumption DEF IndType, SomInv, Runs
<1>5. UnusedInv'
  BY <1>1, <1>3 DEF FreshInv, UnusedInv
<1>6. NamesInv'
  BY <1>1, <1>2 DEF FreshInv, NamesInv
<1>7. NewInv'
  BY <1>1, <1>2, <1>3, <1>4 DEF FreshInv, NewInv
<1> QED
  BY <1>5, <1>6, <1>7 DEF FreshInv

LEMMA FreshInvariant == Spec => []FreshInv
<1>1. Init => FreshInv
  BY DEF Init, FreshInv, UnusedInv, NamesInv, NewInv
<1>2. IndType /\ OrderInv /\ FreshInv /\ [Next]_vars => FreshInv'
  <2>1. IndType /\ FreshInv /\ UNCHANGED vars => FreshInv'
    BY DEF FreshInv, UnusedInv, NamesInv, NewInv, vars, somVars
  <2>2. ASSUME IndType, OrderInv, FreshInv, NEW r \in Receivers, Receiver(r)
        PROVE  FreshInv'
    BY <2>2, ReceiverFresh
  <2>3. IndType /\ FreshInv /\ Som => FreshInv'
    BY NamesStep, UnusedStep, NewStep DEF FreshInv
  <2> QED
    BY <2>1, <2>2, <2>3 DEF Next
<1> QED
  BY <1>1, <1>2, TypeInvariant, OrderInvariant, PTL DEF Spec

(* A clean stop removes all three queues, so the next run sends into empty *)
(* ones, and no receiver that comes to them shows an earlier flight.       *)
THEOREM FreshCorrect == Spec => []FreshQueues
<1>1. FreshInv => FreshQueues
  BY DEF FreshInv, NamesInv, NewInv, Above, FreshQueues
<1> QED
  BY <1>1, FreshInvariant, PTL

-----------------------------------------------------------------------------
(* Without TelemetryThread, what is before the kind that is being opened   *)
(* is open, and nothing is received until all are.                         *)
OpenInv ==
  \A r \in Receivers \ Stations, k \in Kinds :
    rx[r] = "receive" \/ (rx[r] = "open" /\ k < rxAt[r])
      => handle[r][k] # None

(* rxAt is at its first kind whenever a receiver starts to open queues.    *)
OffInv == \A r \in Receivers : rx[r] = "off" => rxAt[r] = 1

LEMMA OpenStep ==
  ASSUME IndType, OpenInv, OffInv, NEW r \in Receivers, Receiver(r)
  PROVE  OpenInv' /\ OffInv'
<1>1. /\ rx \in [Receivers -> {"off", "open", "receive"}]
      /\ rxAt \in [Receivers -> 1 .. 3] /\ Kinds = 1 .. 3
      /\ handle \in [Receivers -> [Kinds -> 0 .. runs]]
  BY DEF IndType, RxType, Kinds
<1>2. \A t \in Receivers : t # r =>
        rx'[t] = rx[t] /\ rxAt'[t] = rxAt[t] /\ handle'[t] = handle[t]
  BY <1>1 DEF Receiver, StartReceiver, OpenQueue, OpenFails, Receive,
              NullReceive, StopReceiver, GoOff, AdvanceRx
<1>3. /\ rx'[r] = "off" => rxAt'[r] = 1
      /\ r \notin Stations => \A k \in Kinds :
           rx'[r] = "receive" \/ (rx'[r] = "open" /\ k < rxAt'[r])
             => handle'[r][k] # None
  <2>1. CASE StartReceiver(r)
    BY <1>1, <2>1 DEF StartReceiver, OffInv
  <2>2. CASE GoOff(r)
    BY <1>1, <2>2 DEF GoOff
  <2>3. CASE OpenQueue(r)
    <3>1. /\ handle'[r][rxAt[r]] # None
          /\ \A k \in Kinds : k # rxAt[r] => handle'[r][k] = handle[r][k]
          /\ rx[r] = "open"
      BY <1>1, <2>3 DEF OpenQueue
    <3>2. \/ rxAt[r] < 3 /\ rxAt'[r] = rxAt[r] + 1 /\ rx'[r] = "open"
          \/ rxAt[r] = 3 /\ rxAt'[r] = 1 /\ rx'[r] = "receive"
      BY <1>1, <2>3 DEF OpenQueue, AdvanceRx
    <3> QED
      BY <1>1, <3>1, <3>2 DEF OpenInv
  <2>4. CASE OpenFails(r) /\ ~GoOff(r)
    BY <1>1, <2>4 DEF OpenFails
  <2>5. CASE Receive(r)
    <3>1. rx'[r] = "receive" /\ rx[r] = "receive" /\ UNCHANGED handle
      BY <1>1, <2>5 DEF Receive, AdvanceRx
    <3> QED
      BY <3>1 DEF OpenInv
  <2> QED
    BY <2>1, <2>2, <2>3, <2>4, <2>5 DEF Receiver, NullReceive, StopReceiver
<1> QED
  BY <1>2, <1>3 DEF OpenInv, OffInv

(* A receiver that ends when its init has failed never goes through a null *)
(* pointer, wherever the SoM's init and destructor fall into its own init. *)
THEOREM OpenCorrect == Spec => []CheckedOpen
<1>1. Init => OpenInv /\ OffInv
  BY DEF Init, OpenInv, OffInv
<1>2. IndType /\ OpenInv /\ OffInv /\ [Next]_vars => OpenInv' /\ OffInv'
  <2>1. UNCHANGED rxVars /\ OpenInv /\ OffInv => OpenInv' /\ OffInv'
    BY DEF OpenInv, OffInv, rxVars
  <2>2. Som => UNCHANGED rxVars
    BY DEF Som, StartSom, OpenOrCreate, SendMessage, StopSom, Remove,
           KillSom
  <2>3. UNCHANGED vars => UNCHANGED rxVars
    BY DEF vars
  <2> QED
    BY <2>1, <2>2, <2>3, OpenStep DEF Next
<1>3. OpenInv => CheckedOpen
  BY DEF OpenInv, CheckedOpen
<1> QED
  BY <1>1, <1>2, <1>3, TypeInvariant, PTL DEF Spec
=============================================================================
