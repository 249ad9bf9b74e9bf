----------------------------- MODULE FeedProofs -----------------------------
(***************************************************************************)
(* Proofs that the three message queues are one feed of whole rounds, for  *)
(* any number of receivers, queues of every size and any number of runs    *)
(* and turns, as long as all goes smoothly.                                *)
(***************************************************************************)
EXTENDS TelemetryProofs

(* A queue of kind k of run i is in use: it has its name, or somebody has  *)
(* it open.                                                                *)
Held(k, i) == named[k] = i \/ \E r \in Receivers : handle[r][k] = i

(* Where turn t is with its message of kind k, on the queues of run i:     *)
(* in the queue, taken in a round that is not complete, or still to be     *)
(* sent in this turn.                                                      *)
Queued(k, i, t) == \E n \in 1 .. Len(queue[k][i]) : queue[k][i][n] = t
TakenBy(r, k, i, t) ==
  rx[r] = "receive" /\ k < rxAt[r] /\ handle[r][k] = i /\ got[r][1] = t
Taken(k, i, t) == \E r \in Receivers : TakenBy(r, k, i, t)
Unsent(k, i, t) ==
  som = "send" /\ at > 1 /\ k >= at /\ opened[k] = i /\ t = turn
Pending(k, i, t) == Queued(k, i, t) \/ Taken(k, i, t) \/ Unsent(k, i, t)

(* What a receiver has open, by its place.                                 *)
HandleInv ==
  \A r \in Receivers, k \in Kinds :
    /\ rx[r] = "off" => handle[r][k] = None
    /\ rx[r] = "open" /\ k >= rxAt[r] => handle[r][k] = None
    /\ rx[r] = "receive" /\ k < rxAt[r] => handle[r][k] # None

(* One receiver at a time, and its queues are of one run.                  *)
OneRunInv ==
  Smooth =>
    /\ \A r, s \in Receivers : r = s \/ rx[r] = "off" \/ rx[s] = "off"
    /\ \A r \in Receivers, k \in Kinds :
         handle[r][k] # None => handle[r][1] = handle[r][k]

(* While the SoM sends, the names are those of what it has open; they are  *)
(* given, and taken away, one after the other.                             *)
GivenInv ==
  /\ som = "init" =>
       \A k \in Kinds : k < at => opened[k] = named[k] /\ named[k] # None
  /\ som = "send" => \A k \in Kinds : opened[k] = named[k]
  /\ som = "remove" => \A k \in Kinds : k < at => named[k] = None

(* As long as one kind of a run has its name, so have all others that are  *)
(* in use, but for those that are being removed.                           *)
TogetherInv ==
  Smooth =>
    \A i \in Runs, j, k \in Kinds :
      named[j] = i /\ Held(k, i) /\ (som = "remove" => k >= at)
        => named[k] = i

(* What a run has created in its init is still empty.                      *)
NewQueuesInv ==
  Smooth /\ som = "init" =>
    \A i \in Runs, k \in Kinds :
      i = runs =>
        /\ Held(k, i) => named[k] = i
        /\ \A t \in 1 .. MaxTurns : ~Pending(k, i, t)

(* The kinds of one run that are in use have the same turns pending.       *)
SameTurnsInv ==
  Smooth =>
    \A i \in Runs, j, k \in Kinds, t \in 1 .. MaxTurns :
      Held(j, i) /\ Held(k, i) /\ Pending(j, i, t) => Pending(k, i, t)

(* And so a round is of one turn.                                          *)
OneTurnInv ==
  Smooth => \A r \in Receivers, n \in Kinds :
              n <= Len(got[r]) => got[r][n] = got[r][1]

HoldInv == HandleInv /\ OneRunInv /\ GivenInv
FeedInv == HoldInv /\ TogetherInv /\ NewQueuesInv /\ SameTurnsInv /\ OneTurnInv

-----------------------------------------------------------------------------
LEMMA SmoothStep == ASSUME Next, Smooth' PROVE Smooth
BY DEF Next, Smooth, Som, StartSom, OpenOrCreate, SendMessage, StopSom,
       Remove, KillSom, Receiver, StartReceiver, OpenQueue, OpenFails,
       Receive, NullReceive, StopReceiver

LEMMA GivenStep == ASSUME IndType, GivenInv, Som PROVE GivenInv'
<1>0. /\ at \in 1 .. 3 /\ Kinds = 1 .. 3
      /\ named \in [Kinds -> 0 .. runs] /\ opened \in [Kinds -> 0 .. runs]
  BY DEF IndType, SomInv, OpenedInv, Kinds
<1>1. CASE StartSom
  BY <1>0, <1>1 DEF StartSom, GivenInv
<1>2. CASE OpenOrCreate
  <2>1. /\ som = "init" /\ UNCHANGED runs
        /\ named' = [named EXCEPT ![at] = IF @ = None THEN runs ELSE @]
        /\ opened' = [opened EXCEPT ![at] = named'[at]]
        /\ \/ at < 3 /\ at' = at + 1 /\ som' = "init"
           \/ at = 3 /\ at' = 1 /\ som' = "send"
    BY <1>0, <1>2 DEF OpenOrCreate, Advance
  <2>2. runs # None
    BY <2>1 DEF IndType, SomInv, None
  <2>3. \A k \in Kinds : k <= at => opened'[k] = named'[k] /\ named'[k] # None
    BY <1>0, <2>1, <2>2 DEF GivenInv
  <2> QED
    BY <1>0, <2>1, <2>3 DEF GivenInv
<1>3. CASE SendMessage
  BY <1>0, <1>3 DEF SendMessage, Advance, GivenInv
<1>4. CASE StopSom
  BY <1>0, <1>4 DEF StopSom, GivenInv
<1>5. CASE Remove
  <2>1. /\ som = "remove"
        /\ named' = [named EXCEPT ![at] = None]
        /\ \/ at < 3 /\ at' = at + 1 /\ som' = "remove"
           \/ at = 3 /\ at' = 1 /\ som' = "down"
    BY <1>0, <1>5 DEF Remove, Advance
  <2>2. \A k \in Kinds : k <= at => named'[k] = None
    BY <1>0, <2>1 DEF GivenInv
  <2> QED
    BY <1>0, <2>1, <2>2 DEF GivenInv
<1>6. CASE KillSom
  BY <1>6 DEF KillSom, GivenInv
<1> QED
  BY <1>1, <1>2, <1>3, <1>4, <1>5, <1>6 DEF Som

(* A receiver's step, and the others.                                      *)
LEMMA OtherReceivers ==
  ASSUME IndType, NEW r \in Receivers, Receiver(r), NEW s \in Receivers, s # r
  PROVE  /\ rx'[s] = rx[s] /\ rxAt'[s] = rxAt[s]
         /\ handle'[s] = handle[s] /\ got'[s] = got[s]
BY DEF IndType, RxType, Receiver, StartReceiver, OpenQueue, OpenFails,
       Receive, NullReceive, StopReceiver, GoOff, AdvanceRx

LEMMA HandleStep ==
  ASSUME IndType, HandleInv, NEW r \in Receivers, Receiver(r)
  PROVE  HandleInv'
<1>1. /\ rx \in [Receivers -> {"off", "open", "receive"}]
      /\ rxAt \in [Receivers -> 1 .. 3] /\ Kinds = 1 .. 3
      /\ handle \in [Receivers -> [Kinds -> 0 .. runs]]
  BY DEF IndType, RxType, Kinds
<1>2. \A k \in Kinds :
        /\ rx'[r] = "off" => handle'[r][k] = None
        /\ rx'[r] = "open" /\ k >= rxAt'[r] => handle'[r][k] = None
        /\ rx'[r] = "receive" /\ k < rxAt'[r] => handle'[r][k] # None
  <2>1. CASE StartReceiver(r)
    BY <1>1, <2>1 DEF StartReceiver, HandleInv
  <2>2. CASE GoOff(r)
    BY <1>1, <2>2 DEF GoOff
  <2>3. CASE OpenQueue(r)
    <3>1. /\ rx[r] = "open"
          /\ \A k \in Kinds : k # rxAt[r] => handle'[r][k] = handle[r][k]
      BY <1>1, <2>3 DEF OpenQueue
    <3>2. \/ rxAt[r] < 3 /\ rxAt'[r] = rxAt[r] + 1 /\ rx'[r] = "open"
          \/ rxAt[r] = 3 /\ rxAt'[r] = 1 /\ rx'[r] = "receive"
      BY <1>1, <2>3 DEF OpenQueue, AdvanceRx
    <3> QED
      BY <1>1, <3>1, <3>2 DEF HandleInv
  <2>4. CASE OpenFails(r) /\ ~GoOff(r)
    BY <1>1, <2>4 DEF OpenFails
  <2>5. CASE Receive(r)
    <3>1. /\ rx'[r] = "receive" /\ rx[r] = "receive" /\ UNCHANGED handle
          /\ handle[r][rxAt[r]] # None
          /\ rxAt'[r] = IF rxAt[r] < 3 THEN rxAt[r] + 1 ELSE 1
      BY <1>1, <2>5 DEF Receive, AdvanceRx
    <3>2. \A k \in Kinds :
            k < rxAt'[r] => k < rxAt[r] \/ k = rxAt[r]
      BY <1>1, <3>1
    <3> QED
      BY <3>1, <3>2 DEF HandleInv
  <2> QED
    BY <2>1, <2>2, <2>3, <2>4, <2>5 DEF Receiver, NullReceive, StopReceiver
<1> QED
  BY <1>2, OtherReceivers DEF HandleInv

LEMMA OneRunStep ==
  ASSUME IndType, HandleInv, OneRunInv, NEW r \in Receivers, Receiver(r)
  PROVE  OneRunInv'
<1> SUFFICES ASSUME Smooth' PROVE OneRunInv'
  BY DEF OneRunInv
<1>1. /\ rx \in [Receivers -> {"off", "open", "receive"}]
      /\ rxAt \in [Receivers -> 1 .. 3] /\ Kinds = 1 .. 3
      /\ handle \in [Receivers -> [Kinds -> 0 .. runs]] /\ Smooth
  BY SmoothStep DEF IndType, RxType, Kinds, Next
<1>2. \A s, t \in Receivers : s = t \/ rx'[s] = "off" \/ rx'[t] = "off"
  <2>1. CASE StartReceiver(r)
    <3>1. \A s \in Receivers : rx[s] = "off"
      BY <2>1 DEF StartReceiver, Smooth
    <3> QED
      BY <3>1, OtherReceivers
  <2>2. CASE ~StartReceiver(r)
    <3>1. rx[r] # "off"
      BY <2>2
        DEF Receiver, OpenQueue, OpenFails, Receive, NullReceive, StopReceiver
    <3> QED
      BY <1>1, <3>1, OtherReceivers DEF OneRunInv
  <2> QED
    BY <2>1, <2>2
<1>3. \A k \in Kinds : handle'[r][k] # None => handle'[r][1] = handle'[r][k]
  <2>1. CASE GoOff(r)
    BY <1>1, <2>1 DEF GoOff
  <2>2. CASE OpenQueue(r)
    <3>1. /\ rx[r] = "open" /\ handle'[r][rxAt[r]] = named[rxAt[r]]
          /\ \A k \in Kinds : k # rxAt[r] => handle'[r][k] = handle[r][k]
          /\ rxAt[r] > 1 => named[rxAt[r]] = handle[r][1]
      BY <1>1, <2>2 DEF OpenQueue, Smooth
    <3>2. \A k \in Kinds : k > rxAt[r] => handle[r][k] = None
      BY <1>1, <3>1 DEF HandleInv
    <3> QED
      BY <1>1, <3>1, <3>2 DEF OneRunInv
  <2>3. CASE ~GoOff(r) /\ ~OpenQueue(r)
    <3>1. UNCHANGED handle
      BY <2>3
        DEF Receiver, StartReceiver, OpenFails, Receive, NullReceive,
            StopReceiver
    <3> QED
      BY <1>1, <3>1 DEF OneRunInv
  <2> QED
    BY <2>1, <2>2, <2>3
<1>4. \A s \in Receivers, k \in Kinds :
        handle'[s][k] # None => handle'[s][1] = handle'[s][k]
  BY <1>1, <1>3, OtherReceivers DEF OneRunInv
<1> QED
  BY <1>2, <1>4 DEF OneRunInv

-----------------------------------------------------------------------------
(* Names and handles.                                                      *)

(* No receiver's step gives a queue to anybody that was in nobody's use.   *)
LEMMA ReceiverHeld ==
  ASSUME IndType, NEW r \in Receivers, Receiver(r), NEW k \in Kinds,
         NEW i \in Runs, Held(k, i)'
  PROVE  Held(k, i)
<1>1. /\ handle \in [Receivers -> [Kinds -> 0 .. runs]]
      /\ UNCHANGED named /\ i # None
  BY RxSomStep DEF IndType, RxType, Runs, None
<1>2. CASE \E s \in Receivers : handle'[s][k] = i /\ handle[s][k] # i
  <2>1. handle'[r][k] = i /\ handle[r][k] # i
    BY <1>2, OtherReceivers
  <2>2. named[k] = i
    BY <1>1, <2>1
      DEF Receiver, StartReceiver, OpenQueue, OpenFails, Receive, NullReceive,
          StopReceiver, GoOff
  <2> QED
    BY <2>2 DEF Held
<1> QED
  BY <1>1, <1>2 DEF Held

(* What the SoM's steps do to the names.                                   *)
LEMMA NamesEffect ==
  ASSUME IndType, Som
  PROVE  /\ UNCHANGED rxVars /\ at \in 1 .. 3
         /\ \/ UNCHANGED named
            \/ /\ OpenOrCreate /\ named[at] = None
               /\ named' = [named EXCEPT ![at] = runs]
            \/ Remove /\ named' = [named EXCEPT ![at] = None]
<1>1. UNCHANGED rxVars /\ at \in 1 .. 3
  BY DEF IndType, SomInv, Kinds, Som, StartSom, OpenOrCreate, SendMessage,
         StopSom, Remove, KillSom
<1>2. CASE OpenOrCreate
  <2>1. CASE named[at] = None
    BY <1>1, <1>2, <2>1 DEF OpenOrCreate
  <2>2. CASE named[at] # None
    BY <1>1, <1>2, <2>2 DEF OpenOrCreate, IndType, OpenedInv
  <2> QED
    BY <2>1, <2>2
<1>3. CASE Remove
  BY <1>1, <1>3 DEF Remove
<1>4. CASE ~OpenOrCreate /\ ~Remove
  BY <1>1, <1>4 DEF Som, StartSom, SendMessage, StopSom, KillSom
<1> QED
  BY <1>2, <1>3, <1>4

LEMMA TogetherStep ==
  ASSUME IndType, GivenInv, TogetherInv, NewQueuesInv, Som
  PROVE  TogetherInv'
<1> SUFFICES ASSUME Smooth', NEW i \in Runs, NEW j \in Kinds, NEW k \in Kinds,
                    named'[j] = i, Held(k, i)', som' = "remove" => k >= at'
             PROVE  named'[k] = i
  BY DEF TogetherInv
<1>0. /\ at \in 1 .. 3 /\ Kinds = 1 .. 3 /\ Smooth /\ i # None
      /\ named \in [Kinds -> 0 .. runs]
  BY SmoothStep DEF IndType, SomInv, OpenedInv, Kinds, Next, Runs, None
<1>1. CASE /\ OpenOrCreate /\ named[at] = None
           /\ named' = [named EXCEPT ![at] = runs]
  <2>1. som = "init" /\ (Held(k, i) \/ (k = at /\ i = runs))
    BY <1>0, <1>1, NamesEffect DEF OpenOrCreate, Held, rxVars
  <2>2. CASE k = at /\ i = runs
    BY <1>0, <1>1, <2>2
  <2>3. CASE som = "init" /\ Held(k, i) /\ k # at /\ i = runs
    BY <1>0, <1>1, <2>3 DEF NewQueuesInv
  <2>4. CASE som = "init" /\ Held(k, i) /\ i # runs
    <3>1. named[j] = i
      BY <1>0, <1>1, <2>4
    <3>2. named[k] = i
      BY <1>0, <2>4, <3>1 DEF TogetherInv
    <3> QED
      BY <1>0, <1>1, <3>2
  <2> QED
    BY <1>1, <2>1, <2>2, <2>3, <2>4 DEF OpenOrCreate
<1>2. CASE Remove
  <2>0. named' = [named EXCEPT ![at] = None]
    BY <1>2 DEF Remove
  <2>1. j # at /\ named[j] = i /\ Held(k, i)
    BY <1>0, <2>0, NamesEffect DEF Held, rxVars
  <2>2. \/ at < 3 /\ at' = at + 1 /\ som' = "remove"
        \/ at = 3 /\ at' = 1 /\ som' = "down"
    BY <1>0, <1>2 DEF Remove, Advance
  <2>3. at < 3
    BY <1>0, <1>2, <2>1, <2>2 DEF GivenInv, Remove
  <2>4. named[k] = i /\ k > at
    BY <1>0, <2>1, <2>2, <2>3 DEF TogetherInv
  <2> QED
    BY <1>0, <2>0, <2>4
<1>3. CASE UNCHANGED named /\ ~Remove
  <2>1. named[j] = i /\ Held(k, i)
    BY <1>3, NamesEffect DEF Held, rxVars
  <2>2. som = "remove" => k >= at
    <3>1. CASE som = "remove" /\ KillSom
      BY <1>0, <3>1 DEF KillSom, Smooth
    <3> QED
      BY <1>3, <3>1 DEF Som, StartSom, OpenOrCreate, SendMessage, StopSom
  <2> QED
    BY <1>0, <1>3, <2>1, <2>2 DEF TogetherInv
<1> QED
  BY <1>1, <1>2, <1>3, NamesEffect

LEMMA TogetherReceiver ==
  ASSUME IndType, TogetherInv, NEW r \in Receivers, Receiver(r)
  PROVE  TogetherInv'
<1>1. Smooth' => Smooth
  BY SmoothStep DEF Next
<1> QED
  BY <1>1, RxSomStep, ReceiverHeld DEF TogetherInv

-----------------------------------------------------------------------------
(* What is pending.                                                        *)

LEMMA AppendMember ==
  ASSUME NEW S, NEW q \in Seq(S), NEW t \in S, NEW u
  PROVE  (\E n \in 1 .. Len(Append(q, t)) : Append(q, t)[n] = u)
           <=> (\E n \in 1 .. Len(q) : q[n] = u) \/ u = t
<1>1. /\ Len(Append(q, t)) = Len(q) + 1 /\ Len(q) \in Nat
      /\ \A n \in 1 .. Len(q) : Append(q, t)[n] = q[n]
      /\ Append(q, t)[Len(q) + 1] = t
  BY AppendProperties, LenProperties
<1>2. \A n \in 1 .. Len(q) + 1 : n = Len(q) + 1 \/ n \in 1 .. Len(q)
  BY <1>1
<1>3. /\ Len(q) + 1 \in 1 .. Len(q) + 1
      /\ \A n \in 1 .. Len(q) : n \in 1 .. Len(q) + 1
  BY <1>1
<1> QED
  BY <1>1, <1>2, <1>3

LEMMA TailMember ==
  ASSUME NEW S \in SUBSET Nat, NEW q \in Seq(S), q # <<>>, Increasing(q), NEW u
  PROVE  (\E n \in 1 .. Len(Tail(q)) : Tail(q)[n] = u)
           <=> (\E n \in 1 .. Len(q) : q[n] = u) /\ u # Head(q)
<1>1. /\ Len(Tail(q)) = Len(q) - 1 /\ Len(q) \in Nat /\ Head(q) = q[1]
      /\ Above(Tail(q), Head(q)) /\ 1 \in 1 .. Len(q)
      /\ \A n \in 1 .. Len(Tail(q)) :
           Tail(q)[n] = q[n + 1] /\ n + 1 \in 1 .. Len(q)
  BY TailOrder, HeadTailProperties, LenProperties
<1>2. \A n \in 1 .. Len(q) : q[n] \in Nat
  BY ElementOfSeq
<1>3. ASSUME NEW n \in 1 .. Len(Tail(q)), Tail(q)[n] = u
      PROVE  (\E m \in 1 .. Len(q) : q[m] = u) /\ u # Head(q)
  BY <1>1, <1>2, <1>3 DEF Above
<1>4. ASSUME NEW n \in 1 .. Len(q), q[n] = u, u # Head(q)
      PROVE  \E m \in 1 .. Len(Tail(q)) : Tail(q)[m] = u
  <2>1. n - 1 \in 1 .. Len(Tail(q)) /\ (n - 1) + 1 = n
    BY <1>1, <1>4
  <2> QED
    BY <1>1, <1>4, <2>1
<1> QED
  BY <1>3, <1>4

LEMMA SomPending ==
  ASSUME IndType, Som, ~SendMessage, Smooth', NEW k \in Kinds,
         NEW i \in Runs, NEW t
  PROVE  Pending(k, i, t)' <=> Pending(k, i, t)
<1>1. UNCHANGED <<queue, rx, rxAt, handle, got>> /\ at \in 1 .. 3
  BY DEF Som, StartSom, OpenOrCreate, StopSom, Remove, KillSom, rxVars,
         IndType, SomInv, Kinds
<1>2. (Queued(k, i, t)' <=> Queued(k, i, t)) /\ (Taken(k, i, t)' <=> Taken(k, i, t))
  BY <1>1 DEF Queued, Taken, TakenBy
<1>3. ~Unsent(k, i, t)
  BY <1>1 DEF Som, StartSom, OpenOrCreate, StopSom, Remove, KillSom, Unsent,
              Smooth
<1>4. ~Unsent(k, i, t)'
  BY <1>1 DEF Som, StartSom, OpenOrCreate, StopSom, Remove, KillSom, Unsent,
              Advance
<1> QED
  BY <1>2, <1>3, <1>4 DEF Pending

(* A turn is pending on all its queues as soon as its first message is     *)
(* sent.                                                                   *)
LEMMA SendPending ==
  ASSUME IndType, SendMessage, Smooth', NEW k \in Kinds, NEW i \in Runs, NEW t
  PROVE  Pending(k, i, t)'
           <=> Pending(k, i, t) \/ (at = 1 /\ opened[k] = i /\ t = turn')
<1>1. /\ at \in 1 .. 3 /\ k \in 1 .. 3 /\ opened[at] \in Runs
      /\ turn' \in 1 .. MaxTurns
      /\ queue[at][opened[at]] \in Seq(1 .. MaxTurns)
      /\ queue' = [queue EXCEPT ![at][opened[at]] =
                     Append(queue[at][opened[at]], turn')]
  <2>1. "full" \notin flaws'
    BY DEF Smooth
  <2>2. queue' = [queue EXCEPT ![at][opened[at]] =
                    Append(queue[at][opened[at]], turn')]
    BY <2>1 DEF SendMessage
  <2> QED
    BY <2>2, SendEffect DEF Kinds
<1>2. /\ UNCHANGED <<rx, rxAt, handle, got, opened>>
      /\ som = "send" /\ som' = "send"
      /\ turn' = IF at = 1 THEN turn + 1 ELSE turn
      /\ at' = IF at < 3 THEN at + 1 ELSE 1
  BY <1>1 DEF SendMessage, Advance, rxVars
<1>3. Taken(k, i, t)' <=> Taken(k, i, t)
  BY <1>2 DEF Taken, TakenBy
<1>4. Queued(k, i, t)'
        <=> Queued(k, i, t) \/ (k = at /\ i = opened[at] /\ t = turn')
  <2>1. CASE k = at /\ i = opened[at]
    <3>1. queue'[k][i] = Append(queue[k][i], turn')
      BY <1>1, <2>1 DEF IndType, QueueType, Kinds
    <3> QED
      BY <1>1, <2>1, <3>1, AppendMember DEF Queued
  <2>2. CASE ~(k = at /\ i = opened[at])
    <3>1. queue'[k][i] = queue[k][i]
      BY <1>1, <2>2 DEF IndType, QueueType, Kinds
    <3> QED
      BY <2>2, <3>1 DEF Queued
  <2> QED
    BY <2>1, <2>2
<1>5. Unsent(k, i, t)' <=> at < 3 /\ k > at /\ opened[k] = i /\ t = turn'
  BY <1>1, <1>2 DEF Unsent
<1>6. Unsent(k, i, t) <=> at > 1 /\ k >= at /\ opened[k] = i /\ t = turn'
  BY <1>1, <1>2 DEF Unsent
<1>7. k > at \/ k = at \/ k < at
  BY <1>1
<1> QED
  BY <1>1, <1>3, <1>4, <1>5, <1>6, <1>7 DEF Pending

(* A step of a receiver that is no receive leaves what is pending as it is. *)
LEMMA IdlePending ==
  ASSUME IndType, NEW r \in Receivers, Receiver(r), ~Receive(r), Smooth',
         NEW k \in Kinds, NEW i \in Runs, NEW t
  PROVE  Pending(k, i, t)' <=> Pending(k, i, t)
<1>1. /\ UNCHANGED <<queue, som, at, opened, turn>>
      /\ rx \in [Receivers -> {"off", "open", "receive"}]
      /\ rxAt \in [Receivers -> 1 .. 3] /\ k \in 1 .. 3
  BY DEF Receiver, StartReceiver, OpenQueue, OpenFails, NullReceive,
         StopReceiver, somVars, IndType, RxType, Kinds
<1>2. ~TakenBy(r, k, i, t)
  <2>1. rx[r] = "receive" => rxAt[r] = 1
    BY <1>1
      DEF Receiver, StartReceiver, OpenQueue, OpenFails, NullReceive,
          StopReceiver, Smooth
  <2> QED
    BY <1>1, <2>1 DEF TakenBy
<1>3. ~TakenBy(r, k, i, t)'
  <2>1. rx'[r] = "receive" => rxAt'[r] = 1
    BY <1>1
      DEF Receiver, StartReceiver, OpenQueue, OpenFails, NullReceive,
          StopReceiver, GoOff, AdvanceRx
  <2> QED
    BY <1>1, <2>1 DEF TakenBy
<1>4. Taken(k, i, t)' <=> Taken(k, i, t)
  BY <1>2, <1>3, OtherReceivers DEF Taken, TakenBy
<1> QED
  BY <1>1, <1>4 DEF Pending, Queued, Unsent

(* A receive, in full: message k goes from queue i into the round.         *)
Takes(r, k, i) ==
  /\ k = rxAt[r] /\ i = handle[r][k] /\ rx[r] = "receive"
  /\ UNCHANGED <<som, at, runs, turn, opened, named, handle, flaws>>
  /\ rx'[r] = "receive" /\ rxAt'[r] = IF k < 3 THEN k + 1 ELSE 1
  /\ queue[k][i] \in Seq(1 .. MaxTurns) /\ queue[k][i] # <<>>
  /\ Head(queue[k][i]) \in 1 .. MaxTurns
  /\ \A j \in Kinds, h \in Runs :
       queue'[j][h] = IF j = k /\ h = i THEN Tail(queue[k][i]) ELSE queue[j][h]
  /\ Len(got'[r]) = k /\ got'[r][k] = Head(queue[k][i])
  /\ k > 1 => Len(got[r]) = k - 1
  /\ \A n \in 1 .. k - 1 : got'[r][n] = got[r][n]
  /\ \A s \in Receivers : s # r =>
       rx'[s] = rx[s] /\ rxAt'[s] = rxAt[s] /\ got'[s] = got[s]

LEMMA TakesEffect ==
  ASSUME IndType, OrderInv, NEW r \in Receivers, Receive(r)
  PROVE  \E k \in Kinds, i \in Runs : Takes(r, k, i)
<1>1. PICK k \in Kinds, i \in Runs :
        /\ k = rxAt[r] /\ i = handle[r][k]
        /\ queue[k][i] \in Seq(1 .. MaxTurns) /\ queue[k][i] # <<>>
        /\ queue' = [queue EXCEPT ![k][i] = Tail(queue[k][i])]
        /\ got' = [got EXCEPT ![r] =
                     Append(IF k = 1 THEN <<>> ELSE got[r],
                            Head(queue[k][i]))]
  BY ReceiveEffect
<1> DEFINE base == IF k = 1 THEN <<>> ELSE got[r]
<1>2. /\ UNCHANGED <<som, at, runs, turn, opened, named, handle, flaws>>
      /\ rx[r] = "receive"
  BY DEF Receive, somVars
<1>3. rx'[r] = "receive" /\ rxAt'[r] = IF k < 3 THEN k + 1 ELSE 1
  BY <1>1, <1>2 DEF Receive, AdvanceRx, IndType, RxType
<1>4. Head(queue[k][i]) \in 1 .. MaxTurns
  BY <1>1, HeadTailProperties
<1>5. \A j \in Kinds, h \in Runs :
        queue'[j][h] = IF j = k /\ h = i THEN Tail(queue[k][i])
                       ELSE queue[j][h]
  BY <1>1 DEF IndType, QueueType
<1>6. k > 1 => Len(got[r]) = k - 1
  BY <1>1, <1>2 DEF OrderInv, PlaceInv
<1>7. base \in Seq(1 .. MaxTurns) /\ Len(base) = k - 1
  <2>1. CASE k = 1
    BY <2>1, EmptySeq
  <2>2. CASE k # 1
    BY <1>6, <2>2 DEF IndType, RxType, Kinds
  <2> QED
    BY <2>1, <2>2
<1>8. got'[r] = Append(base, Head(queue[k][i]))
  BY <1>1 DEF IndType, RxType
<1>9. /\ Len(got'[r]) = k /\ got'[r][k] = Head(queue[k][i])
      /\ \A n \in 1 .. k - 1 : got'[r][n] = base[n]
  BY <1>4, <1>7, <1>8, AppendProperties DEF Kinds
<1>10. \A n \in 1 .. k - 1 : base = got[r]
  BY DEF Kinds
<1>11. \A s \in Receivers : s # r =>
         rx'[s] = rx[s] /\ rxAt'[s] = rxAt[s] /\ got'[s] = got[s]
  BY OtherReceivers DEF Receiver
<1>12. Takes(r, k, i)
  BY <1>1, <1>2, <1>3, <1>4, <1>5, <1>6, <1>9, <1>10, <1>11 DEF Takes
<1> QED
  BY <1>12

(* The queue that is taken from, in order, and without the message.        *)
LEMMA TakenQueue ==
  ASSUME IndType, OrderInv, NEW r \in Receivers, NEW k \in Kinds,
         NEW i \in Runs, Takes(r, k, i)
  PROVE  LET q == queue[k][i]
         IN  /\ Queued(k, i, Head(q)) /\ Head(q) < Limit(k)
             /\ \A n \in 1 .. Len(q) : Head(q) <= q[n]
             /\ \A t : Queued(k, i, t)' <=> Queued(k, i, t) /\ t # Head(q)
<1> DEFINE q == queue[k][i]
<1>1. /\ q \in Seq(1 .. MaxTurns) /\ q # <<>> /\ queue'[k][i] = Tail(q)
      /\ Increasing(q) /\ Below(q, Limit(k)) /\ 1 .. MaxTurns \in SUBSET Nat
  BY Messages DEF Takes, OrderInv, QueueInv
<1>2. Head(q) = q[1] /\ 1 \in 1 .. Len(q) /\ Len(q) \in Nat
  BY <1>1, TailOrder, LenProperties
<1>3. \A n \in 1 .. Len(q) : q[n] \in Nat
  BY Messages
<1>4. \A n \in 1 .. Len(q) : Head(q) <= q[n]
  <2>1. \A n \in 1 .. Len(q) : n = 1 \/ 1 < n
    BY <1>2
  <2> QED
    BY <1>1, <1>2, <1>3, <2>1 DEF Increasing
<1>5. ASSUME NEW t
      PROVE  Queued(k, i, t)' <=> Queued(k, i, t) /\ t # Head(q)
  <2>1. (\E n \in 1 .. Len(Tail(q)) : Tail(q)[n] = t)
          <=> (\E n \in 1 .. Len(q) : q[n] = t) /\ t # Head(q)
    BY <1>1, TailMember
  <2> QED
    BY <1>1, <2>1 DEF Queued
<1> QED
  BY <1>1, <1>2, <1>4, <1>5 DEF Queued, Below
(* The message a round goes on with is from the turn it has begun with.    *)
LEMMA SameRound ==
  ASSUME IndType, OrderInv, FeedInv, Smooth, NEW r \in Receivers,
         NEW k \in Kinds, NEW i \in Runs, Takes(r, k, i), k > 1
  PROVE  Head(queue[k][i]) = got[r][1]
<1> DEFINE h == Head(queue[k][i])
           g == got[r][1]
<1>0. /\ k \in 2 .. 3 /\ 1 \in Kinds /\ i # None
      /\ rx[r] = "receive" /\ rxAt[r] = k /\ handle[r][k] = i
      /\ h \in 1 .. MaxTurns /\ turn \in Nat
      /\ at \in 1 .. 3
  BY LimitsAssumption DEF Takes, Kinds, Runs, None, IndType, SomInv
<1>1. handle[r][1] = i
  BY <1>0 DEF FeedInv, HoldInv, HandleInv, OneRunInv
<1>2. g \in 1 .. MaxTurns /\ 1 <= Len(got[r])
  <2>1. got[r] \in Seq(1 .. MaxTurns) /\ Len(got[r]) = k - 1
    BY <1>0 DEF Takes, IndType, RxType
  <2>2. 1 \in 1 .. Len(got[r])
    BY <1>0, <2>1
  <2>3. got[r][1] \in 1 .. MaxTurns
    BY <2>1, <2>2, ElementOfSeq
  <2> QED
    BY <1>0, <2>1, <2>3
<1>3. \A s \in Receivers : rx[s] = "receive" => s = r
  BY <1>0 DEF FeedInv, HoldInv, OneRunInv
<1>4. g < Limit(1) /\ Above(queue[1][i], g)
  BY <1>0, <1>1, <1>2 DEF OrderInv, TakenInv
<1>5. Held(1, i) /\ Held(k, i)
  BY <1>0, <1>1 DEF Held
<1>6. g <= h
  <2>1. Pending(1, i, h)
    BY <1>0, <1>5, TakenQueue DEF Pending, FeedInv, SameTurnsInv
  <2>2. ~Unsent(1, i, h)
    BY <1>0 DEF Unsent
  <2>3. Queued(1, i, h) => h > g
    BY <1>4 DEF Queued, Above
  <2>4. Taken(1, i, h) => h = g
    BY <1>3 DEF Taken, TakenBy
  <2> QED
    BY <1>0, <1>2, <2>1, <2>2, <2>3, <2>4 DEF Pending
<1>7. h <= g
  <2>1. Pending(k, i, g)
    <3>1. Pending(1, i, g)
      BY <1>0, <1>1 DEF Pending, Taken, TakenBy
    <3> QED
      BY <1>0, <1>2, <1>5, <3>1 DEF FeedInv, SameTurnsInv
  <2>2. ~Taken(k, i, g)
    BY <1>0, <1>3 DEF Taken, TakenBy
  <2>3. Queued(k, i, g) => h <= g
    BY TakenQueue DEF Queued
  <2>4. Unsent(k, i, g) => h < g
    BY <1>0, TakenQueue DEF Unsent, Limit
  <2> QED
    BY <1>0, <1>2, <2>1, <2>2, <2>3, <2>4 DEF Pending
<1> QED
  BY <1>0, <1>2, <1>6, <1>7

(* The last message of a round ends its turn; none before it does.         *)
LEMMA TakesPending ==
  ASSUME IndType, OrderInv, FeedInv, Smooth, NEW r \in Receivers,
         NEW k \in Kinds, NEW i \in Runs, Takes(r, k, i),
         NEW j \in Kinds, NEW h \in Runs, NEW t
  PROVE  Pending(j, h, t)'
           <=> Pending(j, h, t) /\ ~(k = 3 /\ h = i /\ t = got[r][1])
<1> DEFINE g == IF k = 1 THEN Head(queue[k][i]) ELSE got[r][1]
<1>0. /\ k \in 1 .. 3 /\ j \in 1 .. 3 /\ i # None
      /\ rx[r] = "receive" /\ rxAt[r] = k /\ handle[r][k] = i
      /\ rx'[r] = "receive" /\ rxAt'[r] = IF k < 3 THEN k + 1 ELSE 1
      /\ UNCHANGED <<som, at, opened, turn, handle>>
      /\ at \in 1 .. 3
  BY DEF Takes, Kinds, Runs, None, IndType, SomInv
<1>1. g = Head(queue[k][i]) /\ g = got'[r][1] /\ (k > 1 => g = got[r][1])
  <2>1. CASE k = 1
    BY <2>1 DEF Takes
  <2>2. CASE k > 1
    <3>1. Head(queue[k][i]) = got[r][1]
      BY <2>2, SameRound
    <3>2. 1 \in 1 .. k - 1
      BY <1>0, <2>2
    <3> QED
      BY <1>0, <2>2, <3>1, <3>2 DEF Takes
  <2> QED
    BY <1>0, <2>1, <2>2
<1> HIDE DEF g
<1>2. \A s \in Receivers : s # r => rx[s] = "off" /\ rx'[s] = "off"
  <2>1. \A s \in Receivers : s # r => rx[s] = "off"
    BY <1>0 DEF FeedInv, HoldInv, OneRunInv
  <2> QED
    BY <2>1 DEF Takes
<1>3. \A n \in Kinds : n <= k => handle[r][n] = i
  BY <1>0 DEF FeedInv, HoldInv, HandleInv, OneRunInv, Kinds
<1>4. Unsent(j, h, t)' <=> Unsent(j, h, t)
  BY <1>0 DEF Unsent
(* Only r has taken anything of a round that goes on.                      *)
<1>5. /\ Taken(j, h, t) <=> j < k /\ h = i /\ t = g
      /\ Taken(j, h, t)' <=> k < 3 /\ j <= k /\ h = i /\ t = g
  <2>1. Taken(j, h, t) <=> TakenBy(r, j, h, t)
    BY <1>2 DEF Taken, TakenBy
  <2>2. Taken(j, h, t)' <=> TakenBy(r, j, h, t)'
    BY <1>2 DEF Taken, TakenBy
  <2>3. TakenBy(r, j, h, t) <=> j < k /\ h = i /\ t = g
    BY <1>0, <1>1, <1>3 DEF TakenBy, Kinds
  <2>4. TakenBy(r, j, h, t)' <=> k < 3 /\ j <= k /\ h = i /\ t = g
    BY <1>0, <1>1, <1>3 DEF TakenBy, Kinds
  <2> QED
    BY <2>1, <2>2, <2>3, <2>4
<1>6. Queued(j, h, t)' <=> Queued(j, h, t) /\ ~(j = k /\ h = i /\ t = g)
  <2>1. CASE j = k /\ h = i
    BY <1>1, <2>1, TakenQueue
  <2>2. CASE ~(j = k /\ h = i)
    BY <2>2 DEF Takes, Queued
  <2> QED
    BY <2>1, <2>2
(* What has been taken is not in its queue, and has been sent.             *)
<1>7. j < k => ~Queued(j, i, g) /\ ~Unsent(j, i, g)
  <2> SUFFICES ASSUME j < k PROVE ~Queued(j, i, g) /\ ~Unsent(j, i, g)
    OBVIOUS
  <2>1. k > 1 /\ Len(got[r]) = k - 1 /\ j <= Len(got[r])
    BY <1>0 DEF Takes
  <2>2. got[r][j] = g /\ g < Limit(j) /\ Above(queue[j][i], g)
    <3>1. got[r][j] = got[r][1]
      BY <2>1 DEF FeedInv, OneTurnInv
    <3> QED
      BY <1>0, <1>1, <1>3, <2>1, <3>1 DEF OrderInv, TakenInv
  <2>3. g \in Nat
    BY <2>1, <2>2, TakenNat
  <2>4. ~Queued(j, i, g)
    BY <2>2, <2>3 DEF Queued, Above
  <2>5. ~Unsent(j, i, g)
    BY <2>2, <2>3 DEF Unsent, Limit
  <2> QED
    BY <2>4, <2>5
<1>8. Queued(k, i, g) /\ ~Unsent(k, i, g)
  <2>1. Queued(k, i, g) /\ g < Limit(k)
    BY <1>1, TakenQueue
  <2>2. g \in Nat
    BY <1>1, LimitsAssumption DEF Takes
  <2> QED
    BY <2>1, <2>2 DEF Unsent, Limit
<1>9. CASE k < 3
  BY <1>0, <1>4, <1>5, <1>6, <1>8, <1>9 DEF Pending
<1>10. CASE k = 3
  <2>1. g = got[r][1] /\ (j < k \/ j = k)
    BY <1>0, <1>1, <1>10
  <2>2. CASE h = i /\ t = g
    BY <1>4, <1>5, <1>6, <1>7, <1>8, <1>10, <2>1, <2>2 DEF Pending
  <2>3. CASE ~(h = i /\ t = g)
    BY <1>4, <1>5, <1>6, <1>10, <2>1, <2>3 DEF Pending
  <2> QED
    BY <2>2, <2>3
<1> QED
  BY <1>0, <1>9, <1>10
-----------------------------------------------------------------------------
(* The steps.                                                              *)

LEMMA SomNewQueues ==
  ASSUME IndType, FreshInv, FeedInv, Som PROVE NewQueuesInv'
<1> SUFFICES ASSUME Smooth', som' = "init", NEW i \in Runs, i = runs',
                    NEW k \in Kinds
             PROVE  /\ Held(k, i)' => named'[k] = i
                    /\ \A t \in 1 .. MaxTurns : ~Pending(k, i, t)'
  BY DEF NewQueuesInv
<1>0. /\ Smooth /\ UNCHANGED rxVars /\ runs \in Nat
      /\ handle \in [Receivers -> [Kinds -> 0 .. runs]]
      /\ named \in [Kinds -> 0 .. runs] /\ at \in Kinds
  <2>1. runs \in Nat
    BY LimitsAssumption DEF IndType, SomInv
  <2> QED
    BY <2>1, SmoothStep, NamesEffect
      DEF IndType, SomInv, OpenedInv, RxType, Next
<1>1. CASE StartSom
  <2>1. i = runs + 1 /\ UNCHANGED named /\ som = "down"
    BY <1>1 DEF StartSom
  <2>2. ~Held(k, i)'
    BY <1>0, <2>1 DEF Held, rxVars
  <2>3. queue[k][i] = <<>>
    BY <1>0, <2>1 DEF FreshInv, UnusedInv
  <2>4. \A t : ~Pending(k, i, t)
    BY <1>0, <2>1, <2>3, EmptySeq DEF Pending, Queued, Taken, TakenBy, Unsent
  <2>5. \A t : ~Pending(k, i, t)'
    BY <1>1, <2>4, SomPending DEF StartSom, SendMessage
  <2> QED
    BY <2>2, <2>5
<1>2. CASE OpenOrCreate
  <2>1. som = "init" /\ i = runs
    BY <1>2 DEF OpenOrCreate
  <2>2. Held(k, i)' => named'[k] = i
    BY <1>0, <1>2, <2>1, NamesEffect
      DEF Held, rxVars, FeedInv, NewQueuesInv, Remove
  <2>3. \A t \in 1 .. MaxTurns : ~Pending(k, i, t)
    BY <1>0, <2>1 DEF FeedInv, NewQueuesInv
  <2> QED
    BY <1>2, <2>1, <2>2, <2>3, SomPending DEF SendMessage
<1>3. CASE ~StartSom /\ ~OpenOrCreate
  BY <1>3 DEF Som, SendMessage, Advance, StopSom, Remove, KillSom
<1> QED
  BY <1>1, <1>2, <1>3

LEMMA ReceiverNewQueues ==
  ASSUME IndType, OrderInv, FeedInv, NEW r \in Receivers, Receiver(r)
  PROVE  NewQueuesInv'
<1> SUFFICES ASSUME Smooth', som' = "init", NEW i \in Runs, i = runs',
                    NEW k \in Kinds
             PROVE  /\ Held(k, i)' => named'[k] = i
                    /\ \A t \in 1 .. MaxTurns : ~Pending(k, i, t)'
  BY DEF NewQueuesInv
<1>0. Smooth /\ UNCHANGED <<som, runs, named>>
  BY SmoothStep, RxSomStep DEF Next
<1>1. Held(k, i)' => Held(k, i)
  BY ReceiverHeld
<1>2. ASSUME NEW t, Pending(k, i, t)' PROVE Pending(k, i, t)
  <2>1. CASE Receive(r)
    BY <1>0, <1>2, <2>1, TakesEffect, TakesPending
  <2>2. CASE ~Receive(r)
    BY <1>2, <2>2, IdlePending
  <2> QED
    BY <2>1, <2>2
<1> QED
  BY <1>0, <1>1, <1>2 DEF FeedInv, NewQueuesInv

LEMMA SomSameTurns ==
  ASSUME IndType, FeedInv, Som PROVE SameTurnsInv'
<1> SUFFICES ASSUME Smooth', NEW i \in Runs, NEW j \in Kinds, NEW k \in Kinds,
                    NEW t \in 1 .. MaxTurns,
                    Held(j, i)', Held(k, i)', Pending(j, i, t)'
             PROVE  Pending(k, i, t)'
  BY DEF SameTurnsInv
<1>0. Smooth /\ UNCHANGED rxVars /\ i # None
  BY SmoothStep, NamesEffect DEF Next, Runs, None
<1>1. CASE SendMessage
  <2>1. /\ som = "send" /\ UNCHANGED <<named, handle>>
        /\ \A n \in Kinds : opened[n] = named[n]
    BY <1>0, <1>1 DEF SendMessage, rxVars, FeedInv, HoldInv, GivenInv
  <2>2. Held(j, i) /\ Held(k, i)
    BY <2>1 DEF Held
  <2>3. CASE Pending(j, i, t)
    BY <1>0, <1>1, <2>2, <2>3, SendPending DEF FeedInv, SameTurnsInv
  <2>4. CASE at = 1 /\ opened[j] = i /\ t = turn'
    <3>1. opened[k] = i
      BY <1>0, <2>1, <2>2, <2>4 DEF FeedInv, TogetherInv
    <3> QED
      BY <1>1, <2>4, <3>1, SendPending
  <2> QED
    BY <1>1, <2>3, <2>4, SendPending
<1>2. CASE ~SendMessage
  <2>1. Pending(j, i, t) /\ (Pending(k, i, t) => Pending(k, i, t)')
    BY <1>2, SomPending
  <2>2. CASE Held(j, i) /\ Held(k, i)
    BY <1>0, <2>1, <2>2 DEF FeedInv, SameTurnsInv
  <2>3. CASE ~Held(j, i) \/ ~Held(k, i)
    <3>1. OpenOrCreate /\ i = runs /\ som = "init"
      <4>1. CASE UNCHANGED named
        BY <1>0, <2>3, <4>1 DEF Held, rxVars
      <4>2. CASE OpenOrCreate /\ named' = [named EXCEPT ![at] = runs]
        BY <1>0, <2>3, <4>2 DEF Held, rxVars, OpenOrCreate, IndType, OpenedInv
      <4>3. CASE Remove /\ named' = [named EXCEPT ![at] = None]
        BY <1>0, <2>3, <4>3 DEF Held, rxVars, IndType, OpenedInv
      <4> QED
        BY <4>1, <4>2, <4>3, NamesEffect
    <3> QED
      BY <1>0, <2>1, <3>1 DEF FeedInv, NewQueuesInv
  <2> QED
    BY <2>2, <2>3
<1> QED
  BY <1>1, <1>2

LEMMA ReceiverSameTurns ==
  ASSUME IndType, OrderInv, FeedInv, NEW r \in Receivers, Receiver(r)
  PROVE  SameTurnsInv'
<1> SUFFICES ASSUME Smooth', NEW i \in Runs, NEW j \in Kinds, NEW k \in Kinds,
                    NEW t \in 1 .. MaxTurns,
                    Held(j, i)', Held(k, i)', Pending(j, i, t)'
             PROVE  Pending(k, i, t)'
  BY DEF SameTurnsInv
<1>0. Smooth /\ Held(j, i) /\ Held(k, i)
  BY SmoothStep, ReceiverHeld DEF Next
<1>1. Pending(j, i, t) => Pending(k, i, t)
  BY <1>0 DEF FeedInv, SameTurnsInv
<1>2. CASE Receive(r)
  <2>1. PICK n \in Kinds, h \in Runs : Takes(r, n, h)
    BY <1>2, TakesEffect
  <2> QED
    BY <1>0, <1>1, <2>1, TakesPending
<1>3. CASE ~Receive(r)
  BY <1>1, <1>3, IdlePending
<1> QED
  BY <1>2, <1>3

LEMMA ReceiverOneTurn ==
  ASSUME IndType, OrderInv, FeedInv, NEW r \in Receivers, Receiver(r)
  PROVE  OneTurnInv'
<1> SUFFICES ASSUME Smooth', NEW s \in Receivers, NEW n \in Kinds,
                    n <= Len(got'[s])
             PROVE  got'[s][n] = got'[s][1]
  BY DEF OneTurnInv
<1>0. Smooth
  BY SmoothStep DEF Next
<1>1. CASE got'[s] = got[s]
  BY <1>0, <1>1 DEF FeedInv, OneTurnInv
<1>2. CASE got'[s] = <<>>
  BY <1>2, EmptySeq DEF Kinds
<1>3. CASE Receive(r) /\ s = r
  <2>1. PICK k \in Kinds, i \in Runs : Takes(r, k, i)
    BY <1>3, TakesEffect
  <2>2. k = 1 \/ k > 1
    BY DEF Kinds
  <2>3. CASE k = 1
    BY <1>3, <2>1, <2>3 DEF Takes, Kinds
  <2>4. CASE k > 1
    <3>1. got'[r][k] = got[r][1] /\ Len(got'[r]) = k /\ Len(got[r]) = k - 1
      BY <1>0, <2>1, <2>4, SameRound DEF Takes
    <3>2. 1 \in 1 .. k - 1 /\ (n = k \/ n \in 1 .. k - 1)
      BY <1>3, <2>4, <3>1 DEF Kinds
    <3>3. \A m \in 1 .. k - 1 : got'[r][m] = got[r][m]
      BY <2>1 DEF Takes
    <3>4. n \in 1 .. k - 1 => got[r][n] = got[r][1]
      BY <1>0, <3>1 DEF FeedInv, OneTurnInv, Kinds
    <3> QED
      BY <1>3, <3>1, <3>2, <3>3, <3>4
  <2> QED
    BY <2>2, <2>3, <2>4
<1>4. CASE ~Receive(r) /\ s = r
  <2>1. got'[r] = <<>> \/ got' = got
    BY <1>4
      DEF IndType, RxType, Receiver, StartReceiver, OpenQueue, OpenFails,
          NullReceive, StopReceiver, GoOff
  <2> QED
    BY <1>1, <1>2, <1>4, <2>1
<1> QED
  BY <1>1, <1>3, <1>4, OtherReceivers
LEMMA SomFeed ==
  ASSUME IndType, FreshInv, FeedInv, Som PROVE FeedInv'
<1>1. UNCHANGED rxVars
  BY NamesEffect
<1>2. Smooth' => Smooth
  BY SmoothStep DEF Next
<1>3. HandleInv' /\ OneRunInv' /\ OneTurnInv'
  BY <1>1, <1>2
    DEF rxVars, FeedInv, HoldInv, HandleInv, OneRunInv, OneTurnInv
<1>4. GivenInv' /\ TogetherInv'
  BY GivenStep, TogetherStep DEF FeedInv, HoldInv
<1> QED
  BY <1>3, <1>4, SomNewQueues, SomSameTurns DEF FeedInv, HoldInv

LEMMA ReceiverFeed ==
  ASSUME IndType, OrderInv, FeedInv, NEW r \in Receivers, Receiver(r)
  PROVE  FeedInv'
<1>1. HandleInv' /\ OneRunInv'
  BY HandleStep, OneRunStep DEF FeedInv, HoldInv
<1>2. GivenInv'
  BY RxSomStep DEF FeedInv, HoldInv, GivenInv
<1>3. TogetherInv'
  BY TogetherReceiver DEF FeedInv
<1> QED
  BY <1>1, <1>2, <1>3, ReceiverNewQueues, ReceiverSameTurns, ReceiverOneTurn
    DEF FeedInv, HoldInv

LEMMA StutterFeed == FeedInv /\ UNCHANGED vars => FeedInv'
BY DEF FeedInv, HoldInv, HandleInv, OneRunInv, GivenInv, TogetherInv,
       NewQueuesInv, SameTurnsInv, OneTurnInv, Smooth, Held, Pending, Queued,
       Taken, TakenBy, Unsent, vars, somVars, rxVars

LEMMA InitFeed == Init => FeedInv
<1> SUFFICES ASSUME Init PROVE FeedInv
  OBVIOUS
<1>1. HandleInv /\ OneRunInv /\ GivenInv /\ NewQueuesInv
  BY DEF Init, HandleInv, OneRunInv, GivenInv, NewQueuesInv
<1>2. \A k \in Kinds, i \in Runs : ~Held(k, i)
  BY DEF Init, Held, Runs, None
<1>3. OneTurnInv
  BY EmptySeq DEF Init, OneTurnInv, Kinds
<1> QED
  BY <1>1, <1>2, <1>3 DEF FeedInv, HoldInv, TogetherInv, SameTurnsInv

LEMMA FeedInvariant == Spec => []FeedInv
<1>1. IndType /\ OrderInv /\ FreshInv /\ FeedInv /\ [Next]_vars => FeedInv'
  BY SomFeed, ReceiverFeed, StutterFeed DEF Next
<1> QED
  BY <1>1, InitFeed, TypeInvariant, OrderInvariant, FreshInvariant, PTL
    DEF Spec

(* A round is of one turn, wherever a receiver starts into the three       *)
(* queues and however often either side ends and starts again.             *)
THEOREM RoundsCorrect == Spec => []RoundsAligned
<1>1. IndType /\ OrderInv /\ FeedInv => RoundsAligned
  <2> SUFFICES ASSUME IndType, OrderInv, OneTurnInv, Smooth, NEW r \in Receivers,
                      NEW m \in 1 .. Len(got[r]), NEW n \in 1 .. Len(got[r])
               PROVE  got[r][m] = got[r][n]
    BY DEF RoundsAligned, FeedInv
  <2>1. rx[r] \in {"off", "open", "receive"} /\ rxAt[r] \in 1 .. 3
    BY DEF IndType, RxType, Kinds
  <2>2. Len(got[r]) \in 0 .. 3
    <3>1. CASE rx[r] = "receive" /\ rxAt[r] = 1
      BY <3>1 DEF OrderInv, PlaceInv
    <3>2. CASE rx[r] = "receive" /\ rxAt[r] > 1
      <4>1. Len(got[r]) = rxAt[r] - 1
        BY <3>2 DEF OrderInv, PlaceInv
      <4> QED
        BY <2>1, <3>2, <4>1
    <3>3. CASE rx[r] # "receive"
      BY <3>3, EmptySeq DEF OrderInv, PlaceInv
    <3> QED
      BY <2>1, <3>1, <3>2, <3>3
  <2>3. m \in 1 .. 3 /\ n \in 1 .. 3 /\ m <= Len(got[r]) /\ n <= Len(got[r])
    <3>1. \A b \in 0 .. 3 : \A a \in 1 .. b : a \in 1 .. 3 /\ a <= b
      OBVIOUS
    <3> QED
      BY <2>2, <3>1
  <2> QED
    BY <2>3 DEF OneTurnInv, Kinds
<1> QED
  BY <1>1, TypeInvariant, OrderInvariant, FeedInvariant, PTL
-----------------------------------------------------------------------------
(* The refinement.                                                         *)

LEMMA SendRefines ==
  ASSUME IndType, SendMessage, Smooth'
  PROVE  [Rounds!Promised]_Rounds!vars
<1>0. Smooth /\ UNCHANGED got /\ at \in 1 .. 3
  BY SmoothStep DEF Next, Som, SendMessage, rxVars, IndType, SomInv, Kinds
<1>1. opened[at] \in Runs
  BY SendEffect
<1>2. queue' = [queue EXCEPT ![at][opened[at]] =
                  Append(queue[at][opened[at]], turn')]
  <2>1. "full" \notin flaws'
    BY DEF Smooth
  <2> QED
    BY <2>1 DEF SendMessage
<1>3. CASE at = 1
  <2>1. turn' = turn + 1
    BY <1>3 DEF SendMessage
  <2>2. queue'[1] = [queue[1] EXCEPT ![opened[1]] = Append(@, turn')]
    BY <1>2, <1>3 DEF IndType, QueueType, Kinds
  <2>3. Rounds!Publish
    BY <1>0, <1>1, <1>3, <2>1, <2>2 DEF Rounds!Publish
  <2> QED
    BY <1>0, <2>3 DEF Rounds!Promised
<1>4. CASE at # 1
  <2>1. turn' = turn /\ queue'[1] = queue[1]
    BY <1>0, <1>2, <1>4 DEF SendMessage, IndType, QueueType, Kinds
  <2> QED
    BY <1>0, <2>1 DEF Rounds!vars
<1> QED
  BY <1>3, <1>4

LEMMA ReceiveRefines ==
  ASSUME IndType, OrderInv, FeedInv, NEW r \in Receivers, Receive(r), Smooth'
  PROVE  [Rounds!Promised]_Rounds!vars
<1>0. Smooth
  BY SmoothStep DEF Next, Receiver
<1>1. PICK k \in Kinds, i \in Runs : Takes(r, k, i)
  BY TakesEffect
<1>2. CASE k = 1
  <2>1. Len(got[r]) \in {0, 3}
    BY <1>1, <1>2 DEF Takes, OrderInv, PlaceInv
  <2>2. queue[1][i] # <<>> /\ UNCHANGED turn
    BY <1>1, <1>2 DEF Takes
  <2>3. /\ queue' = [queue EXCEPT ![1][i] = Tail(queue[1][i])]
        /\ got' = [got EXCEPT ![r] = Append(<<>>, Head(queue[1][i]))]
    BY <1>1, <1>2 DEF Takes, Receive
  <2>4. queue'[1] = [queue[1] EXCEPT ![i] = Tail(@)]
    BY <2>3 DEF IndType, QueueType, Kinds
  <2>5. got' = [got EXCEPT ![r] = <<Head(queue[1][i])>>]
    BY <2>3
  <2>6. Rounds!Begin(r)
    BY <2>1, <2>2, <2>4, <2>5 DEF Rounds!Begin
  <2> QED
    BY <1>0, <2>6 DEF Rounds!Promised
<1>3. CASE k > 1
  <2>0. Len(got[r]) = k - 1 /\ k = rxAt[r] /\ i = handle[r][k]
    BY <1>1, <1>3 DEF Takes
  <2>1. Len(got[r]) \in 1 .. 2 /\ k \in 2 .. 3
    BY <1>3, <2>0 DEF Kinds
  <2>2. Head(queue[k][i]) = got[r][1]
    BY <1>0, <1>1, <1>3, SameRound
  <2>3. /\ queue' = [queue EXCEPT ![k][i] = Tail(queue[k][i])]
        /\ got' = [got EXCEPT ![r] = Append(got[r], Head(queue[k][i]))]
    <3>1. k # 1
      BY <2>1
    <3> QED
      BY <2>0, <3>1 DEF Receive
  <2>4. UNCHANGED turn /\ queue'[1] = queue[1]
    <3>1. k # 1 /\ UNCHANGED turn
      BY <1>1, <2>1 DEF Takes
    <3> QED
      BY <2>3, <3>1 DEF IndType, QueueType, Kinds
  <2>5. Rounds!Fill(r)
    <3>1. got' = [got EXCEPT ![r] = Append(got[r], got[r][1])]
      BY <2>2, <2>3
    <3> QED
      BY <2>1, <2>4, <3>1 DEF Rounds!Fill
  <2> QED
    BY <1>0, <2>5 DEF Rounds!Promised
<1> QED
  BY <1>2, <1>3 DEF Kinds
LEMMA OtherRefines ==
  ASSUME IndType, OrderInv, NEW r \in Receivers, Receiver(r), ~Receive(r),
         Smooth'
  PROVE  [Rounds!Promised]_Rounds!vars
<1>0. Smooth /\ UNCHANGED <<queue, turn>>
  <2>1. UNCHANGED queue
    BY DEF Receiver, StartReceiver, OpenQueue, OpenFails, NullReceive,
           StopReceiver
  <2> QED
    BY <2>1, SmoothStep, RxSomStep DEF Next
<1>1. CASE UNCHANGED got
  BY <1>0, <1>1 DEF Rounds!vars
<1>2. CASE got[r] = <<>> /\ GoOff(r)
  BY <1>0, <1>2 DEF GoOff, Rounds!vars, IndType, RxType
<1>3. CASE got[r] # <<>> /\ GoOff(r)
  <2>1. Len(got[r]) = 3
    <3>1. rx[r] = "receive"
      BY <1>3 DEF OrderInv, PlaceInv
    <3>2. ~(rxAt[r] > 1)
      <4>1. NullReceive(r) \/ StopReceiver(r)
        BY <3>1 DEF Receiver, StartReceiver, OpenQueue, OpenFails
      <4>2. "cut" \notin flaws'
        BY DEF Smooth
      <4> QED
        BY <1>3, <3>1, <4>1, <4>2 DEF NullReceive, StopReceiver
    <3>3. rxAt[r] \in 1 .. 3
      BY DEF IndType, RxType, Kinds
    <3>4. rxAt[r] = 1
      BY <3>2, <3>3
    <3> QED
      BY <1>3, <3>1, <3>4, EmptySeq DEF OrderInv, PlaceInv, IndType, RxType
  <2>2. Rounds!Leave(r)
    BY <1>0, <1>3, <2>1 DEF Rounds!Leave, GoOff
  <2> QED
    BY <1>0, <2>2 DEF Rounds!Promised
<1> QED
  BY <1>1, <1>2, <1>3
    DEF Receiver, StartReceiver, OpenQueue, OpenFails, NullReceive,
        StopReceiver

LEMMA SomRefines ==
  ASSUME IndType, Som, ~SendMessage, Smooth'
  PROVE  UNCHANGED Rounds!vars
<1>1. Smooth
  BY SmoothStep DEF Next
<1>2. UNCHANGED <<queue, got, turn>>
  BY DEF Som, StartSom, OpenOrCreate, StopSom, Remove, KillSom, rxVars
<1> QED
  BY <1>1, <1>2 DEF Rounds!vars

(* Sending and receiving, message by message, over queues that come and go *)
(* with the runs of the SoM, publishes and takes whole rounds and does     *)
(* nothing else, for any number of receivers, as long as all goes smoothly. *)
THEOREM RoundsRefined == Spec => ImplementsFeed
<1>1. Init => Rounds!Init
  BY DEF Init, Rounds!Init, Smooth, Kinds
<1>2. IndType /\ OrderInv /\ FeedInv /\ [Next]_vars => [Rounds!Next]_Rounds!vars
  <2> SUFFICES ASSUME IndType, OrderInv, FeedInv, [Next]_vars
               PROVE  [Rounds!Next]_Rounds!vars
    OBVIOUS
  <2>1. CASE ~Smooth'
    BY <2>1 DEF Rounds!Next
  <2>2. CASE Smooth' /\ Next
    <3>1. CASE Som
      BY <2>2, <3>1, SendRefines, SomRefines DEF Rounds!Next
    <3>2. ASSUME NEW r \in Receivers, Receiver(r)
          PROVE  [Rounds!Next]_Rounds!vars
      BY <2>2, <3>2, ReceiveRefines, OtherRefines DEF Rounds!Next
    <3> QED
      BY <2>2, <3>1, <3>2 DEF Next
  <2>3. CASE UNCHANGED vars
    BY <2>3 DEF vars, somVars, rxVars, Smooth, Rounds!vars
  <2> QED
    BY <2>1, <2>2, <2>3
<1> QED
  BY <1>1, <1>2, TypeInvariant, OrderInvariant, FeedInvariant, PTL
    DEF Spec, ImplementsFeed, Rounds!Spec
=============================================================================
