----------------------------- MODULE Telemetry -----------------------------
(***************************************************************************)
(* Telemetry over named message queues in shared memory: the transmitter   *)
(* in the SoM's process (TelemetryTransmitterMQ, called by SomController), *)
(* and its receivers (TelemetryReceiverMQ), which are processes of their   *)
(* own: impl/src/pc/main.cpp and the control station's TelemetryThread.    *)
(*                                                                         *)
(* sendTelemetry sends one message of each kind, and so does a receiver    *)
(* take them; what a receiver has taken in one round it shows together.  A *)
(* queue outlives its name: who has it open goes on using it after its     *)
(* removal.  A message is known by the turn of sendTelemetry it is from.   *)
(*                                                                         *)
(* boost::interprocess is external: open_or_create, open_only, try_send,   *)
(* receive and remove are each one atomic step.                            *)
(***************************************************************************)
EXTENDS Integers, Sequences

CONSTANTS
  Receivers,   \* processes that may receive
  Stations,    \* those that run TelemetryThread; the others run pc's main
  Capacity,    \* c_messageQueueSize
  MaxRuns,     \* bound: starts of the SoM's process
  MaxTurns     \* bound: calls of sendTelemetry

ASSUME ReceiversAssumption == Stations \subseteq Receivers
ASSUME CapacityAssumption == Capacity \in Nat \ {0}
ASSUME LimitsAssumption == MaxRuns \in Nat /\ MaxTurns \in Nat

VARIABLES
  som,     \* what the SoM's process is doing with its queues
  at,      \* the kind it does it to
  runs,    \* starts of the SoM's process
  turn,    \* calls of sendTelemetry begun
  first,   \* turns of earlier runs
  named,   \* the queue that each name stands for, by the run that created it
  opened,  \* the queues the SoM's process has open
  queue,   \* contents of each queue
  rx,      \* what each receiver is doing
  rxAt,    \* the kind it does it to
  handle,  \* the queues it has open
  got,     \* what it has taken in this round, which it shows when complete
  flaws    \* history: what has happened that can upset a round

somVars == <<som, at, runs, turn, first, opened>>
rxVars == <<rx, rxAt, handle, got>>
vars == <<somVars, named, queue, rxVars, flaws>>

(* The three kinds, in the order in which all sides go through them.       *)
Kinds == 1 .. 3     \* debug, attitude, onboard
None == 0
Runs == 1 .. MaxRuns

Running == som # "down"

Init ==
  /\ som = "down" /\ at = 1 /\ runs = 0 /\ turn = 0 /\ first = 0
  /\ named = [k \in Kinds |-> None] /\ opened = [k \in Kinds |-> None]
  /\ queue = [k \in Kinds |-> [i \in Runs |-> <<>>]]
  /\ rx = [r \in Receivers |-> "off"] /\ rxAt = [r \in Receivers |-> 1]
  /\ handle = [r \in Receivers |-> [k \in Kinds |-> None]]
  /\ got = [r \in Receivers |-> <<>>]
  /\ flaws = {}

-----------------------------------------------------------------------------
(* The transmitter.                                                        *)

(* To the next kind, or from the last one to what comes after.             *)
Advance(after) ==
  IF at < 3 THEN at' = at + 1 /\ UNCHANGED som ELSE at' = 1 /\ som' = after

StartSom ==
  /\ som = "down" /\ runs < MaxRuns
  /\ som' = "init" /\ at' = 1 /\ runs' = runs + 1 /\ first' = turn
  /\ opened' = [k \in Kinds |-> None]
  /\ UNCHANGED <<turn, named, queue, rxVars, flaws>>

(* Mutant: a name that stands for a queue is left unopened.                *)
OpenOrCreate_CreateOnly ==
  /\ som = "init"
  /\ named' = [named EXCEPT ![at] = IF @ = None THEN runs ELSE @]
  /\ opened' = [opened EXCEPT ![at] = IF named[at] = None THEN runs ELSE None]
  /\ Advance("send")
  /\ UNCHANGED <<runs, turn, first, queue, rxVars, flaws>>

(* init: open_or_create takes a queue as it finds it.                      *)
OpenOrCreate ==
  /\ som = "init"
  /\ named' = [named EXCEPT ![at] = IF @ = None THEN runs ELSE @]
  /\ opened' = [opened EXCEPT ![at] = named'[at]]
  /\ Advance("send")
  /\ UNCHANGED <<runs, turn, first, queue, rxVars, flaws>>

(* Mutant: send, which waits for room, in the place of try_send.           *)
SendMessage_Waits ==
  /\ som = "send" /\ (at = 1 => turn < MaxTurns)
  /\ turn' = IF at = 1 THEN turn + 1 ELSE turn
  /\ Len(queue[at][opened[at]]) < Capacity
  /\ queue' = [queue EXCEPT ![at][opened[at]] = Append(@, turn')]
  /\ Advance("send")
  /\ UNCHANGED <<runs, first, opened, named, rxVars, flaws>>

(* Mutant: a message is sent until the queue is full.                      *)
SendMessage_Repeats ==
  /\ som = "send" /\ (at = 1 => turn < MaxTurns)
  /\ turn' = IF at = 1 THEN turn + 1 ELSE turn
  /\ \/ /\ Len(queue[at][opened[at]]) < Capacity
        /\ queue' = [queue EXCEPT ![at][opened[at]] = Append(@, turn')]
        /\ UNCHANGED <<som, at, flaws>>
     \/ /\ Len(queue[at][opened[at]]) >= Capacity
        /\ flaws' = flaws \cup {"full"} /\ UNCHANGED queue
        /\ Advance("send")
  /\ UNCHANGED <<runs, first, opened, named, rxVars>>

(* Mutant: a message that finds its queue full ends the turn.              *)
SendMessage_GivesUp ==
  /\ som = "send" /\ (at = 1 => turn < MaxTurns)
  /\ turn' = IF at = 1 THEN turn + 1 ELSE turn
  /\ \/ /\ Len(queue[at][opened[at]]) < Capacity
        /\ queue' = [queue EXCEPT ![at][opened[at]] = Append(@, turn')]
        /\ at' = IF at < 3 THEN at + 1 ELSE 1
     \/ /\ Len(queue[at][opened[at]]) >= Capacity
        /\ at' = 1 /\ UNCHANGED queue
  /\ UNCHANGED <<som, runs, first, opened, named, rxVars, flaws>>

(* Mutant: a message has priority over those before it.                    *)
SendMessage_Urgent ==
  /\ som = "send" /\ (at = 1 => turn < MaxTurns)
  /\ turn' = IF at = 1 THEN turn + 1 ELSE turn
  /\ \/ /\ Len(queue[at][opened[at]]) < Capacity
        /\ queue' = [queue EXCEPT ![at][opened[at]] = <<turn'>> \o @]
        /\ UNCHANGED flaws
     \/ /\ Len(queue[at][opened[at]]) >= Capacity
        /\ flaws' = flaws \cup {"full"} /\ UNCHANGED queue
  /\ Advance("send")
  /\ UNCHANGED <<runs, first, opened, named, rxVars>>

(* sendTelemetry, one message after the other: try_send drops what finds   *)
(* its queue full, and the next kind has its turn all the same.            *)
SendMessage ==
  /\ som = "send" /\ (at = 1 => turn < MaxTurns)
  /\ turn' = IF at = 1 THEN turn + 1 ELSE turn
  /\ \/ /\ Len(queue[at][opened[at]]) < Capacity
        /\ queue' = [queue EXCEPT ![at][opened[at]] = Append(@, turn')]
        /\ UNCHANGED flaws
     \/ /\ Len(queue[at][opened[at]]) >= Capacity
        /\ flaws' = flaws \cup {"full"} /\ UNCHANGED queue
  /\ Advance("send")
  /\ UNCHANGED <<runs, first, opened, named, rxVars>>

(* The SoM's destructor runs between two turns.                            *)
StopSom ==
  /\ som = "send" /\ at = 1
  /\ som' = "remove"
  /\ UNCHANGED <<at, runs, turn, first, opened, named, queue, rxVars, flaws>>

(* Mutant: the onboard queue is not removed.                               *)
Remove_NotLast ==
  /\ som = "remove"
  /\ named' = [named EXCEPT ![at] = IF at = 3 THEN @ ELSE None]
  /\ Advance("down")
  /\ UNCHANGED <<runs, turn, first, opened, queue, rxVars, flaws>>

Remove ==
  /\ som = "remove"
  /\ named' = [named EXCEPT ![at] = None]
  /\ Advance("down")
  /\ UNCHANGED <<runs, turn, first, opened, queue, rxVars, flaws>>

(* The process ends without its destructors: RCPLANE_ASSERT's exit(1), an  *)
(* uncaught exception, a signal.  Everything stays where it is.            *)
KillSom ==
  /\ Running
  /\ som' = "down" /\ at' = 1
  /\ flaws' = flaws \cup {"killed"}
              \cup IF som # "init" /\ at > 1 THEN {"cut"} ELSE {}
  /\ UNCHANGED <<runs, turn, first, opened, named, queue, rxVars>>

-----------------------------------------------------------------------------
(* The receivers.                                                          *)

(* The process ends, and what it has open and has taken ends with it.      *)
GoOff(r) ==
  /\ rx' = [rx EXCEPT ![r] = "off"] /\ rxAt' = [rxAt EXCEPT ![r] = 1]
  /\ handle' = [handle EXCEPT ![r] = [k \in Kinds |-> None]]
  /\ got' = [got EXCEPT ![r] = <<>>]

StartReceiver(r) ==
  /\ rx[r] = "off"
  /\ rx' = [rx EXCEPT ![r] = "open"]
  /\ flaws' = flaws \cup IF \E s \in Receivers : rx[s] # "off"
                         THEN {"shared"} ELSE {}
  /\ UNCHANGED <<somVars, named, queue, rxAt, handle, got>>

AdvanceRx(r) ==
  /\ rxAt' = [rxAt EXCEPT ![r] = IF @ < 3 THEN @ + 1 ELSE 1]
  /\ rx' = [rx EXCEPT ![r] = IF rxAt[r] < 3 THEN @ ELSE "receive"]

(* init: open_only, one name after the other.  A queue may be removed, and *)
(* another be created, between two of them.                                *)
OpenQueue(r) ==
  /\ rx[r] = "open" /\ named[rxAt[r]] # None
  /\ handle' = [handle EXCEPT ![r][rxAt[r]] = named[rxAt[r]]]
  /\ AdvanceRx(r)
  /\ flaws' = flaws \cup IF rxAt[r] > 1 /\ named[rxAt[r]] # handle[r][1]
                         THEN {"mixed"} ELSE {}
  /\ UNCHANGED <<somVars, named, queue, got>>

(* Mutant: pc's main, too, goes on when init has failed.                   *)
OpenFails_Ignored(r) ==
  /\ rx[r] = "open" /\ named[rxAt[r]] = None
  /\ rx' = [rx EXCEPT ![r] = "receive"] /\ rxAt' = [rxAt EXCEPT ![r] = 1]
  /\ UNCHANGED <<somVars, named, queue, handle, got, flaws>>

(* pc's main ends with exit(1) when init has failed; TelemetryThread goes  *)
(* on with the queues it has.                                              *)
OpenFails(r) ==
  /\ rx[r] = "open" /\ named[rxAt[r]] = None
  /\ \/ /\ r \in Stations
        /\ rx' = [rx EXCEPT ![r] = "receive"] /\ rxAt' = [rxAt EXCEPT ![r] = 1]
        /\ UNCHANGED <<handle, got>>
     \/ r \notin Stations /\ GoOff(r)
  /\ UNCHANGED <<somVars, named, queue, flaws>>

(* Mutant: try_receive for all but the debug message; a kind that has none *)
(* keeps the message of the round before, here None.                       *)
Receive_Tries(r) ==
  /\ rx[r] = "receive" /\ handle[r][rxAt[r]] # None
  /\ LET k == rxAt[r]
         i == handle[r][k]
         round == IF k = 1 THEN <<>> ELSE got[r]
     IN  \/ /\ queue[k][i] # <<>>
            /\ queue' = [queue EXCEPT ![k][i] = Tail(@)]
            /\ got' = [got EXCEPT ![r] = Append(round, Head(queue[k][i]))]
         \/ /\ k > 1 /\ queue[k][i] = <<>> /\ UNCHANGED queue
            /\ got' = [got EXCEPT ![r] = Append(round, None)]
  /\ AdvanceRx(r)
  /\ UNCHANGED <<somVars, named, handle, flaws>>

(* A receive waits for its queue, and for no other.                        *)
Receive(r) ==
  /\ rx[r] = "receive" /\ handle[r][rxAt[r]] # None
  /\ LET k == rxAt[r]
         i == handle[r][k]
     IN  /\ queue[k][i] # <<>>
         /\ queue' = [queue EXCEPT ![k][i] = Tail(@)]
         /\ got' = [got EXCEPT ![r] =
                      Append(IF k = 1 THEN <<>> ELSE @, Head(queue[k][i]))]
  /\ AdvanceRx(r)
  /\ UNCHANGED <<somVars, named, handle, flaws>>

(* TelemetryThread receives through a pointer that init has never set; the *)
(* control station dies of it, with what it has taken.                     *)
NullReceive(r) ==
  /\ rx[r] = "receive" /\ handle[r][rxAt[r]] = None
  /\ GoOff(r)
  /\ flaws' = flaws \cup IF rxAt[r] > 1 THEN {"cut"} ELSE {}
  /\ UNCHANGED <<somVars, named, queue>>

(* The user closes the receiver.                                           *)
StopReceiver(r) ==
  /\ rx[r] # "off"
  /\ GoOff(r)
  /\ flaws' = flaws \cup IF rx[r] = "receive" /\ rxAt[r] > 1
                         THEN {"cut"} ELSE {}
  /\ UNCHANGED <<somVars, named, queue>>

-----------------------------------------------------------------------------
Som ==
  \/ StartSom \/ OpenOrCreate \/ SendMessage \/ StopSom \/ Remove \/ KillSom

Receiver(r) ==
  \/ StartReceiver(r) \/ OpenQueue(r) \/ OpenFails(r)
  \/ Receive(r) \/ NullReceive(r) \/ StopReceiver(r)

Next == Som \/ \E r \in Receivers : Receiver(r)

Spec == Init /\ [][Next]_vars

(* A process that is not waiting runs on; nobody has to start one, or to   *)
(* stop it, and the control loop may be at its last turn.                  *)
Fairness ==
  /\ WF_vars(OpenOrCreate) /\ WF_vars(SendMessage) /\ WF_vars(Remove)
  /\ \A r \in Receivers : /\ WF_vars(OpenQueue(r)) /\ WF_vars(OpenFails(r))
                         /\ WF_vars(Receive(r)) /\ WF_vars(NullReceive(r))

FairSpec == Spec /\ Fairness

-----------------------------------------------------------------------------
(* The types; and that the SoM sends through queues it has opened.         *)
TypeOK ==
  /\ som \in {"down", "init", "send", "remove"} /\ at \in Kinds
  /\ som \in {"send", "remove"} => \A k \in Kinds : opened[k] # None
  /\ runs \in 0 .. MaxRuns /\ turn \in 0 .. MaxTurns /\ first \in 0 .. turn
  /\ named \in [Kinds -> 0 .. runs] /\ opened \in [Kinds -> 0 .. runs]
  /\ queue \in [Kinds -> [Runs -> Seq(1 .. MaxTurns)]]
  /\ rx \in [Receivers -> {"off", "open", "receive"}]
  /\ rxAt \in [Receivers -> Kinds]
  /\ handle \in [Receivers -> [Kinds -> 0 .. runs]]
  /\ got \in [Receivers -> Seq(1 .. MaxTurns)]
  /\ flaws \subseteq {"full", "killed", "cut", "shared", "mixed"}

(* No queue has been full, no process has ended in mid-round, no two have  *)
(* received, none has opened queues of different runs.                     *)
Smooth == flaws \subseteq {"killed"}

(* What a receiver takes in one round is from one turn of the control      *)
(* loop as long as all has gone smoothly: late starts of a receiver and    *)
(* restarts of either side, an unclean one of the SoM between two turns    *)
(* included, do not upset it.                                              *)
RoundsAligned ==
  Smooth =>
    \A r \in Receivers :
      \A m, n \in 1 .. Len(got[r]) : got[r][m] = got[r][n]

(* Whatever has happened, restarts onto a queue of an earlier run and full *)
(* queues included: each queue holds messages in the order of their turns, *)
(* none twice, no more than it has room for, and newer ones only than what *)
(* any receiver has taken from it.  So two receivers share the feed, and   *)
(* no message reaches both.                                                *)
InOrder ==
  \A k \in Kinds, i \in Runs :
    LET q == queue[k][i]
    IN  /\ Len(q) <= Capacity
        /\ \A m, n \in 1 .. Len(q) : m < n => q[m] < q[n]
        /\ \A r \in Receivers, n \in 1 .. Len(q) :
             handle[r][k] = i /\ k <= Len(got[r]) => got[r][k] < q[n]

(* A receiver that looks at the result of init never receives through a    *)
(* queue it does not have, however its init and a restart of the SoM       *)
(* overlap.                                                                *)
CheckedOpen ==
  \A r \in Receivers \ Stations :
    rx[r] = "receive" => \A k \in Kinds : handle[r][k] # None

(* Unless the SoM was killed, a queue holds messages of its own run only.  *)
FreshQueues ==
  "killed" \notin flaws /\ som = "send" =>
    \A k \in Kinds : \A n \in 1 .. Len(queue[k][opened[k]]) :
      queue[k][opened[k]][n] > first

(* A receiver that is slow, stuck or not there never holds up the SoM's    *)
(* control loop in the middle of sendTelemetry.                            *)
SendNeverBlocks == som = "send" /\ at > 1 ~> at = 1

(* A receiver that has taken a debug message gets the other two, or ends,  *)
(* whether or not the SoM goes on: it hangs at the start of a round only.  *)
RoundCompletes ==
  \A r \in Receivers :
    rx[r] = "receive" /\ rxAt[r] > 1 /\ Smooth
      ~> rxAt[r] = 1 \/ rx[r] = "off" \/ ~Smooth

-----------------------------------------------------------------------------
(* The three queues are one feed of whole rounds: a turn is published when *)
(* its debug message is sent, and taken when that message is.              *)
Rounds == INSTANCE Feed WITH
  Feeds <- Runs, Parts <- 3,
  feed <- queue[1], round <- got, spoilt <- ~Smooth

(* As long as all goes smoothly, sendTelemetry and the receive calls, with *)
(* their six separate steps on three queues that come and go with the      *)
(* SoM's runs, do no more than publish and take whole rounds in order.     *)
ImplementsFeed == Rounds!Spec
=============================================================================
