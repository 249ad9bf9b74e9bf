------------------------------ MODULE Station ------------------------------
(***************************************************************************)
(* The control station: TelemetryThread takes rounds of telemetry and      *)
(* emits them, the event loop of the GUI thread handles what was emitted,  *)
(* and handleMessages moves the instruments.  Where the rounds come from   *)
(* is Feed, what telemetry promises to one receiver at a time.  With pc    *)
(* at the same queues meanwhile the feed is spoilt and nothing is promised *)
(* ("shared" of Telemetry), so the station has the feed for itself here.   *)
(*                                                                         *)
(* Angles are in quarter turns (roll) and degrees (pitch), positions in    *)
(* tenths; NaN is what the arithmetic of doubles makes of it.              *)
(***************************************************************************)
EXTENDS Integers, Sequences

CONSTANTS
  Rolls, Pitches,  \* the angles an AttitudeMessage can hold
  Garbage,         \* what a double nobody initialised can hold
  NaN,             \* not a number
  MaxTurns         \* bound: turns of the SoM's loop

ASSUME StationAssumption ==
  /\ NaN \notin Int /\ MaxTurns \in Nat
  /\ Rolls \subseteq (0 .. 3) \cup {NaN}
  /\ Pitches \subseteq Int \cup {NaN} /\ Garbage \subseteq Int \cup {NaN}

VARIABLES
  feed, turn, round, spoilt,  \* of Feed
  sent,      \* the attitude of each turn
  posted,    \* rounds emitted and not yet handled
  shown,     \* the round on display: the turn of each of its messages
  face,      \* where the artificial horizon is, from where it began
  old,       \* m_oldXPosition, m_oldYPosition
  window,    \* the window and what becomes of the process
  began,     \* history: what old was at the beginning
  poisoned   \* history: coordinates that have ever been given a NaN

feedVars == <<feed, turn, round, spoilt>>
display == <<shown, face, old, poisoned>>
vars == <<feedVars, sent, posted, display, window, began>>

Receivers == {"station"}
Parts == 3
Source == INSTANCE Feed WITH Feeds <- {1}

Coordinates == {1, 2}

Init ==
  /\ Source!Init
  /\ sent = <<>> /\ posted = <<>> /\ shown = <<0, 0, 0>>
  /\ face = <<0, 0>>
  /\ old \in [Coordinates -> Garbage] /\ began = old
  /\ poisoned = {c \in Coordinates : old[c] = NaN}
  /\ window = "open"

(* The SoM sends a turn.                                                   *)
Publish ==
  /\ turn < MaxTurns
  /\ Source!Publish
  /\ \E roll \in Rolls, pitch \in Pitches :
       sent' = Append(sent, [roll |-> roll, pitch |-> pitch])
  /\ UNCHANGED <<spoilt, posted, display, window, began>>

(* TelemetryThread::run: three messages, one after the other, and emit.    *)
Running == window # "aborted"

Receive ==
  /\ Running
  /\ \/ round["station"] = <<>> /\ Source!Begin("station")
     \/ Source!Fill("station")
  /\ UNCHANGED <<spoilt, sent, posted, display, window, began>>

(* Mutant: emitted before the onboard message is there.                    *)
Emit_Early ==
  /\ Running
  /\ Len(round["station"]) = 2
  /\ posted' = Append(posted, Append(round["station"], 0))
  /\ round' = [round EXCEPT !["station"] = <<>>]
  /\ UNCHANGED <<feed, turn, spoilt, sent, display, window, began>>

Emit ==
  /\ Running
  /\ Source!Leave("station")
  /\ posted' = Append(posted, round["station"])
  /\ UNCHANGED <<spoilt, sent, display, window, began>>

-----------------------------------------------------------------------------
(* AttitudeIndicator.                                                      *)
Plus(a, b) == IF NaN \in {a, b} THEN NaN ELSE a + b
Minus(a, b) == IF NaN \in {a, b} THEN NaN ELSE a - b

Sin == [q \in 0 .. 3 |-> <<0, 1, 0, -1>>[q + 1]]
Cos == [q \in 0 .. 3 |-> <<1, 0, -1, 0>>[q + 1]]

(* Mutant: only the upper limit of the pitch is looked at.                 *)
Clamp_OneSided(pitch) == IF pitch > 30 THEN 30 ELSE pitch

Clamp(pitch) ==
  IF pitch > 30 THEN 30 ELSE IF pitch < -30 THEN -30 ELSE pitch

(* newX and newY, 1.7 units for a degree; a NaN passes the clamp.          *)
Target(attitude) ==
  IF NaN \in {attitude.roll, attitude.pitch} THEN <<NaN, NaN>>
  ELSE LET delta == 17 * Clamp(attitude.pitch)
       IN  <<delta * Sin[attitude.roll], delta * Cos[attitude.roll]>>

Move(new, from) ==
  face' = <<Plus(face[1], Minus(new[1], from[1])),
            Minus(face[2], Minus(new[2], from[2]))>>

(* Mutants: the old position is overwritten first; the last event posted   *)
(* is handled first; a round is handled only if it is the only one.        *)
Show_OldFirst ==
  /\ window = "open" /\ posted # <<>>
  /\ posted' = Tail(posted) /\ shown' = Head(posted)
  /\ old' = Target(sent[shown'[2]])
  /\ Move(old', old')
  /\ poisoned' = poisoned \cup {c \in Coordinates : old'[c] = NaN}
  /\ UNCHANGED <<feedVars, sent, window, began>>

Show_LastFirst ==
  /\ window = "open" /\ posted # <<>>
  /\ posted' = SubSeq(posted, 1, Len(posted) - 1)
  /\ shown' = posted[Len(posted)]
  /\ old' = Target(sent[shown'[2]]) /\ Move(old', old)
  /\ poisoned' = poisoned \cup {c \in Coordinates : old'[c] = NaN}
  /\ UNCHANGED <<feedVars, sent, window, began>>

Show_OnlyOne ==
  /\ window = "open" /\ Len(posted) = 1
  /\ posted' = <<>> /\ shown' = Head(posted)
  /\ old' = Target(sent[shown'[2]]) /\ Move(old', old)
  /\ poisoned' = poisoned \cup {c \in Coordinates : old'[c] = NaN}
  /\ UNCHANGED <<feedVars, sent, window, began>>

(* handleMessages, on the GUI thread: labels, then the instruments.        *)
Show ==
  /\ window = "open" /\ posted # <<>>
  /\ posted' = Tail(posted) /\ shown' = Head(posted)
  /\ old' = Target(sent[shown'[2]]) /\ Move(old', old)
  /\ poisoned' = poisoned \cup {c \in Coordinates : old'[c] = NaN}
  /\ UNCHANGED <<feedVars, sent, window, began>>

(* The user closes the window and exec() returns; main then destroys a     *)
(* thread that never ends, upon which Qt aborts the process.               *)
Close ==
  /\ window = "open"
  /\ window' = "closed"
  /\ UNCHANGED <<feedVars, sent, posted, display, began>>

Abort ==
  /\ window = "closed"
  /\ window' = "aborted"
  /\ UNCHANGED <<feedVars, sent, posted, display, began>>

Next == Publish \/ Receive \/ Emit \/ Show \/ Close \/ Abort

Spec == Init /\ [][Next]_vars

(* Both threads run on; nobody has to send or to close.                    *)
FairSpec ==
  Spec /\ WF_vars(Receive) /\ WF_vars(Emit) /\ WF_vars(Show) /\ WF_vars(Abort)

-----------------------------------------------------------------------------
TypeOK ==
  /\ Len(sent) = turn /\ turn \in 0 .. MaxTurns
  /\ window \in {"open", "closed", "aborted"}
  /\ \A i \in DOMAIN posted : posted[i][2] \in 1 .. turn
  /\ \A c \in Coordinates :
       shown # <<0, 0, 0>> => old[c] \in (-510 .. 510) \cup {NaN}

(* The labels, the horizon and the onboard data on display are of one turn *)
(* of the control loop, and so is every round on its way to the display.   *)
OneTurnShown ==
  \A r \in {shown} \cup {posted[i] : i \in DOMAIN posted} :
    r[1] = r[2] /\ r[2] = r[3]

(* The display never goes back to an earlier turn, although rounds wait in *)
(* two queues on their way, the feed's and that of posted events.          *)
NeverBack == [][shown' = shown \/ shown'[1] > shown[1]]_vars

(* setAttitude moves by differences.  They add up: however many there were *)
(* the horizon is where the attitude on display belongs, off by what the   *)
(* two members, which no constructor sets, held at the beginning.  After   *)
(* one NaN it is nowhere for good.                                         *)
HorizonTracks ==
  shown # <<0, 0, 0>> =>
    LET now == Target(sent[shown[2]])
    IN  /\ face[1] = IF 1 \in poisoned THEN NaN ELSE now[1] - began[1]
        /\ face[2] = IF 2 \in poisoned THEN NaN ELSE began[2] - now[2]

(* What the station has begun to take it will show, unless it is closed.   *)
DisplayCatchesUp ==
  \A t \in 1 .. MaxTurns :
    round["station"] # <<>> /\ round["station"][1] = t
      ~> shown[1] >= t \/ window # "open"
=============================================================================
