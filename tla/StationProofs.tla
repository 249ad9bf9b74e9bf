--------------------------- MODULE StationProofs ---------------------------
(***************************************************************************)
(* Proofs, for any angles, any garbage and any number of turns, of what    *)
(* the control station shows.                                              *)
(***************************************************************************)
EXTENDS Station, SequenceTheorems, TLAPS

Attitudes == [roll : Rolls, pitch : Pitches]
Values == Int \cup {NaN}

(* A receiver has some parts of one published round, or none.              *)
Parted(s, n) ==
  s = <<>> \/ \E t \in 1 .. n : s \in {<<t>>, <<t, t>>, <<t, t, t>>}

(* Whatever is on its way is a turn that was published.                    *)
CountInv == turn \in Nat /\ sent \in Seq(Attitudes) /\ Len(sent) = turn
FeedInv ==
  /\ DOMAIN feed = {1} /\ feed[1] \in Seq(Nat)
  /\ \A i \in 1 .. Len(feed[1]) : feed[1][i] \in 1 .. turn
RoundInv ==
  DOMAIN round = Receivers /\ \A r \in Receivers : Parted(round[r], turn)
PostInv ==
  /\ posted \in Seq(Seq(Nat))
  /\ \A i \in 1 .. Len(posted) : \E t \in 1 .. turn : posted[i] = <<t, t, t>>
ShownInv == shown = <<0, 0, 0>> \/ \E t \in 1 .. turn : shown = <<t, t, t>>
WayInv == CountInv /\ FeedInv /\ RoundInv /\ PostInv /\ ShownInv

(* From the display back to the SoM, turns only grow.                      *)
Held == round["station"] # <<>>
FeedRises ==
  \A i, j \in 1 .. Len(feed[1]) : i < j => feed[1][i] < feed[1][j]
PostedRises ==
  \A i, j \in 1 .. Len(posted) : i < j => posted[i][1] < posted[j][1]
FeedAhead ==
  \A i \in 1 .. Len(feed[1]) :
    /\ shown[1] < feed[1][i]
    /\ Held => round["station"][1] < feed[1][i]
    /\ \A j \in 1 .. Len(posted) : posted[j][1] < feed[1][i]
PostedAhead ==
  \A j \in 1 .. Len(posted) :
    /\ shown[1] < posted[j][1]
    /\ Held => posted[j][1] < round["station"][1]
RoundAhead == Held => shown[1] < round["station"][1]
OrderInv == FeedRises /\ PostedRises /\ FeedAhead /\ PostedAhead /\ RoundAhead

(* Each coordinate has only moved by differences, or is lost.              *)
FaceInv ==
  /\ DOMAIN old = Coordinates /\ face = <<face[1], face[2]>>
  /\ \A c \in Coordinates \ poisoned : old[c] \in Int /\ began[c] \in Int
  /\ 1 \notin poisoned => face[1] = old[1] - began[1]
  /\ 2 \notin poisoned => face[2] = began[2] - old[2]
  /\ \A c \in Coordinates \cap poisoned :
       face[c] = NaN \/ (shown = <<0, 0, 0>> /\ old[c] = NaN)
  /\ shown # <<0, 0, 0>> => old = Target(sent[shown[2]])

-----------------------------------------------------------------------------
(* The position of the horizon is within 51 units, or not a number.        *)
LEMMA TargetRange ==
  ASSUME NEW a \in Attitudes
  PROVE  /\ DOMAIN Target(a) = Coordinates
         /\ \A c \in Coordinates : Target(a)[c] \in (-510 .. 510) \cup {NaN}
<1>1. CASE NaN \in {a.roll, a.pitch}
  BY <1>1 DEF Target, Coordinates
<1>2. CASE NaN \notin {a.roll, a.pitch}
  <2>1. a.roll \in 0 .. 3 /\ a.pitch \in Int
    BY <1>2, StationAssumption DEF Attitudes
  <2>2. Clamp(a.pitch) \in -30 .. 30
    BY <2>1 DEF Clamp
  <2> DEFINE delta == 17 * Clamp(a.pitch)
  <2>3. delta \in -510 .. 510
    BY <2>2
  <2>4. Sin[a.roll] \in {-1, 0, 1} /\ Cos[a.roll] \in {-1, 0, 1}
    BY <2>1 DEF Sin, Cos
  <2>5. Target(a) = <<delta * Sin[a.roll], delta * Cos[a.roll]>>
    BY <1>2 DEF Target
  <2> HIDE DEF delta
  <2>6. ASSUME NEW s \in {-1, 0, 1} PROVE delta * s \in -510 .. 510
    <3>1. CASE s = -1 BY <2>3, <3>1
    <3>2. CASE s = 0 BY <2>3, <3>2
    <3>3. CASE s = 1 BY <2>3, <3>3
    <3> QED BY <3>1, <3>2, <3>3
  <2> QED
    BY <2>4, <2>5, <2>6 DEF Coordinates
<1> QED
  BY <1>1, <1>2

-----------------------------------------------------------------------------
(* How long the parts of a round are, and what one more makes of them.     *)
LEMMA PartsOfRound ==
  ASSUME NEW t \in Nat
  PROVE  /\ Len(<<t>>) = 1 /\ Len(<<t, t>>) = 2
         /\ Append(<<t>>, t) = <<t, t>> /\ Append(<<t, t>>, t) = <<t, t, t>>
<1>1. /\ <<t>> \in Seq(Nat) /\ <<t, t>> \in Seq(Nat) /\ <<t, t, t>> \in Seq(Nat)
  OBVIOUS
<1>2. Len(<<t>>) = 1
  OBVIOUS
<1>3. Len(<<t, t>>) = 2
  OBVIOUS
<1>4. Len(<<t, t, t>>) = 3
  OBVIOUS
<1>5. Append(<<t>>, t) = <<t, t>>
  <2>1. /\ Append(<<t>>, t) \in Seq(Nat) /\ Len(Append(<<t>>, t)) = 2
        /\ Append(<<t>>, t)[1] = t /\ Append(<<t>>, t)[2] = t
    BY <1>1, <1>2, AppendProperties
  <2>2. \A i \in 1 .. 2 : Append(<<t>>, t)[i] = <<t, t>>[i]
    BY <2>1
  <2> QED
    BY <1>1, <1>3, <2>1, <2>2, SeqEqual
<1>6. Append(<<t, t>>, t) = <<t, t, t>>
  <2>1. /\ Append(<<t, t>>, t) \in Seq(Nat) /\ Len(Append(<<t, t>>, t)) = 3
        /\ Append(<<t, t>>, t)[1] = t /\ Append(<<t, t>>, t)[2] = t
        /\ Append(<<t, t>>, t)[3] = t
    BY <1>1, <1>3, AppendProperties
  <2>2. \A i \in 1 .. 3 : Append(<<t, t>>, t)[i] = <<t, t, t>>[i]
    BY <2>1
  <2> QED
    BY <1>1, <1>4, <2>1, <2>2, SeqEqual
<1> QED
  BY <1>2, <1>3, <1>5, <1>6

LEMMA ThreeParts ==
  ASSUME NEW s, Len(s) = 3, NEW t \in Nat
  PROVE  s # <<>> /\ s # <<t>> /\ s # <<t, t>>
<1>1. Len(<<>>) # 3
  OBVIOUS
<1>2. Len(<<t>>) # 3 /\ Len(<<t, t>>) # 3
  BY PartsOfRound
<1> QED
  BY <1>1, <1>2, Zenon

LEMMA InitHolds == Init => WayInv /\ OrderInv /\ FaceInv
<1> SUFFICES ASSUME Init PROVE WayInv /\ OrderInv /\ FaceInv
  OBVIOUS
<1>1. WayInv
  <2>1. CountInv
    BY DEF WayInv, CountInv, Parted, Init, Source!Init
  <2>2. FeedInv
    BY DEF WayInv, FeedInv, Parted, Init, Source!Init
  <2>3. RoundInv
    BY DEF WayInv, RoundInv, Parted, Init, Source!Init
  <2>4. PostInv
    BY DEF WayInv, PostInv, Parted, Init, Source!Init
  <2>5. ShownInv
    BY DEF WayInv, ShownInv, Parted, Init, Source!Init
  <2> QED
    BY <2>1, <2>2, <2>3, <2>4, <2>5 DEF WayInv, FeedInv, RoundInv, PostInv
<1>2. OrderInv
  BY DEF Init, Source!Init, Receivers, OrderInv, FeedRises, PostedRises,
         FeedAhead, PostedAhead, RoundAhead, Held
<1>3. FaceInv
  <2>1. /\ DOMAIN old = Coordinates /\ face = <<0, 0>> /\ began = old
        /\ shown = <<0, 0, 0>> /\ \A c \in Coordinates : old[c] \in Values
        /\ poisoned = {c \in Coordinates : old[c] = NaN}
    BY StationAssumption DEF Init, Values
  <2>2. \A c \in Coordinates \ poisoned : old[c] \in Int /\ began[c] \in Int
    BY <2>1 DEF Values
  <2>3. /\ 1 \notin poisoned => old[1] \in Int
        /\ 2 \notin poisoned => old[2] \in Int
    BY <2>2 DEF Coordinates
  <2> QED
    BY <2>1, <2>2, <2>3 DEF FaceInv
<1> QED
  BY <1>1, <1>2, <1>3

(* The station takes its round off the feed, part by part.                 *)
LEMMA TakeSteps ==
  ASSUME WayInv, OrderInv,
         \/ round["station"] = <<>> /\ Source!Begin("station")
         \/ Source!Fill("station"),
         UNCHANGED <<sent, posted, shown>>
  PROVE  WayInv' /\ OrderInv'
<1>1. CASE round["station"] = <<>> /\ Source!Begin("station")
  <2>1. /\ feed[1] # <<>> /\ feed' = [feed EXCEPT ![1] = Tail(@)]
        /\ round' = [round EXCEPT !["station"] = <<Head(feed[1])>>] /\ turn' = turn
    BY <1>1 DEF Source!Begin
  <2>2. /\ feed'[1] = Tail(feed[1]) /\ Len(feed'[1]) = Len(feed[1]) - 1
        /\ \A i \in 1 .. Len(feed'[1]) : feed'[1][i] = feed[1][i + 1]
        /\ Len(feed[1]) \in Nat \ {0} /\ Head(feed[1]) = feed[1][1]
    BY <2>1 DEF WayInv, FeedInv, RoundInv, PostInv
  <2>3. WayInv'
    <3>1. CountInv'
      BY <2>1, <2>2 DEF WayInv, CountInv
    <3>2. FeedInv'
      BY <2>1, <2>2 DEF WayInv, CountInv, FeedInv
    <3>3. RoundInv'
      <4>1. feed[1][1] \in 1 .. turn
        BY <2>2 DEF WayInv, FeedInv
      <4>2. Parted(<<feed[1][1]>>, turn)
        BY <4>1 DEF Parted
      <4>3. \A q \in Receivers : round'[q] \in {round[q], <<feed[1][1]>>}
        BY <2>1, <2>2 DEF WayInv, RoundInv
      <4> QED
        BY <2>1, <4>2, <4>3 DEF WayInv, RoundInv
    <3>4. PostInv'
      BY <2>1, <2>2 DEF WayInv, CountInv, PostInv
    <3>5. ShownInv'
      BY <2>1, <2>2 DEF WayInv, CountInv, ShownInv
    <3> QED
      BY <3>1, <3>2, <3>3, <3>4, <3>5 DEF WayInv, FeedInv, RoundInv, PostInv
  <2>4. round["station"] = <<>> /\ round'["station"] = <<feed[1][1]>>
    BY <1>1, <2>1, <2>2 DEF WayInv, RoundInv, Receivers
  <2>5. OrderInv'
    <3>1. FeedRises'
      <4> SUFFICES ASSUME NEW i \in 1 .. Len(feed'[1]), NEW j \in 1 .. Len(feed'[1]),
                          i < j
                   PROVE  feed'[1][i] < feed'[1][j]
        BY DEF FeedRises
      <4>1. /\ i + 1 \in 1 .. Len(feed[1]) /\ j + 1 \in 1 .. Len(feed[1])
            /\ i + 1 < j + 1
        BY <2>2
      <4>2. feed[1][i + 1] < feed[1][j + 1]
        BY <4>1 DEF OrderInv, FeedRises
      <4> QED
        BY <2>2, <4>2
    <3>2. PostedRises'
      BY DEF OrderInv, PostedRises
    <3>3. FeedAhead'
      BY <2>2, <2>4 DEF OrderInv, FeedAhead, FeedRises, WayInv, FeedInv, Held
    <3>4. PostedAhead'
      BY <2>2, <2>4 DEF OrderInv, PostedAhead, FeedAhead, WayInv, FeedInv, Held
    <3>5. RoundAhead'
      BY <2>2, <2>4 DEF OrderInv, RoundAhead, FeedAhead, WayInv, FeedInv, Held
    <3> QED
      BY <3>1, <3>2, <3>3, <3>4, <3>5 DEF OrderInv
  <2> QED
    BY <2>3, <2>5, Zenon
<1>2. CASE Source!Fill("station")
  <2>1. /\ Len(round["station"]) \in 1 .. 2 /\ UNCHANGED <<feed, turn>>
        /\ round' = [round EXCEPT !["station"] = Append(@, @[1])]
    BY <1>2 DEF Source!Fill, Parts
  <2>2. PICK t \in 1 .. turn : round["station"] \in {<<t>>, <<t, t>>}
    BY <2>1 DEF WayInv, RoundInv, Parted, Receivers
  <2>3. round'["station"] \in {<<t, t>>, <<t, t, t>>}
    <3>1. round'["station"] = Append(round["station"], round["station"][1])
      BY <2>1 DEF WayInv, RoundInv, Receivers
    <3>2. t \in Nat
      BY DEF WayInv, CountInv
    <3>3. CASE round["station"] = <<t>>
      BY <3>1, <3>2, <3>3, PartsOfRound
    <3>4. CASE round["station"] = <<t, t>>
      <4>1. round["station"][1] = t
        BY <3>4
      <4>2. Append(<<t, t>>, t) = <<t, t, t>>
        BY <3>2, PartsOfRound
      <4> QED
        BY <3>1, <3>4, <4>1, <4>2
    <3> QED
      BY <2>2, <3>3, <3>4
  <2>4. WayInv'
    <3>1. CountInv'
      BY <2>1, <2>3 DEF WayInv, CountInv
    <3>2. FeedInv'
      BY <2>1, <2>3 DEF WayInv, CountInv, FeedInv
    <3>3. RoundInv'
      BY <2>1, <2>3 DEF WayInv, CountInv, RoundInv, Parted
    <3>4. PostInv'
      BY <2>1, <2>3 DEF WayInv, CountInv, PostInv
    <3>5. ShownInv'
      BY <2>1, <2>3 DEF WayInv, CountInv, ShownInv
    <3> QED
      BY <3>1, <3>2, <3>3, <3>4, <3>5 DEF WayInv, FeedInv, RoundInv, PostInv
  <2>5. /\ round'["station"] # <<>> => round["station"] # <<>>
        /\ round["station"] # <<>> => round'["station"][1] = round["station"][1]
    BY <2>1, <2>2, <2>3 DEF WayInv, FeedInv, RoundInv, PostInv
  <2>6. OrderInv'
    <3>1. FeedRises'
      BY <2>1, <2>5 DEF OrderInv, FeedRises
    <3>2. PostedRises'
      BY <2>1, <2>5 DEF OrderInv, PostedRises
    <3>3. FeedAhead'
      BY <2>1, <2>5 DEF OrderInv, FeedAhead, Held
    <3>4. PostedAhead'
      BY <2>1, <2>5 DEF OrderInv, PostedAhead, Held
    <3>5. RoundAhead'
      BY <2>1, <2>5 DEF OrderInv, RoundAhead, Held
    <3> QED
      BY <3>1, <3>2, <3>3, <3>4, <3>5 DEF OrderInv
  <2> QED
    BY <2>4, <2>6
<1> QED
  BY <1>1, <1>2

LEMMA PublishSteps ==
  ASSUME WayInv, OrderInv, Publish
  PROVE  WayInv' /\ OrderInv'
<1>1. /\ turn' = turn + 1 /\ feed' = [feed EXCEPT ![1] = Append(@, turn')]
      /\ UNCHANGED <<round, posted, shown>>
  BY DEF Publish, Source!Publish, display
<1>2. PICK a \in Attitudes : sent' = Append(sent, a)
  BY DEF Publish, Attitudes
<1>3. /\ feed'[1] = Append(feed[1], turn + 1)
      /\ Len(feed'[1]) = Len(feed[1]) + 1
      /\ \A i \in 1 .. Len(feed[1]) : feed'[1][i] = feed[1][i]
      /\ feed'[1][Len(feed[1]) + 1] = turn + 1 /\ Len(feed[1]) \in Nat
  BY <1>1 DEF WayInv, FeedInv, RoundInv, PostInv
<1>4. WayInv'
  <2>1. CountInv'
    BY <1>1, <1>2, <1>3 DEF WayInv, CountInv
  <2>2. FeedInv'
    BY <1>1, <1>2, <1>3 DEF WayInv, CountInv, FeedInv
  <2>3. RoundInv'
    BY <1>1, <1>2, <1>3 DEF WayInv, CountInv, RoundInv, Parted
  <2>4. PostInv'
    <3>1. turn \in Nat /\ turn' = turn + 1 /\ posted' = posted
      BY <1>1 DEF WayInv, CountInv
    <3>2. \A t \in 1 .. turn : t \in 1 .. turn'
      BY <3>1
    <3> QED
      BY <3>1, <3>2 DEF WayInv, PostInv
  <2>5. ShownInv'
    BY <1>1, <1>2, <1>3 DEF WayInv, CountInv, ShownInv
  <2> QED
    BY <2>1, <2>2, <2>3, <2>4, <2>5 DEF WayInv, FeedInv, RoundInv, PostInv
<1>5. /\ shown[1] <= turn /\ \A i \in 1 .. Len(posted) : posted[i][1] <= turn
      /\ round["station"] # <<>> => round["station"][1] <= turn
  BY DEF WayInv, RoundInv, CountInv, PostInv, ShownInv, Parted, Receivers
<1>6. OrderInv'
  <2>1. turn \in Nat /\ \A i \in 1 .. Len(feed[1]) : feed[1][i] < turn + 1
    BY DEF WayInv, CountInv, FeedInv
  <2>2. /\ shown[1] < turn + 1 /\ \A i \in 1 .. Len(posted) : posted[i][1] < turn + 1
        /\ round["station"] # <<>> => round["station"][1] < turn + 1
    BY <1>5, <2>1 DEF WayInv, ShownInv, PostInv, RoundInv, Parted, Receivers
  <2>3. \A i \in 1 .. Len(feed'[1]) :
          i \in 1 .. Len(feed[1]) \/ i = Len(feed[1]) + 1
    BY <1>3
  <2>4. \A i, j \in 1 .. Len(feed'[1]) : i < j => feed'[1][i] < feed'[1][j]
    BY <1>3, <2>1, <2>3 DEF OrderInv, FeedRises
  <2>5. FeedAhead'
    BY <1>1, <1>3, <2>2, <2>3 DEF OrderInv, FeedAhead, Held
  <2> QED
    BY <1>1, <2>4, <2>5
    DEF OrderInv, FeedRises, PostedRises, PostedAhead, RoundAhead, Held
<1> QED
  BY <1>4, <1>6

LEMMA EmitSteps ==
  ASSUME WayInv, OrderInv, Emit
  PROVE  WayInv' /\ OrderInv'
<1>1. /\ Len(round["station"]) = 3 /\ round' = [round EXCEPT !["station"] = <<>>]
      /\ posted' = Append(posted, round["station"])
      /\ UNCHANGED <<feed, turn, sent, shown>>
  BY DEF Emit, Source!Leave, Parts, display
<1>2. PICK t \in 1 .. turn : round["station"] = <<t, t, t>>
  <2>1. Parted(round["station"], turn)
    BY DEF WayInv, RoundInv, Receivers
  <2>2. round["station"] # <<>>
    BY <1>1, ThreeParts
  <2>3. PICK u \in 1 .. turn :
          round["station"] \in {<<u>>, <<u, u>>, <<u, u, u>>}
    BY <2>1, <2>2 DEF Parted
  <2>4. u \in Nat
    BY DEF WayInv, CountInv
  <2>5. round["station"] # <<u>> /\ round["station"] # <<u, u>>
    BY <1>1, <2>4, ThreeParts
  <2>6. round["station"] = <<u, u, u>>
    BY <2>3, <2>5
  <2> QED
    BY <2>3, <2>6
<1>3. /\ Len(posted') = Len(posted) + 1 /\ Len(posted) \in Nat
      /\ \A i \in 1 .. Len(posted) : posted'[i] = posted[i]
      /\ posted'[Len(posted) + 1] = <<t, t, t>>
  BY <1>1, <1>2 DEF WayInv, FeedInv, RoundInv, PostInv
<1>4. posted' \in Seq(Seq(Nat))
  BY <1>1, <1>2 DEF WayInv, FeedInv, RoundInv, PostInv
<1>5. WayInv'
  <2>1. CountInv'
    BY <1>1, <1>3, <1>4 DEF WayInv, CountInv
  <2>2. FeedInv'
    BY <1>1, <1>3, <1>4 DEF WayInv, CountInv, FeedInv
  <2>3. RoundInv'
    BY <1>1, <1>3, <1>4 DEF WayInv, CountInv, RoundInv, Parted
  <2>4. PostInv'
    <3>1. \A i \in 1 .. Len(posted') :
            i \in 1 .. Len(posted) \/ i = Len(posted) + 1
      BY <1>3
    <3> QED
      BY <1>1, <1>3, <1>4, <3>1 DEF WayInv, PostInv
  <2>5. ShownInv'
    BY <1>1, <1>3, <1>4 DEF WayInv, CountInv, ShownInv
  <2> QED
    BY <2>1, <2>2, <2>3, <2>4, <2>5 DEF WayInv, FeedInv, RoundInv, PostInv
<1>6. round'["station"] = <<>>
  BY <1>1 DEF WayInv, RoundInv, Receivers
<1>7. \A j \in 1 .. Len(posted') : j \in 1 .. Len(posted) \/ j = Len(posted) + 1
  BY <1>3
<1>8. posted'[Len(posted) + 1][1] = t /\ round["station"][1] = t /\ Held /\ ~Held'
  BY <1>2, <1>3, <1>6 DEF Held
<1>9. OrderInv'
  <2>1. FeedRises'
    BY <1>1 DEF OrderInv, FeedRises
  <2>2. PostedRises'
    <3> SUFFICES ASSUME NEW i \in 1 .. Len(posted'), NEW j \in 1 .. Len(posted'),
                        i < j
                 PROVE  posted'[i][1] < posted'[j][1]
      BY DEF PostedRises
    <3>1. i \in 1 .. Len(posted)
      BY <1>3
    <3>2. CASE j \in 1 .. Len(posted)
      BY <1>3, <3>1, <3>2 DEF OrderInv, PostedRises
    <3>3. CASE j = Len(posted) + 1
      BY <1>3, <1>8, <3>1, <3>3 DEF OrderInv, PostedAhead
    <3> QED
      BY <1>7, <3>2, <3>3
  <2>3. FeedAhead'
    BY <1>1, <1>3, <1>7, <1>8 DEF OrderInv, FeedAhead, Held
  <2>4. PostedAhead'
    BY <1>1, <1>3, <1>7, <1>8 DEF OrderInv, PostedAhead, RoundAhead, Held
  <2>5. RoundAhead'
    BY <1>8 DEF OrderInv, RoundAhead, Held
  <2> QED
    BY <2>1, <2>2, <2>3, <2>4, <2>5 DEF OrderInv
<1> QED
  BY <1>5, <1>9

LEMMA ShowSteps ==
  ASSUME WayInv, OrderInv, Show
  PROVE  WayInv' /\ OrderInv' /\ shown'[1] > shown[1]
<1>1. /\ posted # <<>> /\ posted' = Tail(posted) /\ shown' = Head(posted)
      /\ UNCHANGED <<feed, turn, round, sent>>
  BY DEF Show, feedVars
<1>2. /\ Len(posted) \in Nat \ {0} /\ Len(posted') = Len(posted) - 1
      /\ \A i \in 1 .. Len(posted') : posted'[i] = posted[i + 1]
      /\ shown' = posted[1] /\ posted' \in Seq(Seq(Nat))
  BY <1>1 DEF WayInv, FeedInv, RoundInv, PostInv
<1>3. WayInv'
  <2>1. CountInv'
    BY <1>1, <1>2 DEF WayInv, CountInv
  <2>2. FeedInv'
    BY <1>1, <1>2 DEF WayInv, CountInv, FeedInv
  <2>3. RoundInv'
    BY <1>1, <1>2 DEF WayInv, CountInv, RoundInv, Parted
  <2>4. PostInv'
    BY <1>1, <1>2 DEF WayInv, CountInv, PostInv
  <2>5. ShownInv'
    <3>1. \E t \in 1 .. turn : posted[1] = <<t, t, t>>
      BY <1>2 DEF WayInv, PostInv
    <3> QED
      BY <1>1, <1>2, <3>1 DEF ShownInv
  <2> QED
    BY <2>1, <2>2, <2>3, <2>4, <2>5 DEF WayInv, FeedInv, RoundInv, PostInv
<1>4. OrderInv'
  <2>1. FeedRises'
    BY <1>1 DEF OrderInv, FeedRises
  <2>2. PostedRises'
    <3> SUFFICES ASSUME NEW i \in 1 .. Len(posted'), NEW j \in 1 .. Len(posted'),
                        i < j
                 PROVE  posted'[i][1] < posted'[j][1]
      BY DEF PostedRises
    <3>1. /\ i + 1 \in 1 .. Len(posted) /\ j + 1 \in 1 .. Len(posted)
          /\ i + 1 < j + 1
      BY <1>2
    <3>2. posted[i + 1][1] < posted[j + 1][1]
      BY <3>1 DEF OrderInv, PostedRises
    <3> QED
      BY <1>2, <3>2
  <2>3. FeedAhead'
    <3>1. /\ 1 \in 1 .. Len(posted)
          /\ \A j \in 1 .. Len(posted') : j + 1 \in 1 .. Len(posted)
      BY <1>2
    <3> QED
      BY <1>1, <1>2, <3>1 DEF OrderInv, FeedAhead, Held
  <2>4. PostedAhead'
    <3> SUFFICES ASSUME NEW j \in 1 .. Len(posted')
                 PROVE  /\ shown'[1] < posted'[j][1]
                        /\ Held' => posted'[j][1] < round'["station"][1]
      BY DEF PostedAhead
    <3>1. /\ 1 \in 1 .. Len(posted) /\ j + 1 \in 1 .. Len(posted)
          /\ 1 < j + 1
      BY <1>2
    <3>2. posted[1][1] < posted[j + 1][1]
      BY <3>1 DEF OrderInv, PostedRises
    <3>3. Held => posted[j + 1][1] < round["station"][1]
      BY <3>1 DEF OrderInv, PostedAhead
    <3> QED
      BY <1>1, <1>2, <3>2, <3>3 DEF Held
  <2>5. RoundAhead'
    BY <1>1, <1>2 DEF OrderInv, RoundAhead, PostedAhead, Held
  <2> QED
    BY <2>1, <2>2, <2>3, <2>4, <2>5 DEF OrderInv
<1>5. shown'[1] > shown[1]
  <2>1. shown[1] < posted[1][1]
    BY <1>2 DEF OrderInv, PostedAhead
  <2>2. shown[1] \in Nat /\ posted[1][1] \in Nat
    BY <1>2 DEF WayInv, CountInv, PostInv, ShownInv
  <2> QED
    BY <1>2, <2>1, <2>2
<1> QED
  BY <1>3, <1>4, <1>5
-----------------------------------------------------------------------------
(* The steps that leave the way of the rounds alone.                       *)
LEMMA OtherSteps ==
  ASSUME WayInv, OrderInv, UNCHANGED <<feed, turn, round, sent, posted, shown>>
  PROVE  WayInv' /\ OrderInv'
BY DEF WayInv, CountInv, FeedInv, RoundInv, PostInv, ShownInv, OrderInv,
       FeedRises, PostedRises, FeedAhead, PostedAhead, RoundAhead, Held

LEMMA WaySteps ==
  ASSUME WayInv, OrderInv, [Next]_vars
  PROVE  WayInv' /\ OrderInv'
<1> USE DEF display, feedVars
<1>1. CASE Publish
  BY <1>1, PublishSteps
<1>2. CASE Receive
  BY <1>2, TakeSteps DEF Receive, Receivers
<1>3. CASE Emit
  BY <1>3, EmitSteps
<1>4. CASE Show
  BY <1>4, ShowSteps
<1>5. CASE Close
  BY <1>5, OtherSteps DEF Close
<1>6. CASE Abort
  BY <1>6, OtherSteps DEF Abort
<1>7. CASE UNCHANGED vars
  BY <1>7, OtherSteps DEF vars
<1> QED
  BY <1>1, <1>2, <1>3, <1>4, <1>5, <1>6, <1>7 DEF Next

LEMMA WayInvariant == Spec => [](WayInv /\ OrderInv)
<1>1. WayInv /\ OrderInv /\ [Next]_vars => (WayInv /\ OrderInv)'
  BY WaySteps
<1> QED
  BY <1>1, InitHolds, PTL DEF Spec

(* Only Show moves the horizon; every other step can only add turns.       *)
LEMMA FaceSteps ==
  ASSUME WayInv, FaceInv, [Next]_vars
  PROVE  FaceInv'
<1> USE DEF display, feedVars
<1>1. CASE Show
  <2> DEFINE new == Target(sent[posted[1][2]])
  <2>1. /\ shown' = posted[1] /\ old' = new /\ Move(new, old)
        /\ poisoned' = poisoned \cup {c \in Coordinates : old'[c] = NaN}
        /\ UNCHANGED <<sent, began>>
    BY <1>1 DEF Show, WayInv, PostInv
  <2>2. PICK t \in 1 .. turn : posted[1] = <<t, t, t>>
    <3>1. posted # <<>> /\ posted \in Seq(Seq(Nat))
      BY <1>1 DEF Show, WayInv, PostInv
    <3>2. 1 \in 1 .. Len(posted)
      BY <3>1
    <3> QED
      BY <3>2 DEF WayInv, PostInv
  <2>3. sent[posted[1][2]] \in Attitudes
    BY <2>2 DEF WayInv, CountInv
  <2>4. DOMAIN new = Coordinates /\ \A c \in Coordinates : new[c] \in Values
    BY <2>3, TargetRange DEF Values
  <2> HIDE DEF new
  <2>5. face' = <<Plus(face[1], Minus(new[1], old[1])),
                  Minus(face[2], Minus(new[2], old[2]))>>
    BY <2>1 DEF Move
  <2>6. \A c \in Coordinates \ poisoned' :
          c \notin poisoned /\ old[c] \in Int /\ new[c] \in Int /\ began[c] \in Int
    BY <2>1, <2>4 DEF FaceInv, Values
  <2>7. 1 \notin poisoned' => face'[1] = new[1] - began[1]
    BY <2>5, <2>6, StationAssumption DEF FaceInv, Coordinates, Plus, Minus
  <2>8. 2 \notin poisoned' => face'[2] = began[2] - new[2]
    BY <2>5, <2>6, StationAssumption DEF FaceInv, Coordinates, Minus
  <2>9. ASSUME NEW c \in Coordinates \cap poisoned'
        PROVE  face'[c] = NaN
    <3>1. NaN \in {face[c], old[c], new[c]}
      BY <2>1 DEF FaceInv
    <3> QED
      BY <2>5, <3>1 DEF Coordinates, Plus, Minus
  <2>10. face' = <<face'[1], face'[2]>>
    BY <2>5
  <2>11. old' = Target(sent'[shown'[2]])
    BY <2>1 DEF new
  <2> QED
    BY <2>1, <2>4, <2>6, <2>7, <2>8, <2>9, <2>10, <2>11 DEF FaceInv
<1>2. CASE Publish
  <2>1. UNCHANGED display /\ UNCHANGED began
    BY <1>2 DEF Publish
  <2>2. PICK a \in Attitudes : sent' = Append(sent, a)
    BY <1>2 DEF Publish, Attitudes
  <2>3. \A t \in 1 .. turn : sent'[t] = sent[t]
    BY <2>2 DEF WayInv, CountInv
  <2>4. shown # <<0, 0, 0>> => shown[2] \in 1 .. turn
    BY DEF WayInv, ShownInv
  <2> QED
    BY <2>1, <2>3, <2>4 DEF FaceInv
<1>3. CASE UNCHANGED <<sent, display, began>>
  BY <1>3 DEF FaceInv
<1> QED
  BY <1>1, <1>2, <1>3
  DEF Next, Receive, Emit, Close, Abort, vars

LEMMA FaceInvariant == Spec => []FaceInv
<1>1. WayInv /\ FaceInv /\ [Next]_vars => FaceInv'
  BY FaceSteps
<1> QED
  BY <1>1, InitHolds, WayInvariant, PTL DEF Spec

-----------------------------------------------------------------------------
(* The bound and the window, which the other invariants do not speak of.   *)
FrameInv == turn \in 0 .. MaxTurns /\ window \in {"open", "closed", "aborted"}

(* Types; the horizon is asked to no place off the instrument.             *)
THEOREM TypeCorrect == Spec => []TypeOK
<1>1. Init => FrameInv
  BY StationAssumption DEF Init, Source!Init, FrameInv
<1>2. FrameInv /\ [Next]_vars => FrameInv'
  <2> SUFFICES ASSUME FrameInv, [Next]_vars PROVE FrameInv'
    OBVIOUS
  <2>1. CASE Publish
    BY <2>1, StationAssumption DEF Publish, Source!Publish, FrameInv
  <2>2. CASE UNCHANGED turn /\ window' \in {window, "closed", "aborted"}
    BY <2>2 DEF FrameInv
  <2>3. CASE Receive \/ Emit
    BY <2>2, <2>3
    DEF Receive, Emit, Source!Begin, Source!Fill, Source!Leave
  <2>4. CASE Show \/ Close \/ Abort \/ UNCHANGED vars
    BY <2>2, <2>4 DEF Show, Close, Abort, vars, feedVars
  <2> QED
    BY <2>1, <2>3, <2>4 DEF Next
<1>3. WayInv /\ FaceInv /\ FrameInv => TypeOK
  <2> SUFFICES ASSUME WayInv, FaceInv, FrameInv PROVE TypeOK
    OBVIOUS
  <2>1. Len(sent) = turn
    BY DEF WayInv, CountInv
  <2>2. \A i \in DOMAIN posted : posted[i][2] \in 1 .. turn
    <3>1. DOMAIN posted = 1 .. Len(posted)
      BY DEF WayInv, PostInv
    <3> QED
      BY <3>1 DEF WayInv, PostInv
  <2>3. ASSUME NEW c \in Coordinates, shown # <<0, 0, 0>>
        PROVE  old[c] \in (-510 .. 510) \cup {NaN}
    <3>1. sent[shown[2]] \in Attitudes
      BY <2>3 DEF WayInv, CountInv, ShownInv
    <3> QED
      BY <2>3, <3>1, TargetRange DEF FaceInv
  <2> QED
    BY <2>1, <2>2, <2>3 DEF FrameInv, TypeOK
<1> QED
  BY <1>1, <1>2, <1>3, WayInvariant, FaceInvariant, PTL DEF Spec

(* What is on display, and what is on its way there, is of one turn.       *)
THEOREM OneTurnCorrect == Spec => []OneTurnShown
<1>1. WayInv => OneTurnShown
  <2> SUFFICES ASSUME WayInv, NEW r \in {shown} \cup {posted[i] : i \in DOMAIN posted}
               PROVE  r[1] = r[2] /\ r[2] = r[3]
    BY DEF OneTurnShown
  <2>1. DOMAIN posted = 1 .. Len(posted)
    BY DEF WayInv, PostInv
  <2>2. r = <<0, 0, 0>> \/ \E t \in 1 .. turn : r = <<t, t, t>>
    BY <2>1 DEF WayInv, PostInv, ShownInv
  <2> QED
    BY <2>2
<1> QED
  BY <1>1, WayInvariant, PTL

(* The display never goes back to an earlier turn.                         *)
THEOREM OrderCorrect == Spec => NeverBack
<1>1. WayInv /\ OrderInv /\ [Next]_vars
        => [shown' = shown \/ shown'[1] > shown[1]]_vars
  <2> SUFFICES ASSUME WayInv, OrderInv, Next
               PROVE  shown' = shown \/ shown'[1] > shown[1]
    OBVIOUS
  <2>1. CASE Show
    BY <2>1, ShowSteps
  <2>2. CASE UNCHANGED shown
    BY <2>2
  <2> QED
    BY <2>1, <2>2
    DEF Next, Publish, Receive, Emit, Close, Abort, display
<1> QED
  BY <1>1, WayInvariant, PTL DEF Spec, NeverBack

(* However many differences have been added up, the horizon is where the   *)
(* attitude on display belongs, off by what the members held at first.     *)
THEOREM HorizonCorrect == Spec => []HorizonTracks
<1>1. WayInv /\ FaceInv => HorizonTracks
  <2> SUFFICES ASSUME WayInv, FaceInv, shown # <<0, 0, 0>>
               PROVE  /\ face[1] = IF 1 \in poisoned THEN NaN
                                   ELSE Target(sent[shown[2]])[1] - began[1]
                      /\ face[2] = IF 2 \in poisoned THEN NaN
                                   ELSE began[2] - Target(sent[shown[2]])[2]
    BY DEF HorizonTracks
  <2> QED
    BY DEF FaceInv, Coordinates
<1> QED
  BY <1>1, WayInvariant, FaceInvariant, PTL

-----------------------------------------------------------------------------
(* The station asks of telemetry no more than what Feed promises: all it   *)
(* does with rounds are steps of a feed that nothing has spoilt, those     *)
(* that RoundsRefined shows the queues to take.                            *)
THEOREM FeedRespected == Spec => Source!Spec
<1>1. Init => Source!Init /\ spoilt = FALSE
  BY DEF Init, Source!Init
<1>2. spoilt = FALSE /\ [Next]_vars
        => (spoilt = FALSE)' /\ [Source!Next]_<<feed, turn, round, spoilt>>
  <2> SUFFICES ASSUME spoilt = FALSE, [Next]_vars
               PROVE  /\ spoilt' = FALSE
                      /\ [Source!Next]_<<feed, turn, round, spoilt>>
    OBVIOUS
  <2> USE DEF Source!Next, Source!Promised, Receivers
  <2>1. CASE Publish
    BY <2>1 DEF Publish
  <2>2. CASE Receive
    BY <2>2 DEF Receive
  <2>3. CASE Emit
    BY <2>3 DEF Emit
  <2>4. CASE Show \/ Close \/ Abort \/ UNCHANGED vars
    BY <2>4 DEF Show, Close, Abort, vars, feedVars
  <2> QED
    BY <2>1, <2>2, <2>3, <2>4 DEF Next
<1> QED
  BY <1>1, <1>2, PTL DEF Spec, Source!Spec, Source!vars
=============================================================================
