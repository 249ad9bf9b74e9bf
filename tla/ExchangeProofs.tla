--------------------------- MODULE ExchangeProofs ---------------------------
(***************************************************************************)
(* Proofs, for packets of every size and any number of rounds, that two    *)
(* ends which count bytes exchange whole packets of matching rounds.       *)
(***************************************************************************)
EXTENDS SerialLinkProofs, SequenceTheorems

(* Places of packets of one size are told apart.                           *)
LEMMA IndexIs ==
  ASSUME NEW size \in Nat \ {0}, NEW n \in Nat, NEW i \in 1 .. n
  PROVE  Index((i - 1) * size, size, n) = i
<1>1. \A j \in 1 .. n : (i - 1) * size = (j - 1) * size => j = i
  OBVIOUS
<1> QED
  BY <1>1 DEF Index

LEMMA IndexNone ==
  ASSUME NEW d \in Int, d < 0, NEW size \in Nat \ {0}, NEW n \in Nat
  PROVE  Index(d, size, n) = 0
<1>1. \A i \in 1 .. n : (i - 1) * size >= 0
  OBVIOUS
<1> QED
  BY <1>1 DEF Index

LEMMA RoundAtStart ==
  ASSUME junk \in Nat, NEW n \in 1 .. MaxRounds
  PROVE  RoundAt(RcStart(n)) = n
<1>1. RcStart(n) - RcStart(1) = (n - 1) * (RcSize + ImuSize)
  BY SizesAssumption, LimitsAssumption DEF RcStart, ReplyAt
<1>2. RcSize + ImuSize \in Nat \ {0} /\ MaxRounds \in Nat
  BY SizesAssumption, LimitsAssumption
<1> QED
  BY <1>1, <1>2, IndexIs DEF RoundAt

LEMMA AnswerAtStart ==
  ASSUME from \in Seq(Int), NEW m \in 1 .. Len(from)
  PROVE  AnswerAt(CsStart(m)) = m
<1>1. CsStart(m) - CsStart(1) = (m - 1) * CsSize
  BY SizesAssumption DEF CsStart
<1>2. CsSize \in Nat \ {0} /\ Len(from) \in Nat
  BY SizesAssumption
<1> QED
  BY <1>1, <1>2, IndexIs DEF AnswerAt

LEMMA AnswerAtNone ==
  ASSUME from \in Seq(Int)
  PROVE  AnswerAt(None) = 0
<1>1. None - CsStart(1) = -2
  BY SizesAssumption DEF None, CsStart
<1>2. CsSize \in Nat \ {0} /\ Len(from) \in Nat
  BY SizesAssumption
<1> QED
  BY <1>1, <1>2, IndexNone DEF AnswerAt

-----------------------------------------------------------------------------
(* Counters within their bounds.                                           *)
CountInv ==
  /\ round <= MaxRounds
  /\ som \in {"readImu", "writeCs"} => iter >= 1

LEMMA CountCorrect == Spec => []CountInv
<1>1. Init => CountInv
  BY LimitsAssumption DEF Init, CountInv
<1>2. TypeOK /\ CountInv /\ [Next]_vars => CountInv'
  <2> SUFFICES ASSUME TypeOK, CountInv, [Next]_vars PROVE CountInv'
    OBVIOUS
  <2> USE LimitsAssumption DEF TypeOK, CountInv, mcuVars, somVars
  <2>1. CASE WriteRc
    BY <2>1 DEF WriteRc
  <2>2. CASE Announce \/ AwaitHandshake \/ Reply \/ WriteImu \/ ReadCs
    BY <2>2 DEF Announce, AwaitHandshake, Reply, WriteImu, ReadCs
  <2>3. CASE Flush \/ WriteHandshake \/ ReadHandshake
    BY <2>3 DEF Flush, WriteHandshake, ReadHandshake, NextAttempt
  <2>4. CASE ReadRc \/ ReadImu \/ WriteCs \/ LeaveLoop
    BY <2>4 DEF ReadRc, ReadImu, WriteCs, LeaveLoop
  <2>5. CASE UNCHANGED vars
    BY <2>5 DEF vars
  <2> QED
    BY <2>1, <2>2, <2>3, <2>4, <2>5 DEF Next, Mcu, Som, Terminated
<1> QED
  BY <1>1, <1>2, TypeCorrect, PTL DEF Spec

LinkInv ==
  /\ TypeOK /\ StartInv /\ ReplyInv /\ UpInv /\ DownInv /\ SentInv /\ CountInv

-----------------------------------------------------------------------------
(* What has arrived up to the end of a packet of round n shows which round *)
(* the MCU is in.                                                          *)
LEMMA SensedRc ==
  ASSUME LinkInv, NEW n \in Nat, n >= 1, sent >= RcStart(n) + RcSize
  PROVE  Sensed >= 2 * n - 1 /\ n \in 1 .. MaxRounds
<1>0. /\ junk \in Nat /\ round \in Nat /\ sent \in Int /\ RcSize \in Nat \ {0}
      /\ ImuSize \in Nat \ {0} /\ round <= MaxRounds /\ MaxRounds \in Nat
  BY SizesAssumption, LimitsAssumption DEF LinkInv, TypeOK, CountInv
<1>1. /\ RcStart(1) = ReplyAt + 1 /\ RcStart(1) <= RcStart(n)
      /\ RcStart(1) \in Int /\ RcStart(n) \in Int
  <2>1. RcStart(1) = ReplyAt + 1
    BY SizesAssumption, <1>0 DEF RcStart, ReplyAt
  <2>2. RcStart(1) \in Int /\ RcStart(n) \in Int
    BY <1>0, RcStartNext
  <2>3. RcStart(1) <= RcStart(n)
    BY <1>0, RcStartMonotone
  <2> QED
    BY <2>1, <2>2, <2>3
<1>2. sent > ReplyAt /\ ReplyAt \in Nat
  BY <1>0, <1>1, SizesAssumption DEF ReplyAt
<1>3. McuLoop
  <2>1. mcu \in {"boot", "await", "reply", "rc", "imu", "cs"}
    BY DEF LinkInv, TypeOK
  <2>2. mcu = "boot" => sent <= ReplyAt
    BY <1>0, SizesAssumption DEF LinkInv, StartInv, ReplyAt
  <2>3. mcu \in {"await", "reply"} => sent = ReplyAt
    BY DEF LinkInv, StartInv
  <2> QED
    BY <1>0, <1>2, <2>1, <2>2, <2>3 DEF McuLoop
<1>4. n <= round
  <2> SUFFICES ASSUME round + 1 <= n PROVE FALSE
    BY <1>0
  <2>1. RcStart(round + 1) <= RcStart(n)
    BY <1>0, RcStartMonotone
  <2>2. RcStart(round + 1) = RcStart(round) + RcSize + ImuSize
        /\ RcStart(round) \in Int
    BY <1>0, RcStartNext
  <2> QED
    BY <1>0, <1>1, <1>3, <2>1, <2>2 DEF LinkInv, SentInv, McuLoop
<1> QED
  BY <1>0, <1>4 DEF Sensed

LEMMA SensedImu ==
  ASSUME LinkInv, NEW n \in Nat, n >= 1, sent >= RcStart(n + 1)
  PROVE  Sensed >= 2 * n /\ n \in 1 .. MaxRounds
<1>0. /\ junk \in Nat /\ round \in Nat /\ sent \in Int /\ RcSize \in Nat \ {0}
      /\ ImuSize \in Nat \ {0}
  BY SizesAssumption, LimitsAssumption DEF LinkInv, TypeOK
<1>1. RcStart(n + 1) = RcStart(n) + RcSize + ImuSize /\ RcStart(n) \in Int
  BY <1>0, RcStartNext
<1>2. Sensed >= 2 * n - 1 /\ n \in 1 .. MaxRounds
  BY <1>0, <1>1, SensedRc
<1>3. CASE mcu = "imu"
  <2> SUFFICES ASSUME round <= n PROVE FALSE
    <3>1. Sensed = 2 * round - 1
      BY <1>3 DEF Sensed
    <3> QED
      BY <1>0, <1>2, <3>1
  <2>1. RcStart(round) \in Int
    BY <1>0, RcStartNext
  <2>2. RcStart(round) <= RcStart(n)
    BY <1>0, RcStartMonotone
  <2> QED
    BY <1>0, <1>1, <1>3, <2>1, <2>2 DEF LinkInv, SentInv
<1>4. CASE mcu # "imu"
  <2>1. Sensed = 2 * round
    BY <1>4 DEF Sensed
  <2> QED
    BY <1>0, <1>2, <2>1
<1> QED
  BY <1>3, <1>4

(* While nothing has timed out, what the SoM holds are the packets of the  *)
(* round that its iteration stands for.                                    *)
LEMMA TakenIs ==
  ASSUME LinkInv, lost = {}
  PROVE  /\ som = "readImu" => Taken = <<iter>>
         /\ som = "writeCs"
              => Taken = <<iter, iter>> /\ RoundAt(rcAt) = iter
         /\ som \notin {"readImu", "writeCs"} => Taken = <<>>
<1>1. ASSUME som \in {"readImu", "writeCs"}
      PROVE  acked /\ rcAt = RcStart(iter) /\ RoundAt(rcAt) = iter
  <2>1. acked
    BY <1>1 DEF LinkInv, ReplyInv, HandshakeGenuine, InLoop
  <2>2. /\ rcAt = RcStart(iter) /\ iter \in Nat /\ iter >= 1 /\ junk \in Nat
        /\ som = "readImu" => committed = RcStart(iter) + RcSize
        /\ som = "writeCs" => committed = RcStart(iter + 1)
    BY <1>1, <2>1 DEF LinkInv, UpInv, TypeOK, CountInv
  <2>3. RcStart(iter + 1) = RcStart(iter) + RcSize + ImuSize /\ RcStart(iter) \in Int
    BY <2>2, RcStartNext
  <2>4. sent >= RcStart(iter) + RcSize
    BY <1>1, <2>2, <2>3, SizesAssumption DEF LinkInv, TypeOK
  <2>5. iter \in 1 .. MaxRounds
    BY <2>2, <2>4, SensedRc
  <2> QED
    BY <2>1, <2>2, <2>5, RoundAtStart
<1>2. CASE som = "readImu"
  BY <1>1, <1>2 DEF Taken
<1>3. CASE som = "writeCs"
  <2>1. imuAt = rcAt + RcSize /\ rcAt = RcStart(iter)
    BY <1>1, <1>3 DEF LinkInv, UpInv
  <2>2. imuAt - RcSize = rcAt
    <3>1. rcAt \in Int /\ RcSize \in Int
      BY SizesAssumption DEF LinkInv, TypeOK, None
    <3> QED
      BY <2>1, <3>1
  <2> QED
    BY <1>1, <1>3, <2>2 DEF Taken
<1>4. CASE som \notin {"readImu", "writeCs"}
  BY <1>4 DEF Taken
<1> QED
  BY <1>2, <1>3, <1>4

(* The steps of handshake and startup exchange no packet, nor does the end *)
(* of either process.                                                      *)
LEMMA SilentSteps ==
  ASSUME UNCHANGED <<round, iter, rcAt, imuAt, junk, from, csAt, mcuTimeouts>>,
         mcu' = mcu \/ {mcu, mcu'} \cap {"imu", "cs"} = {},
         som' = som \/ {som, som'} \cap {"readImu", "writeCs"} = {},
         lost = {}, lost' = {}
  PROVE  UNCHANGED Packets!vars
<1>1. UNCHANGED <<Sensed, Got>>
  BY DEF Sensed, Got, Done
<1>2. \A n : RcStart(n)' = RcStart(n)
  BY DEF RcStart, ReplyAt
<1>3. UNCHANGED Taken
  BY <1>2 DEF Taken, RoundAt
<1>4. UNCHANGED <<Answers, AnswerAt(csAt)>>
  BY <1>2 DEF Answers, AnswerAt, RoundAt
<1> QED
  BY <1>1, <1>3, <1>4 DEF Packets!vars

-----------------------------------------------------------------------------
(* The rounds of the answers, as a sequence.                               *)
RoundsOf(s, first) ==
  [m \in 1 .. Len(s) |-> Index(s[m] - first, RcSize + ImuSize, MaxRounds)]

LEMMA IndexNat ==
  ASSUME NEW d, NEW size, NEW n \in Nat
  PROVE  Index(d, size, n) \in Nat
<1>1. CASE \E i \in 1 .. n : d = (i - 1) * size
  <2>1. (CHOOSE i \in 1 .. n : d = (i - 1) * size) \in 1 .. n
    BY <1>1, Zenon
  <2> QED
    BY <1>1, <2>1 DEF Index
<1>2. CASE ~ \E i \in 1 .. n : d = (i - 1) * size
  BY <1>2 DEF Index
<1> QED
  BY <1>1, <1>2

LEMMA RoundsOfSeq ==
  ASSUME NEW s \in Seq(Int), NEW first
  PROVE  /\ RoundsOf(s, first) \in Seq(Nat) /\ Len(RoundsOf(s, first)) = Len(s)
         /\ \A m \in 1 .. Len(s) :
              RoundsOf(s, first)[m]
                = Index(s[m] - first, RcSize + ImuSize, MaxRounds)
<1>1. MaxRounds \in Nat /\ Len(s) \in Nat
  BY LimitsAssumption
<1>2. RoundsOf(s, first) \in [1 .. Len(s) -> Nat]
  BY <1>1, IndexNat DEF RoundsOf
<1>3. RoundsOf(s, first) \in Seq(Nat)
  BY <1>1, <1>2, SeqDef
<1>4. Len(RoundsOf(s, first)) = Len(s)
  BY <1>1, <1>2, <1>3, LenProperties
<1> QED
  BY <1>3, <1>4 DEF RoundsOf

LEMMA RoundsOfAppend ==
  ASSUME NEW s \in Seq(Int), NEW first, NEW pos \in Int
  PROVE  RoundsOf(Append(s, pos), first)
           = Append(RoundsOf(s, first),
                    Index(pos - first, RcSize + ImuSize, MaxRounds))
<1> DEFINE t == Append(s, pos)
           i == Index(pos - first, RcSize + ImuSize, MaxRounds)
           u == Append(RoundsOf(s, first), i)
<1>1. i \in Nat
  BY IndexNat, LimitsAssumption
<1>2. /\ t \in Seq(Int) /\ Len(t) = Len(s) + 1 /\ Len(s) \in Nat
      /\ \A m \in 1 .. Len(s) : t[m] = s[m]
      /\ t[Len(s) + 1] = pos
  OBVIOUS
<1>3. /\ RoundsOf(t, first) \in Seq(Nat) /\ Len(RoundsOf(t, first)) = Len(s) + 1
      /\ \A m \in 1 .. Len(s) + 1 :
           RoundsOf(t, first)[m] = Index(t[m] - first, RcSize + ImuSize, MaxRounds)
  BY <1>2, RoundsOfSeq
<1>4. /\ u \in Seq(Nat) /\ Len(u) = Len(s) + 1
      /\ \A m \in 1 .. Len(s) : u[m] = RoundsOf(s, first)[m]
      /\ u[Len(s) + 1] = i
  BY <1>1, <1>2, RoundsOfSeq, AppendProperties
<1>5. \A m \in 1 .. Len(s) : RoundsOf(s, first)[m] = RoundsOf(t, first)[m]
  BY <1>2, <1>3, RoundsOfSeq
<1>6. \A m \in 1 .. Len(s) + 1 : m \in 1 .. Len(s) \/ m = Len(s) + 1
  BY <1>2
<1>7. RoundsOf(t, first)[Len(s) + 1] = i
  BY <1>2, <1>3
<1>8. \A m \in 1 .. Len(s) + 1 : RoundsOf(t, first)[m] = u[m]
  BY <1>4, <1>5, <1>6, <1>7
<1> QED
  BY <1>3, <1>4, <1>8, SeqEqual

(* What keeps the parts of the exchange as they are.                       *)
LEMMA SameParts ==
  /\ UNCHANGED junk => RcStart(1)' = RcStart(1)
  /\ UNCHANGED <<som, rcAt, imuAt, junk>> => Taken' = Taken
  /\ UNCHANGED <<from, junk>> => Answers' = Answers
  /\ UNCHANGED <<from, csAt>> => AnswerAt(csAt)' = AnswerAt(csAt)
<1>1. UNCHANGED junk => RcStart(1)' = RcStart(1)
  BY DEF RcStart, ReplyAt
<1>2. UNCHANGED <<som, rcAt, imuAt, junk>> => Taken' = Taken
  BY <1>1 DEF Taken, RoundAt
<1>3. UNCHANGED <<from, junk>> => Answers' = Answers
  BY <1>1 DEF Answers, RoundAt
<1>4. UNCHANGED <<from, csAt>> => AnswerAt(csAt)' = AnswerAt(csAt)
  BY DEF AnswerAt
<1> QED
  BY <1>1, <1>2, <1>3, <1>4

(* What TakenIs says, as an invariant.                                     *)
TakenInv == lost = {} =>
  /\ som = "readImu" => Taken = <<iter>>
  /\ som = "writeCs" => Taken = <<iter, iter>> /\ RoundAt(rcAt) = iter
  /\ som \notin {"readImu", "writeCs"} => Taken = <<>>

(* In its loop the MCU has had the handshake.                              *)
LEMMA EchoIs == ASSUME LinkInv, lost = {}, McuLoop PROVE echo = 1
<1>1. mcu \notin {"boot", "await"}
  BY DEF McuLoop
<1>2. "mcuHandshake" \notin lost
  OBVIOUS
<1> QED
  BY <1>1, <1>2 DEF LinkInv, StartInv

(* The MCU sends a packet.                                                 *)
LEMMA SenseSteps ==
  ASSUME LinkInv, WriteRc \/ WriteImu
  PROVE  Packets!Sense /\ lost' = lost
<1> USE DEF mcuVars, somVars, downVars, history
<1>1. /\ UNCHANGED <<som, iter, rcAt, imuAt, junk, from, csAt, lost>>
      /\ round \in Nat
  BY DEF WriteRc, WriteImu, LinkInv, TypeOK
<1>2. Sensed' = Sensed + 1 /\ Got' = Got
  <2>1. CASE WriteRc
    <3>1. /\ mcu = "rc" /\ mcu' = "imu" /\ round' = round + 1
          /\ mcuTimeouts' = mcuTimeouts
      BY <2>1 DEF WriteRc
    <3>2. Sensed = 2 * round /\ Sensed' = 2 * round' - 1
      BY <3>1 DEF Sensed
    <3>3. Done = round /\ Done' = round' - 1
      BY <3>1 DEF Done
    <3> QED
      BY <1>1, <3>1, <3>2, <3>3 DEF Got
  <2>2. CASE WriteImu
    <3>1. /\ mcu = "imu" /\ mcu' = "cs" /\ round' = round
          /\ mcuTimeouts' = mcuTimeouts
      BY <2>2 DEF WriteImu
    <3>2. Sensed = 2 * round - 1 /\ Sensed' = 2 * round
      BY <3>1 DEF Sensed
    <3>3. Done' = Done
      BY <3>1 DEF Done
    <3> QED
      BY <1>1, <3>1, <3>2, <3>3 DEF Got
  <2> QED
    BY <2>1, <2>2
<1> QED
  BY <1>1, <1>2, SameParts DEF Packets!Sense

(* The SoM takes the packets of its next round.                            *)
LEMMA TakeRcSteps ==
  ASSUME LinkInv, TakenInv, TakenInv', ReadRc, lost = {}, lost' = {}
  PROVE  Packets!TakeRc
<1> USE DEF mcuVars, downVars
<1>1. /\ som = "readRc" /\ som' = "readImu" /\ iter' = iter + 1
      /\ UNCHANGED <<round, mcu, mcuTimeouts, csAt, from, junk>>
      /\ sent - committed >= RcSize
  BY DEF ReadRc, ReadOk
<1>2. acked
  BY <1>1 DEF LinkInv, ReplyInv, HandshakeGenuine, InLoop
<1>3. committed = RcStart(iter + 1) /\ iter \in Nat /\ junk \in Nat /\ sent \in Int
  BY <1>1, <1>2 DEF LinkInv, UpInv, TypeOK
<1>4. RcStart(iter + 1) \in Int
  BY <1>3, RcStartNext
<1>5. Sensed >= 2 * (iter + 1) - 1
  BY <1>1, <1>3, <1>4, SizesAssumption, SensedRc
<1>6. Sensed > 2 * iter
  <2>1. Sensed \in Int
    BY DEF Sensed, LinkInv, TypeOK
  <2> QED
    BY <1>3, <1>5, <2>1
<1>7. Taken = <<>> /\ Taken' = <<iter'>>
  BY <1>1 DEF TakenInv
<1>8. UNCHANGED <<Sensed, Got>>
  BY <1>1 DEF Sensed, Got, Done
<1> QED
  BY <1>1, <1>6, <1>7, <1>8, SameParts DEF Packets!TakeRc

LEMMA TakeImuSteps ==
  ASSUME LinkInv, TakenInv, TakenInv', ReadImu, lost = {}, lost' = {}
  PROVE  Packets!TakeImu
<1> USE DEF mcuVars, downVars
<1>1. /\ som = "readImu" /\ som' = "writeCs" /\ iter' = iter
      /\ UNCHANGED <<round, mcu, mcuTimeouts, csAt, from, junk>>
      /\ sent - committed >= ImuSize
  BY DEF ReadImu, ReadOk
<1>2. acked
  BY <1>1 DEF LinkInv, ReplyInv, HandshakeGenuine, InLoop
<1>3. /\ committed = RcStart(iter) + RcSize /\ iter \in Nat /\ iter >= 1
      /\ junk \in Nat /\ sent \in Int
  BY <1>1, <1>2 DEF LinkInv, UpInv, TypeOK, CountInv
<1>4. RcStart(iter) \in Int /\ RcStart(iter + 1) = RcStart(iter) + RcSize + ImuSize
  BY <1>3, RcStartNext
<1>5. Sensed >= 2 * iter
  <2>1. sent >= RcStart(iter + 1)
    BY <1>1, <1>3, <1>4, SizesAssumption
  <2> QED
    BY <1>3, <2>1, SensedImu
<1>6. Taken = <<iter>> /\ Taken' = <<iter, iter>>
  BY <1>1 DEF TakenInv
<1>7. UNCHANGED <<Sensed, Got>>
  BY <1>1 DEF Sensed, Got, Done
<1> QED
  BY <1>1, <1>5, <1>6, <1>7, SameParts DEF Packets!TakeImu

(* It answers them, or the answer is lost.                                 *)
LEMMA AnswerSteps ==
  ASSUME LinkInv, TakenInv, TakenInv', WriteCs, lost = {}, lost' = {}
  PROVE  Packets!Answer
<1> USE DEF mcuVars, history
<1>1. /\ som = "writeCs" /\ som' = "readRc" /\ iter' = iter
      /\ UNCHANGED <<round, mcu, mcuTimeouts, csAt, junk>>
      /\ from' \in {from, Append(from, rcAt)}
  BY DEF WriteCs
<1>2. Taken = <<iter, iter>> /\ RoundAt(rcAt) = iter /\ Taken' = <<>>
  BY <1>1 DEF TakenInv
<1>3. from \in Seq(Int) /\ rcAt \in Int
  BY DEF LinkInv, TypeOK, None
<1>4. Answers = RoundsOf(from, RcStart(1)) /\ Answers' = RoundsOf(from', RcStart(1))
  BY <1>1, SameParts DEF Answers, RoundsOf, RoundAt
<1>5. Answers' \in {Answers, Append(Answers, iter)}
  BY <1>1, <1>2, <1>3, <1>4, RoundsOfAppend DEF RoundAt
<1>6. AnswerAt(csAt)' = AnswerAt(csAt)
  <2>1. CASE csAt = None
    <3>1. from' \in Seq(Int) /\ csAt' = None
      BY <1>1, <1>3, <2>1
    <3>2. None - CsStart(1) < 0 /\ None - CsStart(1) \in Int
      BY SizesAssumption DEF None, CsStart
    <3>3. /\ Index(None - CsStart(1), CsSize, Len(from)) = 0
          /\ Index(None - CsStart(1), CsSize, Len(from')) = 0
      BY <1>3, <3>1, <3>2, SizesAssumption, IndexNone
    <3> QED
      BY <2>1, <3>1, <3>3 DEF AnswerAt
  <2>2. CASE csAt # None
    <3>1. echo = 1
      <4>1. McuLoop
        BY <2>2 DEF LinkInv, DownInv
      <4> QED
        BY <4>1, EchoIs
    <3>2. csAt = CsStart(Got) /\ Got \in 1 .. Len(from)
      BY <2>2, <3>1 DEF LinkInv, DownInv
    <3>3. from' \in Seq(Int) /\ Len(from) \in Nat /\ Len(from') \in Nat
          /\ Got \in 1 .. Len(from')
      <4>1. CASE from' = from
        BY <1>3, <3>2, <4>1
      <4>2. CASE from' = Append(from, rcAt)
        <5>1. from' \in Seq(Int) /\ Len(from') = Len(from) + 1 /\ Len(from) \in Nat
          BY <1>3, <4>2, AppendProperties
        <5> QED
          BY <3>2, <5>1
      <4> QED
        BY <1>1, <4>1, <4>2
    <3>4. csAt - CsStart(1) = (Got - 1) * CsSize
      BY <3>2, SizesAssumption DEF CsStart
    <3>5. /\ Index(csAt - CsStart(1), CsSize, Len(from)) = Got
          /\ Index(csAt - CsStart(1), CsSize, Len(from')) = Got
      BY <3>2, <3>3, <3>4, SizesAssumption, IndexIs
    <3> QED
      BY <1>1, <3>5 DEF AnswerAt
  <2> QED
    BY <2>1, <2>2
<1>7. UNCHANGED <<Sensed, Got>>
  BY <1>1 DEF Sensed, Got, Done
<1> QED
  BY <1>1, <1>2, <1>5, <1>6, <1>7 DEF Packets!Answer

(* The MCU applies the next answer, or gives up on it.                     *)
LEMMA ApplySteps ==
  ASSUME LinkInv, ReadCs, lost = {}, lost' = {}
  PROVE  Packets!Apply
<1> USE DEF somVars, upVars
<1>1. /\ mcu = "cs" /\ mcu' = "rc" /\ round' = round
      /\ UNCHANGED <<som, iter, rcAt, imuAt, junk, from>>
  BY DEF ReadCs
<1>2. /\ from \in Seq(Int) /\ Len(from) \in Nat /\ round \in Nat
      /\ mcuTimeouts \in Nat /\ dSent \in Nat /\ dRead \in Nat
      /\ csAt \in Int /\ Got \in Int
  BY <1>1 DEF LinkInv, TypeOK, None, Got, Done
<1>3. echo = 1 /\ dSent > 0
  <2>1. McuLoop
    BY <1>1 DEF McuLoop
  <2>2. echo = 1
    BY <2>1, EchoIs
  <2>3. dRead > 0 /\ dRead <= dSent
    BY <2>2 DEF LinkInv, StartInv, TypeOK
  <2> QED
    BY <1>2, <2>2, <2>3
<1>4. dRead = CsStart(Got + 1) /\ dSent = CsStart(Len(from) + 1)
  BY <1>3 DEF LinkInv, DownInv
<1>5. Sensed' = Sensed
  BY <1>1 DEF Sensed
<1>6. Done = round - 1 /\ Done' = round
  BY <1>1 DEF Done
<1>7. CASE dSent - dRead >= CsSize /\ csAt' = dRead /\ mcuTimeouts' = mcuTimeouts
  <2>1. Got' = Got + 1
    BY <1>2, <1>6, <1>7 DEF Got
  <2>2. Got < Len(from)
    <3>1. CsStart(Got + 2) = CsStart(Got + 1) + CsSize /\ CsStart(Got + 1) \in Int
      <4>1. PICK g \in Int : g = Got + 1
        BY <1>2
      <4>2. CsStart(g + 1) = CsStart(g) + CsSize /\ CsStart(g) \in Int
        BY CsStartNext
      <4>3. Got + 2 = g + 1
        BY <1>2, <4>1
      <4> QED
        BY <4>1, <4>2, <4>3
    <3>2. CsStart(Got + 2) <= CsStart(Len(from) + 1)
      BY <1>2, <1>4, <1>7, <3>1, SizesAssumption
    <3>3. Got + 2 <= Len(from) + 1
      BY <1>2, <3>2, CsStartMonotone
    <3> QED
      BY <1>2, <3>3
  <2>3. Got + 1 \in 1 .. Len(from)
    <3>1. CsStart(1) <= CsStart(Got + 1)
      <4>1. dRead > 0
        BY <1>3 DEF LinkInv, StartInv
      <4>2. CsStart(1) = 1
        BY SizesAssumption DEF CsStart
      <4> QED
        BY <1>2, <1>4, <4>1, <4>2
    <3>2. Got + 1 >= 1
      BY <1>2, <3>1, CsStartMonotone
    <3> QED
      BY <1>2, <2>2, <3>2
  <2>4. AnswerAt(csAt)' = Got'
    <3>1. csAt' = CsStart(Got + 1) /\ from' = from
      BY <1>1, <1>4, <1>7
    <3>2. Index(CsStart(Got + 1) - CsStart(1), CsSize, Len(from)) = Got + 1
      BY <1>2, <2>3, AnswerAtStart DEF AnswerAt
    <3> QED
      BY <2>1, <3>1, <3>2 DEF AnswerAt
  <2>5. Len(Answers) = Len(from)
    BY <1>2, RoundsOfSeq DEF Answers, RoundsOf, RoundAt
  <2> QED
    BY <1>1, <1>5, <2>1, <2>2, <2>4, <2>5, SameParts DEF Packets!Apply
<1>8. CASE csAt' = None /\ mcuTimeouts' = mcuTimeouts + 1
  <2>1. Got' = Got
    BY <1>2, <1>6, <1>8 DEF Got
  <2>2. AnswerAt(csAt)' = 0
    <3>1. AnswerAt(None) = 0
      BY <1>2, AnswerAtNone
    <3> QED
      BY <1>1, <1>8, <3>1 DEF AnswerAt
  <2> QED
    BY <1>1, <1>5, <2>1, <2>2, SameParts DEF Packets!Apply
<1> QED
  BY <1>7, <1>8 DEF ReadCs

-----------------------------------------------------------------------------
(* All that is known of the two ends, and that what the SoM has read in an *)
(* iteration is of that round.                                             *)
THEOREM LinkCorrect == Spec => [](LinkInv /\ TakenInv)
<1>1. LinkInv => TakenInv
  BY TakenIs DEF TakenInv
<1> QED
  BY <1>1, StartCorrect, ReplyCorrect, UpCorrect, DownCorrect, SentCorrect,
     CountCorrect, PTL DEF LinkInv

(* Each step of either end is a step of the exchange, or none, or spoils   *)
(* it.                                                                     *)
LEMMA ExchangeSteps ==
  ASSUME LinkInv, TakenInv, TakenInv', lost = {}, lost' = {}, [Next]_vars
  PROVE  Packets!Promised \/ UNCHANGED Packets!vars
<1> USE DEF mcuVars, somVars, downVars, history, upVars
<1>1. CASE WriteRc \/ WriteImu
  BY <1>1, SenseSteps DEF Packets!Promised
<1>2. CASE ReadRc
  BY <1>2, TakeRcSteps DEF Packets!Promised
<1>3. CASE ReadImu
  BY <1>3, TakeImuSteps DEF Packets!Promised
<1>4. CASE WriteCs
  BY <1>4, AnswerSteps DEF Packets!Promised
<1>5. CASE ReadCs
  BY <1>5, ApplySteps DEF Packets!Promised
<1>6. CASE Announce \/ AwaitHandshake \/ Reply
  BY <1>6, SilentSteps DEF Announce, AwaitHandshake, Reply
<1>7. CASE Flush \/ WriteHandshake \/ ReadHandshake \/ LeaveLoop
  <2>1. /\ UNCHANGED <<mcu, round, iter, rcAt, imuAt, junk, from, csAt, mcuTimeouts>>
        /\ som \in {"flush", "hsWrite", "hsRead", "readRc"}
        /\ som' \in {"flush", "hsWrite", "hsRead", "readRc", "ended"}
    BY <1>7 DEF Flush, WriteHandshake, ReadHandshake, LeaveLoop, NextAttempt
  <2> QED
    BY <2>1, SilentSteps
<1>8. CASE UNCHANGED vars
  BY <1>8, SilentSteps DEF vars
<1> QED
  BY <1>1, <1>2, <1>3, <1>4, <1>5, <1>6, <1>7, <1>8
  DEF Next, Mcu, Som, Terminated

(* With sizes for all packets and any number of rounds: counting bytes     *)
(* exchanges whole packets of matching rounds until something times out.   *)
THEOREM PacketsRefined == Spec => ImplementsExchange
<1>1. Init => Packets!Init
  <2> SUFFICES ASSUME Init PROVE Packets!Init
    OBVIOUS
  <2>1. from = <<>> /\ Len(from) = 0 /\ csAt = None /\ lost = {}
    BY DEF Init
  <2>2. Sensed = 0 /\ Got = 0 /\ Taken = <<>>
    BY DEF Init, Sensed, Got, Done, Taken
  <2>3. Answers = <<>>
    BY <2>1 DEF Answers
  <2>4. AnswerAt(csAt) = 0
    BY <2>1, AnswerAtNone
  <2> QED
    BY <2>1, <2>2, <2>3, <2>4 DEF Init, Packets!Init
<1>2. LinkInv /\ TakenInv /\ TakenInv' /\ [Next]_vars
        => [Packets!Next]_Packets!vars
  <2> SUFFICES ASSUME LinkInv, TakenInv, TakenInv', [Next]_vars
               PROVE  [Packets!Next]_Packets!vars
    OBVIOUS
  <2>1. CASE lost' # {}
    BY <2>1 DEF Packets!Next
  <2>2. CASE lost' = {}
    <3>1. lost = {}
      BY <2>2 DEF Next, Mcu, Som, Terminated, vars, history, Announce,
        AwaitHandshake, Reply, WriteRc, WriteImu, ReadCs, Flush, WriteHandshake,
        ReadHandshake, ReadRc, ReadImu, WriteCs, LeaveLoop
    <3> QED
      BY <2>2, <3>1, ExchangeSteps DEF Packets!Next
  <2> QED
    BY <2>1, <2>2
<1> QED
  BY <1>1, <1>2, LinkCorrect, PTL DEF Spec, ImplementsExchange, Packets!Spec
=============================================================================
