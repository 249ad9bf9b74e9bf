-------------------------- MODULE SerialLinkProofs --------------------------
(***************************************************************************)
(* Proofs, for packets of every size and any number of rounds, that the    *)
(* two ends of the serial line stay in step.                               *)
(***************************************************************************)
EXTENDS SerialLink, TLAPS

(* The sizes involved are linear in the number of rounds.                  *)
LEMMA RcStartNext ==
  ASSUME NEW n \in Int, junk \in Nat
  PROVE  /\ RcStart(n) \in Int
         /\ RcStart(n + 1) = RcStart(n) + RcSize + ImuSize
BY SizesAssumption DEF RcStart, ReplyAt

LEMMA CsStartNext ==
  ASSUME NEW m \in Int
  PROVE  CsStart(m) \in Int /\ CsStart(m + 1) = CsStart(m) + CsSize
BY SizesAssumption DEF CsStart

LEMMA CsStartMonotone ==
  ASSUME NEW a \in Int, NEW b \in Int, CsStart(a) <= CsStart(b)
  PROVE  a <= b
BY SizesAssumption DEF CsStart

LEMMA RcStartMonotone ==
  ASSUME NEW a \in Int, NEW b \in Int, a <= b, junk \in Nat
  PROVE  RcStart(a) <= RcStart(b)
BY SizesAssumption DEF RcStart, ReplyAt

-----------------------------------------------------------------------------
(* The part of the state that starting up goes through.  echo tells        *)
(* whether the MCU got the handshake packet, and until it has got it or    *)
(* given up it sends nothing behind the flush string.                      *)
StartInv ==
  /\ mcu = "boot" => sent = junk
  /\ mcu \in {"await", "reply"} => sent = ReplyAt
  /\ McuLoop => sent > ReplyAt
  /\ mcu \in {"boot", "await"} => echo = 0 /\ "mcuHandshake" \notin lost
  /\ mcu \notin {"boot", "await"} => (echo = 1 <=> "mcuHandshake" \notin lost)
  /\ echo = 1 => dRead > 0
  /\ som = "flush" => committed = 0 /\ consumed = 0
  /\ som \in {"flush", "hsWrite"} => dSent = 0 /\ "handshake" \notin lost
  /\ som \in {"flush", "hsWrite", "hsRead"} => ~acked /\ iter = 0 /\ from = <<>>
  /\ som \in {"hsRead", "readRc", "readImu", "writeCs"} => dSent > 0
  /\ som = "hsRead" => attempt < HandshakeAttempts

(* Unless the MCU gave up on the handshake packet, the buffer is empty     *)
(* while the SoM waits for the reply, which comes next or was dropped by a *)
(* handshake read that timed out.                                          *)
ReplyInv ==
  /\ som \in {"hsWrite", "hsRead"} /\ "mcuHandshake" \notin lost
       => /\ committed = consumed /\ consumed >= ReplyAt
          /\ "handshake" \notin lost => consumed = ReplyAt
  /\ HandshakeGenuine

(* The buffer stays empty between reads, at a boundary between packets.    *)
UpInv ==
  acked /\ "read" \notin lost =>
    /\ echo = 1
    /\ som = "readRc"
         => committed = RcStart(iter + 1) /\ consumed = RcStart(iter + 1)
    /\ som = "readImu"
         => /\ committed = RcStart(iter) + RcSize /\ consumed = committed
            /\ rcAt = RcStart(iter)
    /\ som = "writeCs"
         => /\ committed = RcStart(iter + 1) /\ consumed = RcStart(iter + 1)
            /\ rcAt = RcStart(iter) /\ imuAt = rcAt + RcSize

(* The downlink is a row of whole packets, and the MCU stands between two. *)
DownInv ==
  /\ dSent = 0 => from = <<>>
  /\ dSent > 0 => dSent = CsStart(Len(from) + 1)
  /\ ~McuLoop => round = 0 /\ mcuTimeouts = 0 /\ csAt = None
  /\ mcu \in {"imu", "cs"} => round > 0
  /\ echo = 0 /\ ~McuLoop => dRead = 0
  /\ echo = 1 /\ "torn" \notin lost
       => /\ dRead = CsStart(Got + 1)
          /\ csAt # None => csAt = CsStart(Got) /\ Got \in 1 .. Len(from)

(* The m-th packet written was computed from round m or a later one.       *)
FromInv ==
  acked /\ "read" \notin lost =>
    /\ Len(from) <= iter /\ (som \in {"readImu", "writeCs"} => Len(from) < iter)
    /\ \A m \in 1 .. Len(from) : from[m] >= RcStart(m)

-----------------------------------------------------------------------------
(* What the two outcomes of a read of n bytes do to the stream buffer.     *)
LEMMA ReadOkEffect ==
  ASSUME TypeOK, NEW n \in Nat \ {0}, ReadOk(n)
  PROVE  /\ sent' = sent /\ committed' \in 0 .. sent'
         /\ consumed' \in 0 .. committed'
         /\ committed' = committed + n /\ consumed' = consumed + n
         /\ consumed < sent
BY DEF TypeOK, ReadOk

LEMMA ReadTimeoutEffect ==
  ASSUME TypeOK, NEW n \in Nat \ {0}, ReadTimeout(n)
  PROVE  /\ sent' = sent /\ committed' \in 0 .. sent'
         /\ consumed' \in 0 .. committed'
         /\ \E k \in 0 .. n : /\ committed' = committed + k
                            /\ consumed' = IF k = n THEN consumed + n
                                                    ELSE consumed
<1>1. PICK k \in 0 .. Lesser(n, sent - committed) :
        /\ committed' = committed + k /\ sent' = sent
        /\ consumed' = IF k = n THEN consumed + n ELSE consumed
  BY DEF ReadTimeout
<1>2. k \in 0 .. n /\ k <= sent - committed
  BY <1>1 DEF Lesser, TypeOK
<1> QED
  BY <1>1, <1>2 DEF TypeOK

(* Starting up, together with the types it is inductive with.              *)
THEOREM StartCorrect == Spec => [](TypeOK /\ StartInv)
<1>1. Init => TypeOK /\ StartInv
  <2>1. Init => acked \in BOOLEAN
    BY Zenon DEF Init
  <2> QED
    BY <2>1, SizesAssumption, AttemptsAssumption, LimitsAssumption
       DEF Init, TypeOK, StartInv, McuLoop, None
<1>2. TypeOK /\ StartInv /\ [Next]_vars => TypeOK' /\ StartInv'
  <2> SUFFICES ASSUME TypeOK, StartInv, [Next]_vars
               PROVE  TypeOK' /\ StartInv'
    OBVIOUS
  <2> USE SizesAssumption, AttemptsAssumption, LimitsAssumption
      DEF TypeOK, StartInv, McuLoop, None, ReplyAt, mcuVars, somVars, upVars,
          downVars, history
  <2>1. CASE Announce BY <2>1 DEF Announce, Send
  <2>2. CASE AwaitHandshake
    <3>1. CASE dSent > dRead /\ dRead' = dRead + 1 /\ echo' = 1 /\ lost' = lost
      BY <2>2, <3>1 DEF AwaitHandshake
    <3>2. CASE lost' = lost \cup {"mcuHandshake"} /\ dRead' = dRead /\ echo' = echo
      BY <2>2, <3>2 DEF AwaitHandshake
    <3> QED BY <2>2, <3>1, <3>2 DEF AwaitHandshake
  <2>3. CASE Reply BY <2>3 DEF Reply, Send
  <2>4. CASE WriteRc BY <2>4 DEF WriteRc, Send
  <2>5. CASE WriteImu BY <2>5 DEF WriteImu, Send
  <2>6. CASE ReadCs
    <3>1. CASE dSent - dRead >= CsSize /\ csAt' = dRead
               /\ dRead' = dRead + CsSize /\ UNCHANGED <<lost, mcuTimeouts>>
      BY <2>6, <3>1 DEF ReadCs
    <3>2. ASSUME NEW k \in 0 .. Lesser(CsSize - 1, dSent - dRead),
                 csAt' = None, dRead' = dRead + k,
                 lost' = (IF k > 0 THEN lost \cup {"torn"} ELSE lost),
                 mcuTimeouts' = mcuTimeouts + 1
          PROVE  TypeOK' /\ StartInv'
      <4>1. dRead' \in dRead .. dSent /\ dRead' \in Nat
        BY <3>2 DEF Lesser
      <4>2. /\ lost' \subseteq {"mcuHandshake", "torn", "handshake", "read"}
            /\ lost' \in {lost, lost \cup {"torn"}}
        BY <3>2
      <4> QED
        BY <2>6, <3>2, <4>1, <4>2 DEF ReadCs
    <3> QED BY <2>6, <3>1, <3>2 DEF ReadCs
  <2>7. CASE Flush BY <2>7 DEF Flush, Lesser
  <2>8. CASE WriteHandshake BY <2>8 DEF WriteHandshake, NextAttempt
  <2>9. CASE ReadHandshake
    <3>1. /\ sent' = sent /\ committed' \in 0 .. sent'
          /\ consumed' \in 0 .. committed'
      BY <2>9, ReadOkEffect, ReadTimeoutEffect DEF ReadHandshake
    <3>2. acked' \in BOOLEAN
      BY <2>9, Zenon DEF ReadHandshake
    <3>3. /\ lost' \in {lost, lost \cup {"handshake"}}
          /\ lost' \subseteq {"mcuHandshake", "torn", "handshake", "read"}
      BY <2>9 DEF ReadHandshake
    <3>4. /\ attempt' \in 0 .. HandshakeAttempts
          /\ som' \in {"hsRead", "readRc", "ended"}
          /\ som' = "hsRead" => attempt' < HandshakeAttempts /\ ~acked'
      BY <2>9 DEF ReadHandshake, NextAttempt
    <3> QED
      BY <2>9, <3>1, <3>2, <3>3, <3>4 DEF ReadHandshake
  <2>10. CASE ReadRc
    <3>1. /\ sent' = sent /\ committed' \in 0 .. sent'
          /\ consumed' \in 0 .. committed'
      BY <2>10, ReadOkEffect, ReadTimeoutEffect DEF ReadRc
    <3>2. lost' = lost \/ lost' = lost \cup {"read"}
      BY <2>10 DEF ReadRc
    <3>3. rcAt' \in Nat \cup {None}
      BY <2>10 DEF ReadRc, ReadOk
    <3>4. /\ som = "readRc" /\ som' = "readImu"
          /\ iter' \in Nat /\ imuAt' = None
          /\ UNCHANGED <<mcuVars, attempt, junk, downVars, acked, mcuTimeouts>>
      BY <2>10 DEF ReadRc
    <3> QED
      BY <3>1, <3>2, <3>3, <3>4
  <2>11. CASE ReadImu
    <3>1. /\ sent' = sent /\ committed' \in 0 .. sent'
          /\ consumed' \in 0 .. committed'
      BY <2>11, ReadOkEffect, ReadTimeoutEffect DEF ReadImu
    <3>2. lost' = lost \/ lost' = lost \cup {"read"}
      BY <2>11 DEF ReadImu
    <3>3. imuAt' \in Nat \cup {None}
      BY <2>11 DEF ReadImu, ReadOk
    <3> QED
      BY <2>11, <3>1, <3>2, <3>3 DEF ReadImu
  <2>12. CASE WriteCs BY <2>12 DEF WriteCs
  <2>13. CASE LeaveLoop BY <2>13 DEF LeaveLoop
  <2>14. CASE UNCHANGED vars BY <2>14 DEF vars
  <2> QED
    BY <2>1, <2>2, <2>3, <2>4, <2>5, <2>6, <2>7, <2>8, <2>9, <2>10, <2>11,
       <2>12, <2>13, <2>14 DEF Next, Mcu, Som, Terminated
<1> QED
  BY <1>1, <1>2, PTL DEF Spec

(* Every variable has its type; in particular nothing is consumed before   *)
(* it is committed or committed before it is sent.                         *)
THEOREM TypeCorrect == Spec => []TypeOK
BY StartCorrect, PTL

-----------------------------------------------------------------------------
(* The actions of the MCU leave the SoM's side of the uplink alone, and so *)
(* do the SoM's writes.                                                    *)
LEMMA QuietSteps ==
  ASSUME TypeOK, Mcu \/ WriteHandshake \/ WriteCs \/ LeaveLoop
  PROVE  /\ UNCHANGED <<junk, committed, consumed, rcAt, imuAt, iter, acked>>
         /\ \/ lost' = lost
            \/ mcu = "await" /\ lost' = lost \cup {"mcuHandshake"}
            \/ lost' = lost \cup {"torn"}
<1> USE DEF mcuVars, somVars, upVars, downVars, history, Send
<1>1. CASE Announce \/ Reply \/ WriteRc \/ WriteImu
  BY <1>1 DEF Announce, Reply, WriteRc, WriteImu
<1>2. CASE AwaitHandshake
  BY <1>2 DEF AwaitHandshake
<1>3. CASE ReadCs
  BY <1>3 DEF ReadCs
<1>4. CASE WriteHandshake \/ WriteCs \/ LeaveLoop
  BY <1>4 DEF WriteHandshake, WriteCs, LeaveLoop
<1> QED
  BY <1>1, <1>2, <1>3, <1>4 DEF Mcu

(* The buffer and the line while the SoM waits for the reply.              *)
THEOREM ReplyCorrect == Spec => []ReplyInv
<1>1. Init => ReplyInv
  BY DEF Init, ReplyInv, HandshakeGenuine, InLoop
<1>2. TypeOK /\ StartInv /\ ReplyInv /\ [Next]_vars => ReplyInv'
  <2> SUFFICES ASSUME TypeOK, StartInv, ReplyInv, [Next]_vars
               PROVE  ReplyInv'
    OBVIOUS
  <2> USE SizesAssumption, AttemptsAssumption
      DEF TypeOK, ReplyInv, HandshakeGenuine, InLoop, ReplyAt
  <2>1. CASE Mcu
    <3>1. UNCHANGED <<som, junk, committed, consumed, acked>>
      BY <2>1, QuietSteps
         DEF Mcu, Announce, AwaitHandshake, Reply, WriteRc, WriteImu, ReadCs,
             somVars
    <3>2. lost \subseteq lost'
      BY <2>1, QuietSteps
    <3> QED
      BY <3>1, <3>2
  <2>2. CASE Flush
    <3>1. CASE som' = "hsWrite" /\ "mcuHandshake" \notin lost
      <4>1. sent <= ReplyAt
        BY <2>2, <3>1 DEF StartInv, McuLoop, Flush
      <4>2. committed' = ReplyAt /\ consumed' = ReplyAt
        BY <2>2, <3>1, <4>1 DEF Flush, Lesser
      <4> QED
        BY <2>2, <3>1, <4>2 DEF Flush, history
    <3> QED
      BY <2>2, <3>1 DEF Flush, history
  <2>3. CASE WriteHandshake
    <3>1. lost' = lost /\ som' \in {"hsRead", "ended"} /\ som = "hsWrite"
      BY <2>3 DEF WriteHandshake, NextAttempt, history
    <3> QED
      BY <2>3, <3>1, QuietSteps
  <2>4. CASE ReadHandshake
    <3>1. CASE ReadOk(1) /\ (consumed = ReplyAt => echo = 1)
               /\ som' = "readRc" /\ (acked' <=> consumed = ReplyAt)
               /\ lost' = lost
      BY <2>4, <3>1 DEF ReadHandshake
    <3>2. CASE ReadOk(1) /\ (consumed = ReplyAt => echo # 1)
               /\ NextAttempt(attempt + 1) /\ lost' = lost
      <4>1. consumed' = consumed + 1 /\ committed' = committed + 1
        BY <3>2, ReadOkEffect
      <4>2. consumed = ReplyAt => "mcuHandshake" \in lost
        BY <3>2, ReadOkEffect DEF StartInv, McuLoop
      <4> QED
        BY <2>4, <3>2, <4>1, <4>2 DEF ReadHandshake, NextAttempt
    <3>3. CASE ReadTimeout(1) /\ NextAttempt(attempt + 1)
               /\ lost' = lost \cup {"handshake"}
      <4>1. \/ consumed' = consumed + 1 /\ committed' = committed + 1
            \/ consumed' = consumed /\ committed' = committed
        BY <3>3, ReadTimeoutEffect
      <4> QED
        BY <2>4, <3>3, <4>1 DEF ReadHandshake, NextAttempt
    <3> QED
      BY <2>4, <3>1, <3>2, <3>3 DEF ReadHandshake
  <2>5. CASE ReadRc \/ ReadImu
    BY <2>5 DEF ReadRc, ReadImu
  <2>6. CASE WriteCs \/ LeaveLoop
    BY <2>6 DEF WriteCs, LeaveLoop, history
  <2>7. CASE UNCHANGED vars
    BY <2>7 DEF vars, somVars, upVars, history
  <2> QED
    BY <2>1, <2>2, <2>3, <2>4, <2>5, <2>6, <2>7 DEF Next, Som, Terminated
<1> QED
  BY <1>1, <1>2, StartCorrect, PTL DEF Spec

(* handshakeMCU succeeds on the MCU's reply unless a handshake read, on    *)
(* either side, has timed out.                                             *)
THEOREM HandshakeCorrect == Spec => []HandshakeGenuine
<1>1. ReplyInv => HandshakeGenuine
  BY DEF ReplyInv
<1> QED
  BY <1>1, ReplyCorrect, PTL

-----------------------------------------------------------------------------
(* After a genuine handshake iteration i of the main loop reads the        *)
(* packets of the MCU's round i until one of its reads times out.          *)
THEOREM UpCorrect == Spec => []UpInv
<1>1. Init => UpInv
  BY DEF Init, UpInv
<1>2. TypeOK /\ StartInv /\ ReplyInv /\ UpInv /\ [Next]_vars => UpInv'
  <2> SUFFICES ASSUME TypeOK, StartInv, ReplyInv, UpInv, [Next]_vars,
                      acked', "read" \notin lost'
               PROVE  UpInv'
    BY DEF UpInv
  <2>1. CASE Mcu
    <3>1. /\ UNCHANGED <<som, junk, committed, consumed, acked, iter, rcAt, imuAt>>
          /\ "read" \notin lost
      BY <2>1, QuietSteps
         DEF Mcu, Announce, AwaitHandshake, Reply, WriteRc, WriteImu, ReadCs,
             somVars
    <3>2. acked /\ echo = 1
      BY <3>1 DEF UpInv
    <3>3. echo' = 1
      BY <2>1, <3>2
         DEF Mcu, Announce, AwaitHandshake, Reply, WriteRc, WriteImu, ReadCs
    <3> QED
      BY <3>1, <3>3 DEF UpInv, RcStart, ReplyAt
  <2>2. CASE Flush \/ WriteHandshake
    <3>1. UNCHANGED acked /\ som \in {"flush", "hsWrite"}
      BY <2>2 DEF Flush, WriteHandshake, history
    <3> QED
      BY <3>1 DEF StartInv
  <2>3. CASE ReadHandshake
    <3>1. ~acked /\ iter = 0 /\ som = "hsRead"
      BY <2>3 DEF StartInv, ReadHandshake
    <3>2. /\ ReadOk(1) /\ consumed = ReplyAt /\ echo = 1
          /\ som' = "readRc" /\ UNCHANGED <<echo, iter, junk, lost>>
      BY <2>3, <3>1 DEF ReadHandshake, mcuVars
    <3>3. "mcuHandshake" \notin lost /\ committed = consumed
      BY <3>1, <3>2 DEF StartInv, ReplyInv, TypeOK
    <3>4. committed' = ReplyAt + 1 /\ consumed' = ReplyAt + 1
      BY <3>2, <3>3 DEF ReadOk
    <3>5. RcStart(1) = ReplyAt + 1
      BY SizesAssumption DEF RcStart, ReplyAt, TypeOK
    <3> QED
      BY <3>1, <3>2, <3>4, <3>5 DEF UpInv, RcStart, ReplyAt
  <2>4. CASE ReadRc
    <3>1. /\ ReadOk(RcSize) /\ rcAt' = consumed /\ som = "readRc"
          /\ som' = "readImu" /\ iter' = iter + 1
          /\ UNCHANGED <<junk, acked, lost, echo>>
      BY <2>4 DEF ReadRc, mcuVars
    <3>2. /\ echo = 1
          /\ committed = RcStart(iter + 1) /\ consumed = RcStart(iter + 1)
      BY <3>1 DEF UpInv
    <3>3. /\ committed' = RcStart(iter') + RcSize /\ consumed' = committed'
          /\ rcAt' = RcStart(iter')
      BY <3>1, <3>2 DEF ReadOk
    <3> QED
      BY <3>1, <3>2, <3>3 DEF UpInv, RcStart, ReplyAt
  <2>5. CASE ReadImu
    <3>1. /\ ReadOk(ImuSize) /\ imuAt' = consumed /\ som = "readImu"
          /\ som' = "writeCs"
          /\ UNCHANGED <<junk, acked, lost, echo, iter, rcAt>>
      BY <2>5 DEF ReadImu, mcuVars
    <3>2. /\ echo = 1 /\ committed = RcStart(iter) + RcSize
          /\ consumed = committed /\ rcAt = RcStart(iter)
      BY <3>1 DEF UpInv
    <3>3. /\ RcStart(iter + 1) = RcStart(iter) + RcSize + ImuSize
          /\ RcStart(iter) \in Int
      <4>1. iter \in Int /\ junk \in Nat
        BY DEF TypeOK
      <4> QED
        BY <4>1, RcStartNext
    <3>4. /\ committed' = RcStart(iter + 1) /\ consumed' = committed'
          /\ imuAt' = rcAt + RcSize
      BY <3>1, <3>2, <3>3 DEF ReadOk
    <3> QED
      BY <3>1, <3>2, <3>4 DEF UpInv, RcStart, ReplyAt
  <2>6. CASE WriteCs
    BY <2>6 DEF UpInv, WriteCs, mcuVars, upVars, history, RcStart, ReplyAt
  <2>7. CASE LeaveLoop
    BY <2>7 DEF UpInv, LeaveLoop, mcuVars, history
  <2>8. CASE UNCHANGED vars
    BY <2>8 DEF UpInv, vars, mcuVars, somVars, upVars, history, RcStart, ReplyAt
  <2> QED
    BY <2>1, <2>2, <2>3, <2>4, <2>5, <2>6, <2>7, <2>8 DEF Next, Som, Terminated
<1> QED
  BY <1>1, <1>2, StartCorrect, ReplyCorrect, PTL DEF Spec

(* The packets of the uplink stay framed, whatever the downlink does.      *)
THEOREM UpFramingCorrect == Spec => []UpFraming
<1>1. UpInv => UpFraming
  BY DEF UpInv, UpFraming
<1> QED
  BY <1>1, UpCorrect, PTL

-----------------------------------------------------------------------------
(* The MCU stands between two packets of the downlink after every round    *)
(* that did not tear one.                                                  *)
THEOREM DownCorrect == Spec => []DownInv
<1>1. Init => DownInv
  BY DEF Init, DownInv, McuLoop
<1>2. TypeOK /\ StartInv /\ DownInv /\ [Next]_vars => DownInv'
  <2> SUFFICES ASSUME TypeOK, StartInv, DownInv, [Next]_vars
               PROVE  DownInv'
    OBVIOUS
  <2>0. CsStart(1) = 1
    BY SizesAssumption DEF CsStart
  <2> USE DEF mcuVars, somVars, downVars, history, McuLoop
  <2>1. CASE Announce \/ Reply \/ WriteRc \/ WriteImu
    <3>1. UNCHANGED <<dSent, dRead, from, echo, lost, mcuTimeouts, csAt>>
      BY <2>1 DEF Announce, Reply, WriteRc, WriteImu
    <3>2. Done' = Done
      BY <2>1 DEF Announce, Reply, WriteRc, WriteImu, Done, TypeOK
    <3>3. Got' = Got
      BY <3>1, <3>2 DEF Got
    <3> QED
      BY <2>1, <3>1, <3>3
         DEF Announce, Reply, WriteRc, WriteImu, DownInv, TypeOK, CsStart
  <2>2. CASE AwaitHandshake
    <3>1. /\ mcu = "await" /\ mcu' = "reply" /\ dRead = 0 /\ round = 0
          /\ mcuTimeouts = 0 /\ csAt = None
          /\ UNCHANGED <<dSent, from, round, mcuTimeouts, csAt>>
      BY <2>2 DEF AwaitHandshake, DownInv, StartInv
    <3>2. Got' = 0
      BY <3>1 DEF Got, Done
    <3>3. \/ dRead' = 1 /\ echo' = 1
          \/ dRead' = 0 /\ echo' = 0
      BY <2>2, <3>1 DEF AwaitHandshake, StartInv
    <3> QED
      BY <2>0, <3>1, <3>2, <3>3 DEF DownInv, CsStart
  <2>3. CASE ReadCs
    <3>1. /\ mcu = "cs" /\ mcu' = "rc"
          /\ UNCHANGED <<dSent, from, echo, round>>
      BY <2>3 DEF ReadCs
    <3>2. Done' = Done + 1 /\ Done \in Int
      BY <3>1 DEF Done, TypeOK
    <3>3. SUFFICES ASSUME echo = 1, "torn" \notin lost'
                   PROVE  /\ dRead' = CsStart(Got' + 1)
                          /\ csAt' # None => /\ csAt' = CsStart(Got')
                                             /\ Got' \in 1 .. Len(from)
      BY <3>1 DEF DownInv, CsStart
    <3>4. "torn" \notin lost
      BY <2>3, <3>3 DEF ReadCs
    <3>5. dRead = CsStart(Got + 1) /\ dSent = CsStart(Len(from) + 1)
      BY <3>3, <3>4 DEF DownInv, StartInv, TypeOK
    <3>6. Got \in Int /\ Len(from) \in Nat
      BY <3>2 DEF Got, TypeOK
    <3>7. CASE dSent - dRead >= CsSize /\ csAt' = dRead
               /\ dRead' = dRead + CsSize /\ UNCHANGED mcuTimeouts
      <4>1. Got' = Got + 1
        BY <3>2, <3>7 DEF Got, TypeOK
      <4>2. CsStart(Got + 2) = CsStart(Got + 1) + CsSize
        <5>1. Got + 1 \in Int /\ (Got + 1) + 1 = Got + 2
          BY <3>6
        <5> QED
          BY <5>1, CsStartNext
      <4>3. CsStart(Got + 2) <= CsStart(Len(from) + 1)
        BY <3>5, <3>7, <4>2, SizesAssumption DEF TypeOK
      <4>4. Got + 1 <= Len(from)
        BY <3>6, <4>3, CsStartMonotone
      <4>5. CsStart(1) <= CsStart(Got + 1)
        BY <2>0, <3>3, <3>5 DEF StartInv, TypeOK
      <4>6. 1 <= Got + 1
        BY <3>6, <4>5, CsStartMonotone
      <4> QED
        BY <3>5, <3>6, <3>7, <4>1, <4>2, <4>4, <4>6
    <3>8. CASE csAt' = None /\ mcuTimeouts' = mcuTimeouts + 1 /\ dRead' = dRead
      <4>1. Got' = Got
        BY <3>2, <3>8 DEF Got, TypeOK
      <4> QED
        BY <3>5, <3>8, <4>1
    <3> QED
      <4>1. ASSUME NEW k \in 0 .. Lesser(CsSize - 1, dSent - dRead),
                   dRead' = dRead + k,
                   lost' = (IF k > 0 THEN lost \cup {"torn"} ELSE lost)
            PROVE  dRead' = dRead
        BY <3>3, <4>1 DEF TypeOK, Lesser
      <4> QED
        BY <2>3, <3>7, <3>8, <4>1 DEF ReadCs
  <2>4. CASE WriteHandshake
    <3>1. /\ dSent = 0 /\ from = <<>> /\ dSent' \in {0, 1}
          /\ UNCHANGED <<mcu, echo, round, csAt, dRead, from, lost, mcuTimeouts>>
      BY <2>4 DEF WriteHandshake, StartInv, DownInv
    <3>2. echo = 0
      BY <3>1 DEF StartInv, TypeOK
    <3> QED
      BY <2>0, <3>1, <3>2 DEF DownInv
  <2>5. CASE WriteCs
    <3>1. UNCHANGED <<mcu, echo, round, csAt, dRead, lost, mcuTimeouts>>
      BY <2>5 DEF WriteCs
    <3>2. Got' = Got
      BY <3>1 DEF Got, Done
    <3>3. CASE UNCHANGED <<dSent, from>>
      BY <3>1, <3>2, <3>3 DEF DownInv, CsStart
    <3>4. CASE dSent' = dSent + CsSize /\ from' = Append(from, rcAt)
      <4>1. Len(from') = Len(from) + 1 /\ Len(from) \in Nat
        BY <3>4 DEF TypeOK, None
      <4>2. dSent > 0 /\ dSent = CsStart(Len(from) + 1)
        BY <2>5 DEF WriteCs, StartInv, DownInv
      <4>3. dSent' = CsStart(Len(from') + 1)
        BY <3>4, <4>1, <4>2, CsStartNext
      <4>4. dSent' > 0
        BY <3>4, <4>2, SizesAssumption DEF TypeOK
      <4> QED
        BY <3>1, <3>2, <4>1, <4>3, <4>4 DEF DownInv, CsStart
    <3> QED
      BY <2>5, <3>3, <3>4 DEF WriteCs
  <2>6. CASE Flush \/ LeaveLoop \/ ReadHandshake \/ ReadRc \/ ReadImu
             \/ UNCHANGED vars
    <3>1. /\ UNCHANGED <<mcu, echo, round, csAt, dSent, dRead, from, mcuTimeouts>>
          /\ "torn" \in lost => "torn" \in lost'
      BY <2>6 DEF Flush, LeaveLoop, ReadHandshake, ReadRc, ReadImu, vars
    <3>2. Got' = Got
      BY <3>1 DEF Got, Done
    <3> QED
      BY <3>1, <3>2 DEF DownInv, CsStart
  <2> QED
    BY <2>1, <2>2, <2>3, <2>4, <2>5, <2>6 DEF Next, Mcu, Som, Terminated
<1> QED
  BY <1>1, <1>2, StartCorrect, PTL DEF Spec

(* What the MCU takes for a ControlSurfacePacket is one the SoM wrote.     *)
THEOREM DownFramingCorrect == Spec => []DownFraming
<1>1. DownInv => DownFraming
  BY DEF DownInv, DownFraming
<1> QED
  BY <1>1, DownCorrect, PTL

-----------------------------------------------------------------------------
(* The m-th packet on the downlink is computed from a round no earlier     *)
(* than m: lost writes only make the packets fewer and fresher.            *)
THEOREM FromCorrect == Spec => []FromInv
<1>1. Init => FromInv
  BY DEF Init, FromInv
<1>2. TypeOK /\ StartInv /\ UpInv /\ FromInv /\ [Next]_vars => FromInv'
  <2> SUFFICES ASSUME TypeOK, StartInv, UpInv, FromInv, [Next]_vars,
                      acked', "read" \notin lost'
               PROVE  FromInv'
    BY DEF FromInv
  <2>1. CASE ReadHandshake
    <3>1. /\ iter = 0 /\ from = <<>> /\ UNCHANGED <<iter, from>>
          /\ som' \in {"hsRead", "readRc", "ended"}
      BY <2>1 DEF ReadHandshake, StartInv, NextAttempt, downVars
    <3> QED
      BY <3>1 DEF FromInv
  <2>2. CASE ReadRc
    <3>1. /\ acked /\ "read" \notin lost /\ UNCHANGED <<from, junk>>
          /\ iter' = iter + 1
      BY <2>2 DEF ReadRc, downVars
    <3>2. Len(from) \in Nat /\ iter \in Nat
      BY DEF TypeOK
    <3> QED
      BY <3>1, <3>2 DEF FromInv, RcStart, ReplyAt
  <2>3. CASE WriteCs
    <3>1. /\ acked /\ "read" \notin lost /\ UNCHANGED <<junk, iter>>
          /\ som = "writeCs" /\ som' = "readRc"
      BY <2>3 DEF WriteCs, history
    <3>2. /\ Len(from) < iter /\ rcAt = RcStart(iter)
          /\ \A m \in 1 .. Len(from) : from[m] >= RcStart(m)
      BY <3>1 DEF FromInv, UpInv
    <3>3. CASE UNCHANGED from
      BY <3>1, <3>2, <3>3 DEF FromInv, RcStart, ReplyAt, TypeOK
    <3>4. CASE from' = Append(from, rcAt)
      <4>1. /\ Len(from') = Len(from) + 1 /\ Len(from) \in Nat
            /\ iter \in Nat /\ junk \in Nat
            /\ \A m \in 1 .. Len(from) : from'[m] = from[m]
            /\ from'[Len(from) + 1] = rcAt
        BY <3>4 DEF TypeOK, None
      <4>2. RcStart(Len(from) + 1) <= RcStart(iter)
        BY <3>2, <4>1, RcStartMonotone
      <4>3. RcStart(Len(from) + 1) \in Int /\ RcStart(iter) \in Int
        BY <4>1, RcStartNext
      <4>4. from'[Len(from) + 1] >= RcStart(Len(from) + 1)
        BY <3>2, <4>1, <4>2, <4>3
      <4>5. \A m \in 1 .. Len(from') : from'[m] >= RcStart(m)
        BY <3>2, <4>1, <4>4
      <4> QED
        BY <3>1, <3>2, <4>1, <4>5 DEF FromInv, RcStart, ReplyAt
    <3> QED
      BY <2>3, <3>3, <3>4 DEF WriteCs
  <2>4. CASE Mcu \/ Flush \/ WriteHandshake \/ ReadImu \/ LeaveLoop
             \/ UNCHANGED vars
    <3>1. /\ UNCHANGED <<from, junk, iter, acked>>
          /\ "read" \notin lost
          /\ som' \in {"readImu", "writeCs"} => som \in {"readImu", "writeCs"}
      <4> USE DEF mcuVars, somVars, downVars, history
      <4>1. CASE Mcu
        BY <4>1, QuietSteps
           DEF Mcu, Announce, AwaitHandshake, Reply, WriteRc, WriteImu, ReadCs
      <4>2. CASE Flush \/ WriteHandshake \/ ReadImu \/ LeaveLoop
        BY <4>2 DEF Flush, WriteHandshake, NextAttempt, ReadImu, LeaveLoop
      <4>3. CASE UNCHANGED vars
        BY <4>3 DEF vars
      <4> QED
        BY <2>4, <4>1, <4>2, <4>3
    <3> QED
      BY <3>1 DEF FromInv, RcStart, ReplyAt
  <2> QED
    BY <2>1, <2>2, <2>3, <2>4 DEF Next, Som, Terminated
<1> QED
  BY <1>1, <1>2, StartCorrect, UpCorrect, PTL DEF Spec

(* The controls lag behind the sensors by at most one round for every      *)
(* round in which the MCU gave up on its packet.                           *)
THEOREM LagCorrect == Spec => []LagBounded
<1>1. TypeOK /\ UpInv /\ DownInv /\ FromInv => LagBounded
  <2> SUFFICES ASSUME TypeOK, UpInv, DownInv, FromInv, acked,
                      lost \cap {"read", "torn"} = {}, mcu = "rc", csAt # None
               PROVE  \E m \in 1 .. Len(from) :
                        /\ csAt = CsStart(m)
                        /\ from[m] >= RcStart(round - mcuTimeouts)
    BY DEF LagBounded
  <2>1. echo = 1 /\ "read" \notin lost /\ "torn" \notin lost
    BY DEF UpInv
  <2>2. csAt = CsStart(Got) /\ Got \in 1 .. Len(from)
    BY <2>1 DEF DownInv
  <2>3. Got = round - mcuTimeouts
    BY DEF Got, Done
  <2>4. from[Got] >= RcStart(Got)
    BY <2>1, <2>2 DEF FromInv
  <2> QED
    BY <2>2, <2>3, <2>4
<1> QED
  BY <1>1, StartCorrect, UpCorrect, DownCorrect, FromCorrect, PTL

-----------------------------------------------------------------------------
(* The MCU sends its packets round by round, gets at least those that it   *)
(* counts, and the SoM writes no packet before the round it is for.        *)
SentInv ==
  /\ mcu = "rc" => sent = RcStart(round + 1)
  /\ mcu = "imu" => sent = RcStart(round) + RcSize
  /\ mcu = "cs" => sent = RcStart(round + 1)
  /\ echo = 1 => dRead >= CsStart(Got + 1)
  /\ acked /\ "read" \notin lost => Len(from) <= Done + 1

(* What an iteration has read has been sent.                               *)
LEMMA IterRound ==
  ASSUME TypeOK, StartInv, UpInv, SentInv, acked, "read" \notin lost,
         som = "writeCs"
  PROVE  iter <= Done + 1
<1>0. /\ iter \in Int /\ junk \in Nat /\ round \in Int /\ sent \in Int
      /\ committed <= sent /\ sent >= RcStart(iter + 1)
  BY DEF TypeOK, UpInv
<1>1. mcu \in {"rc", "imu", "cs"}
  <2>1. echo = 1 /\ mcu # "reply" /\ mcu # "await" /\ mcu # "boot"
    <3>1. RcStart(iter + 1) > ReplyAt
      <4>1. RcStart(1) = ReplyAt + 1 /\ ReplyAt \in Int
        BY SizesAssumption DEF RcStart, ReplyAt, TypeOK
      <4>2. RcStart(1) <= RcStart(iter + 1) /\ RcStart(iter + 1) \in Int
        BY <1>0, RcStartMonotone, RcStartNext DEF TypeOK
      <4> QED
        BY <4>1, <4>2
    <3> QED
      BY <1>0, <3>1, SizesAssumption DEF UpInv, StartInv, ReplyAt, TypeOK
  <2> QED
    BY <2>1 DEF TypeOK
<1>2. ASSUME round < iter PROVE FALSE
  <2>1. RcStart(round + 1) <= RcStart(iter) /\ RcStart(iter) \in Int
    BY <1>0, <1>2, RcStartMonotone, RcStartNext
  <2>2. /\ RcStart(iter + 1) = RcStart(iter) + RcSize + ImuSize
        /\ RcStart(round + 1) = RcStart(round) + RcSize + ImuSize
        /\ RcStart(round) \in Int
    BY <1>0, RcStartNext
  <2> QED
    BY <1>0, <1>1, <2>1, <2>2, SizesAssumption DEF SentInv
<1> QED
  BY <1>0, <1>2 DEF Done

THEOREM SentCorrect == Spec => []SentInv
<1>1. Init => SentInv
  BY DEF Init, SentInv
<1>2. TypeOK /\ StartInv /\ UpInv /\ DownInv /\ FromInv /\ SentInv /\ [Next]_vars
        => SentInv'
  <2> SUFFICES ASSUME TypeOK, StartInv, UpInv, DownInv, FromInv, SentInv,
                      [Next]_vars
               PROVE  SentInv'
    OBVIOUS
  <2>0. /\ junk \in Nat /\ round \in Int /\ mcuTimeouts \in Int
        /\ Done \in Int /\ Got \in Int /\ Len(from) \in Nat /\ dRead \in Int
    BY DEF TypeOK, Done, Got
  <2> USE DEF mcuVars, somVars, upVars, downVars, history
  <2>1. CASE Announce \/ AwaitHandshake
    <3>1. ~acked' \/ "read" \in lost'
      BY <2>1
         DEF Announce, AwaitHandshake, StartInv, DownInv, UpInv, McuLoop
    <3>2. /\ round = 0 /\ mcuTimeouts = 0 /\ echo = 0 /\ dRead = 0
          /\ mcu' \in {"await", "reply"} /\ UNCHANGED <<round, mcuTimeouts>>
      BY <2>1 DEF Announce, AwaitHandshake, StartInv, DownInv, McuLoop
    <3>3. echo' = 1 => dRead' = 1
      BY <2>1, <3>2 DEF Announce, AwaitHandshake
    <3>4. CsStart(1) = 1 /\ Got' = 0
      BY <3>2, SizesAssumption DEF CsStart, Got, Done
    <3> QED
      BY <3>1, <3>2, <3>3, <3>4 DEF SentInv, CsStart
  <2>2. CASE Reply \/ WriteRc \/ WriteImu
    <3>1. /\ UNCHANGED <<echo, dRead, from, mcuTimeouts, acked, lost, junk>>
          /\ Done' = Done
      BY <2>2, <2>0 DEF Reply, WriteRc, WriteImu, Done, DownInv
    <3>2. /\ mcu' = "rc" => sent' = RcStart(round' + 1)
          /\ mcu' = "imu" => sent' = RcStart(round') + RcSize
          /\ mcu' = "cs" => sent' = RcStart(round' + 1)
      <4>1. CASE Reply
        <5>1. sent' = ReplyAt + 1 /\ round' = 0 /\ mcu' = "rc"
          BY <4>1 DEF Reply, Send, StartInv, DownInv, McuLoop
        <5>2. RcStart(1) = ReplyAt + 1
          BY <2>0, SizesAssumption DEF RcStart, ReplyAt
        <5> QED
          BY <5>1, <5>2
      <4>2. CASE WriteRc
        BY <2>0, <4>2 DEF WriteRc, Send, SentInv
      <4>3. CASE WriteImu
        BY <2>0, <4>3, RcStartNext, SizesAssumption
           DEF WriteImu, Send, SentInv
      <4> QED
        BY <2>2, <4>1, <4>2, <4>3
    <3> QED
      BY <3>1, <3>2 DEF SentInv, Got, CsStart, RcStart, ReplyAt
  <2>3. CASE ReadCs
    <3>1. /\ mcu = "cs" /\ mcu' = "rc" /\ Done' = Done + 1
          /\ UNCHANGED <<dSent, from, echo, round, sent, junk, acked>>
      BY <2>0, <2>3 DEF ReadCs, Done
    <3>2. "read" \in lost => "read" \in lost'
      BY <2>3 DEF ReadCs
    <3>3. echo = 1 => dRead' >= CsStart(Got' + 1)
      <4>1. CASE dRead' = dRead + CsSize /\ UNCHANGED mcuTimeouts
        <5>1. Got' = Got + 1 /\ CsStart(Got + 2) = CsStart(Got + 1) + CsSize
              /\ CsStart(Got + 1) \in Int
          <6>1. Got + 1 \in Int /\ (Got + 1) + 1 = Got + 2
            BY <2>0
          <6>2. Got' = Got + 1
            BY <2>0, <3>1, <4>1 DEF Got
          <6>3. /\ CsStart(Got + 1) \in Int
                /\ CsStart((Got + 1) + 1) = CsStart(Got + 1) + CsSize
            BY <6>1, CsStartNext
          <6> QED
            BY <6>1, <6>2, <6>3
        <5> QED
          BY <2>0, <4>1, <5>1, SizesAssumption DEF SentInv
      <4>2. ASSUME NEW k \in 0 .. Lesser(CsSize - 1, dSent - dRead),
                   dRead' = dRead + k, mcuTimeouts' = mcuTimeouts + 1
            PROVE  echo = 1 => dRead' >= CsStart(Got' + 1)
        <5>1. Got' = Got /\ CsStart(Got + 1) \in Int
          BY <2>0, <3>1, <4>2, CsStartNext DEF Got
        <5> QED
          BY <2>0, <4>2, <5>1 DEF SentInv, Lesser
      <4> QED
        BY <2>3, <4>1, <4>2 DEF ReadCs
    <3> QED
      BY <2>0, <3>1, <3>2, <3>3 DEF SentInv, CsStart, RcStart, ReplyAt
  <2>4. CASE WriteCs
    <3>1. /\ UNCHANGED <<mcu, echo, round, sent, junk, dRead, mcuTimeouts,
                         acked, lost>>
          /\ som = "writeCs"
      BY <2>4 DEF WriteCs
    <3>2. Done' = Done /\ Got' = Got
      BY <3>1 DEF Done, Got
    <3>3. acked /\ "read" \notin lost => Len(from') <= Done + 1
      <4>1. CASE from' = from
        BY <4>1 DEF SentInv
      <4>2. CASE from' = Append(from, rcAt)
        <5>1. Len(from') = Len(from) + 1
          BY <4>2 DEF TypeOK, None
        <5> QED
          BY <2>0, <3>1, <5>1, IterRound DEF FromInv, TypeOK
      <4> QED
        BY <2>4, <4>1, <4>2 DEF WriteCs
    <3> QED
      BY <3>1, <3>2, <3>3 DEF SentInv, CsStart, RcStart, ReplyAt
  <2>5. CASE ReadHandshake
    <3>1. /\ UNCHANGED <<mcu, echo, round, sent, junk, dRead, mcuTimeouts,
                         from>>
          /\ from = <<>>
      BY <2>5 DEF ReadHandshake, StartInv, ReadOk, ReadTimeout
    <3>2. Done' = Done /\ Got' = Got /\ Done \in Nat
      BY <3>1 DEF Done, Got, TypeOK, DownInv
    <3> QED
      BY <3>1, <3>2 DEF SentInv, CsStart, RcStart, ReplyAt
  <2>6. CASE \/ Flush \/ WriteHandshake \/ ReadRc \/ ReadImu \/ LeaveLoop
             \/ UNCHANGED vars
    <3>1. /\ UNCHANGED <<mcu, echo, round, sent, junk, dRead, mcuTimeouts,
                         from, acked>>
          /\ "read" \in lost => "read" \in lost'
      BY <2>6 DEF Flush, WriteHandshake, ReadRc, ReadImu, LeaveLoop, ReadOk,
                  ReadTimeout, vars
    <3>2. Done' = Done /\ Got' = Got
      BY <3>1 DEF Done, Got
    <3> QED
      BY <3>1, <3>2 DEF SentInv, CsStart, RcStart, ReplyAt
  <2> QED
    BY <2>1, <2>2, <2>3, <2>4, <2>5, <2>6 DEF Next, Mcu, Som, Terminated
<1> QED
  BY <1>1, <1>2, StartCorrect, UpCorrect, DownCorrect, FromCorrect, PTL DEF Spec

(* The MCU's receive buffer: one packet, and one for each missed round.    *)
THEOREM BacklogCorrect == Spec => []BacklogBounded
<1>1. TypeOK /\ StartInv /\ UpInv /\ DownInv /\ SentInv => BacklogBounded
  <2> SUFFICES ASSUME TypeOK, StartInv, UpInv, DownInv, SentInv, acked,
                      "read" \notin lost
               PROVE  dSent - dRead <= CsSize * (mcuTimeouts + 1)
    BY DEF BacklogBounded
  <2>0. /\ mcuTimeouts \in Int /\ Got \in Int /\ Done \in Int
        /\ Len(from) \in Int /\ CsSize \in Nat /\ dRead \in Int
    BY SizesAssumption DEF TypeOK, Done, Got
  <2>1. echo = 1 /\ dSent > 0
    BY DEF UpInv, StartInv, TypeOK
  <2>2. /\ dSent = 1 + Len(from) * CsSize
        /\ dRead >= 1 + Got * CsSize
    BY <2>0, <2>1 DEF DownInv, SentInv, CsStart
  <2>3. Len(from) <= Got + mcuTimeouts + 1
    BY <2>0 DEF SentInv, Got
  <2>4. Len(from) * CsSize <= (Got + mcuTimeouts + 1) * CsSize
    BY <2>0, <2>3
  <2>5. (Got + mcuTimeouts + 1) * CsSize
          = Got * CsSize + CsSize * (mcuTimeouts + 1)
    BY <2>0
  <2> QED
    BY <2>0, <2>2, <2>4, <2>5
<1> QED
  BY <1>1, StartCorrect, UpCorrect, DownCorrect, SentCorrect, PTL
=============================================================================
