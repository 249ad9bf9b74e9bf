----------------------------- MODULE SerialLink -----------------------------
(***************************************************************************)
(* The MCU sketch (impl/src/mcu/mcu.ino) and the SoM's main thread         *)
(* (SomController::handshakeMCU and runMainLoop) over the serial line.     *)
(*                                                                         *)
(* Packets carry no header: both ends rely on counting bytes.  Each        *)
(* direction of the line is a stream of numbered bytes, and what an end    *)
(* takes for a packet is known by the number of its first byte.  Calls on  *)
(* SerialController succeed or time out as a whole; how a call races with  *)
(* its own cancellation is in SomController.                               *)
(*                                                                         *)
(* The uplink holds, in this order: junk left from before the MCU's reset, *)
(* the flush string, the MCU's handshake reply, and then one RcRxPacket    *)
(* and one ImuPacket for every round of loop().  The downlink holds the    *)
(* handshake packet and then one ControlSurfacePacket for every write.     *)
(***************************************************************************)
EXTENDS Integers, Sequences

CONSTANTS
  RcSize, ImuSize, CsSize,  \* sizeof the three packets of the main loop
  FlushSize,                \* length of the string both ends agree on
  HandshakeAttempts,        \* c_handshakeAttempts
  MaxJunk,                  \* bound: old bytes on the uplink
  MaxRounds,                \* bound: rounds of the MCU's loop()
  MaxIters                  \* bound: iterations of runMainLoop

ASSUME SizesAssumption ==
  /\ RcSize \in Nat \ {0} /\ ImuSize \in Nat \ {0}
  /\ CsSize \in Nat \ {0} /\ FlushSize \in Nat \ {0}
ASSUME AttemptsAssumption == HandshakeAttempts \in Nat
ASSUME LimitsAssumption ==
  MaxJunk \in Nat /\ MaxRounds \in Nat /\ MaxIters \in Nat

VARIABLES
  mcu,          \* where the sketch is
  echo,         \* handshakePacket.handshake on the MCU
  round,        \* rounds of loop() begun
  csAt,         \* first byte of the packet in csPacket; None while it is
                \* torn or left over from an earlier round
  som,          \* where the SoM's main thread is
  attempt,      \* i in handshakeMCU
  iter,         \* iterations of the main loop begun
  rcAt, imuAt,  \* first byte of each packet read in this iteration, or None
  junk,         \* old bytes on the uplink at the start
  sent,         \* uplink bytes sent
  committed,    \* uplink bytes moved from the port to m_streamBuffer
  consumed,     \* uplink bytes consumed from m_streamBuffer
  dSent,        \* downlink bytes sent
  dRead,        \* downlink bytes read
  from,         \* history: rcAt of the iteration that wrote each packet
  acked,        \* history: the byte accepted as a handshake was the reply
  lost,         \* history: which calls have timed out
  mcuTimeouts   \* history: rounds whose ControlSurfacePacket did not come

mcuVars == <<mcu, echo, round, csAt>>
somVars == <<som, attempt, iter, rcAt, imuAt>>
upVars == <<sent, committed, consumed>>
downVars == <<dSent, dRead, from>>
history == <<acked, lost, mcuTimeouts>>
vars == <<mcuVars, somVars, junk, upVars, downVars, history>>

None == -1

(* Where things are on the two streams.                                    *)
ReplyAt == junk + FlushSize
RcStart(n) == ReplyAt + 1 + (n - 1) * (RcSize + ImuSize)
CsStart(m) == 1 + (m - 1) * CsSize

InLoop == som \in {"readRc", "readImu", "writeCs"}
McuLoop == mcu \in {"rc", "imu", "cs"}

Lesser(a, b) == IF a < b THEN a ELSE b

Init ==
  /\ mcu = "boot" /\ echo = 0 /\ round = 0 /\ csAt = None
  /\ som = "flush" /\ attempt = 0 /\ iter = 0 /\ rcAt = None /\ imuAt = None
  /\ junk \in 0 .. MaxJunk
  /\ sent = junk /\ committed = 0 /\ consumed = 0
  /\ dSent = 0 /\ dRead = 0 /\ from = <<>>
  /\ acked = FALSE /\ lost = {} /\ mcuTimeouts = 0

-----------------------------------------------------------------------------
(* The MCU.                                                                *)

(* Bytes leave for the SoM.                                                *)
Send(n) == sent' = sent + n /\ UNCHANGED <<committed, consumed>>

(* Serial.println("flush")                                                 *)
Announce ==
  /\ mcu = "boot"
  /\ mcu' = "await"
  /\ Send(FlushSize)
  /\ UNCHANGED <<echo, round, csAt, somVars, junk, downVars, history>>

(* readPacket(handshakePacket): Serial.readBytes gives up after a second   *)
(* and the sketch does not look at what it returned.                       *)
AwaitHandshake ==
  /\ mcu = "await"
  /\ mcu' = "reply"
  /\ \/ /\ dSent > dRead
        /\ dRead' = dRead + 1 /\ echo' = 1
        /\ UNCHANGED lost
     \/ lost' = lost \cup {"mcuHandshake"} /\ UNCHANGED <<dRead, echo>>
  /\ UNCHANGED <<round, csAt, somVars, junk, upVars, dSent, from, acked,
                 mcuTimeouts>>

(* writePacket(handshakePacket), and the rest of setup().                  *)
Reply ==
  /\ mcu = "reply"
  /\ mcu' = "rc"
  /\ Send(1)
  /\ UNCHANGED <<echo, round, csAt, somVars, junk, downVars, history>>

WriteRc ==
  /\ mcu = "rc" /\ round < MaxRounds
  /\ mcu' = "imu" /\ round' = round + 1
  /\ Send(RcSize)
  /\ UNCHANGED <<echo, csAt, somVars, junk, downVars, history>>

WriteImu ==
  /\ mcu = "imu"
  /\ mcu' = "cs"
  /\ Send(ImuSize)
  /\ UNCHANGED <<echo, round, csAt, somVars, junk, downVars, history>>

(* Mutant: the latest packet is taken and those before it are dropped.     *)
ReadCs_Latest ==
  /\ mcu = "cs" /\ mcu' = "rc"
  /\ \/ /\ dSent - dRead >= CsSize
        /\ csAt' = dSent - CsSize /\ dRead' = dSent
        /\ UNCHANGED mcuTimeouts
     \/ csAt' = None /\ mcuTimeouts' = mcuTimeouts + 1 /\ UNCHANGED dRead
  /\ UNCHANGED <<echo, round, somVars, junk, upVars, dSent, from, acked, lost>>

(* readPacket(csPacket) and the servo write.  readBytes waits up to a      *)
(* second for each byte; when it gives up, the bytes it did get overwrite  *)
(* the front of csPacket, which is applied all the same.                   *)
ReadCs ==
  /\ mcu = "cs"
  /\ mcu' = "rc"
  /\ \/ /\ dSent - dRead >= CsSize
        /\ csAt' = dRead /\ dRead' = dRead + CsSize
        /\ UNCHANGED <<lost, mcuTimeouts>>
     \/ \E k \in 0 .. Lesser(CsSize - 1, dSent - dRead) :
          /\ csAt' = None /\ dRead' = dRead + k
          /\ lost' = IF k > 0 THEN lost \cup {"torn"} ELSE lost
          /\ mcuTimeouts' = mcuTimeouts + 1
  /\ UNCHANGED <<echo, round, somVars, junk, upVars, dSent, from, acked>>

-----------------------------------------------------------------------------
(* The SoM.                                                                *)

(* A read of n bytes completes when n more bytes reach the buffer, however *)
(* many it holds already, and takes its packet from the buffer's front.    *)
ReadOk(n) ==
  /\ sent - committed >= n
  /\ committed' = committed + n /\ consumed' = consumed + n
  /\ UNCHANGED sent

(* Mutant: a read that times out consumes its packet's size regardless.    *)
ReadTimeout_ConsumesAll(n) ==
  \E k \in 0 .. Lesser(n, sent - committed) :
    committed' = committed + k /\ consumed' = consumed + n /\ UNCHANGED sent

(* A read that times out leaves in the buffer what had arrived.  If all of *)
(* it had, the handler still consumes it and the packet is dropped.        *)
ReadTimeout(n) ==
  \E k \in 0 .. Lesser(n, sent - committed) :
    /\ committed' = committed + k
    /\ consumed' = IF k = n THEN consumed + n ELSE consumed
    /\ UNCHANGED sent

(* Mutant: flush takes what is there and does not wait for the string.     *)
Flush_NoString ==
  /\ som = "flush" /\ som' = "hsWrite"
  /\ committed' \in 0 .. sent /\ consumed' = committed'
  /\ UNCHANGED <<mcuVars, attempt, iter, rcAt, imuAt, junk, sent, downVars,
                 history>>

(* flush reads until the string is in the buffer, possibly with bytes      *)
(* behind it, and consumes twice as many bytes as the string's end.        *)
Flush ==
  /\ som = "flush"
  /\ \/ /\ sent >= ReplyAt
        /\ committed' \in ReplyAt .. sent
        /\ consumed' = Lesser(2 * ReplyAt, committed')
        /\ som' = "hsWrite"
     \/ som' = "ended" /\ UNCHANGED <<committed, consumed>>
  /\ UNCHANGED <<mcuVars, attempt, iter, rcAt, imuAt, junk, sent, downVars,
                 history>>

NextAttempt(i) ==
  /\ attempt' = i
  /\ som' = IF i < HandshakeAttempts THEN "hsRead" ELSE "ended"

(* Writes are a few bytes and go whole or not at all; one reported as      *)
(* timed out may have gone.                                                *)
WriteHandshake ==
  /\ som = "hsWrite"
  /\ \/ dSent' = dSent + 1 /\ NextAttempt(0)
     \/ dSent' \in {dSent, dSent + 1} /\ som' = "ended" /\ UNCHANGED attempt
  /\ UNCHANGED <<mcuVars, iter, rcAt, imuAt, junk, upVars, dRead, from,
                 history>>

(* Mutant: the handshake packet is written again before every retry.       *)
ReadHandshake_Resends ==
  /\ som = "hsRead"
  /\ \/ /\ ReadOk(1) /\ (consumed = ReplyAt => echo = 1)
        /\ som' = "readRc" /\ attempt' = 0 /\ acked' = (consumed = ReplyAt)
        /\ UNCHANGED <<dSent, lost>>
     \/ /\ ReadTimeout(1) /\ NextAttempt(attempt + 1)
        /\ lost' = lost \cup {"handshake"} /\ dSent' = dSent + 1
        /\ UNCHANGED acked
  /\ UNCHANGED <<mcuVars, iter, rcAt, imuAt, junk, dRead, from, mcuTimeouts>>

(* A byte matches the handshake if it is the MCU's echo of it, and may do  *)
(* so by chance if it is a byte of a later packet.                         *)
ReadHandshake ==
  /\ som = "hsRead"
  /\ \/ /\ ReadOk(1)
        /\ consumed = ReplyAt => echo = 1
        /\ som' = "readRc" /\ attempt' = 0
        /\ acked' = (consumed = ReplyAt)
        /\ UNCHANGED lost
     \/ /\ ReadOk(1)
        /\ consumed = ReplyAt => echo # 1
        /\ NextAttempt(attempt + 1)
        /\ UNCHANGED <<acked, lost>>
     \/ /\ ReadTimeout(1)
        /\ NextAttempt(attempt + 1)
        /\ lost' = lost \cup {"handshake"}
        /\ UNCHANGED acked
  /\ UNCHANGED <<mcuVars, iter, rcAt, imuAt, junk, downVars, mcuTimeouts>>

(* Mutant: the packets are read in the wrong order.                        *)
ReadRc_WrongPacket ==
  /\ som = "readRc" /\ iter < MaxIters
  /\ som' = "readImu" /\ iter' = iter + 1 /\ imuAt' = None
  /\ ReadOk(ImuSize) /\ rcAt' = consumed
  /\ UNCHANGED <<mcuVars, attempt, junk, downVars, history>>

(* The first read of an iteration.  A timeout yields a zero packet.        *)
ReadRc ==
  /\ som = "readRc" /\ iter < MaxIters
  /\ som' = "readImu" /\ iter' = iter + 1 /\ imuAt' = None
  /\ \/ ReadOk(RcSize) /\ rcAt' = consumed /\ UNCHANGED lost
     \/ ReadTimeout(RcSize) /\ rcAt' = None /\ lost' = lost \cup {"read"}
  /\ UNCHANGED <<mcuVars, attempt, junk, downVars, acked, mcuTimeouts>>

ReadImu ==
  /\ som = "readImu"
  /\ som' = "writeCs"
  /\ \/ ReadOk(ImuSize) /\ imuAt' = consumed /\ UNCHANGED lost
     \/ ReadTimeout(ImuSize) /\ imuAt' = None /\ lost' = lost \cup {"read"}
  /\ UNCHANGED <<mcuVars, attempt, iter, rcAt, junk, downVars, acked,
                 mcuTimeouts>>

(* Mutant: the packet is written before the autopilot is triggered.        *)
WriteCs_BeforeTrigger ==
  /\ som = "writeCs" /\ som' = "readRc"
  /\ dSent' = dSent + CsSize 
  /\ from' = Append(from, rcAt - (RcSize + ImuSize))
  /\ UNCHANGED <<mcuVars, attempt, iter, rcAt, imuAt, junk, upVars, dRead,
                 history>>

(* Mutant: a write that is reported as timed out is tried again.           *)
WriteCs_Retries ==
  /\ som = "writeCs"
  /\ som' = "readRc"
  /\ \E n \in 0 .. 2 :
       /\ dSent' = dSent + n * CsSize
       /\ from' = from \o [m \in 1 .. n |-> rcAt]
  /\ UNCHANGED <<mcuVars, attempt, iter, rcAt, imuAt, junk, upVars, dRead,
                 history>>

WriteCs ==
  /\ som = "writeCs"
  /\ som' = "readRc"
  /\ \/ dSent' = dSent + CsSize /\ from' = Append(from, rcAt)
     \/ UNCHANGED <<dSent, from>>
  /\ UNCHANGED <<mcuVars, attempt, iter, rcAt, imuAt, junk, upVars, dRead,
                 history>>

(* The while condition is false: SIGINT has stopped the service.           *)
LeaveLoop ==
  /\ som = "readRc"
  /\ som' = "ended"
  /\ UNCHANGED <<mcuVars, attempt, iter, rcAt, imuAt, junk, upVars, downVars,
                 history>>

Mcu ==
  \/ Announce \/ AwaitHandshake \/ Reply \/ WriteRc \/ WriteImu \/ ReadCs

Som ==
  \/ Flush \/ WriteHandshake \/ ReadHandshake
  \/ ReadRc \/ ReadImu \/ WriteCs \/ LeaveLoop

Terminated == som = "ended" /\ UNCHANGED vars

Next == Mcu \/ Som \/ Terminated

Spec == Init /\ [][Next]_vars

-----------------------------------------------------------------------------
TypeOK ==
  /\ mcu \in {"boot", "await", "reply", "rc", "imu", "cs"}
  /\ echo \in 0 .. 1 /\ round \in Nat /\ csAt \in Nat \cup {None}
  /\ som \in {"flush", "hsWrite", "hsRead", "readRc", "readImu", "writeCs",
              "ended"}
  /\ attempt \in 0 .. HandshakeAttempts /\ iter \in Nat
  /\ rcAt \in Nat \cup {None} /\ imuAt \in Nat \cup {None}
  /\ junk \in Nat /\ sent \in Nat
  /\ committed \in 0 .. sent /\ consumed \in 0 .. committed
  /\ dSent \in Nat /\ dRead \in 0 .. dSent /\ from \in Seq(Int)
  /\ acked \in BOOLEAN /\ mcuTimeouts \in Nat
  /\ lost \subseteq {"mcuHandshake", "torn", "handshake", "read"}

(* handshakeMCU returns true on the MCU's own reply whenever the MCU saw   *)
(* the handshake packet in time and no handshake read timed out: flush,    *)
(* which consumes more than it found, never eats that reply.               *)
HandshakeGenuine ==
  InLoop /\ lost \cap {"mcuHandshake", "handshake"} = {} => acked

(* After a genuine handshake and until the first timed-out read of the     *)
(* main loop, iteration i reads exactly the packets of the MCU's round i,  *)
(* whatever happens on the downlink.                                       *)
UpFraming ==
  acked /\ "read" \notin lost =>
    /\ som = "readImu" => rcAt = RcStart(iter)
    /\ som = "writeCs" => rcAt = RcStart(iter) /\ imuAt = rcAt + RcSize

(* Once the MCU has read the handshake packet, and as long as it never     *)
(* gives up in the middle of a packet, what it takes for a                 *)
(* ControlSurfacePacket is one that the SoM wrote, even if writes are lost *)
(* and rounds go without one.                                              *)
DownFraming ==
  echo = 1 /\ "torn" \notin lost /\ csAt # None
    => \E m \in 1 .. Len(from) : csAt = CsStart(m)

(* The controls the MCU applies lag behind its own sensors by one round    *)
(* for every ControlSurfacePacket it gave up on, and by no more: in its    *)
(* round n it applies what the SoM computed from the RcRxPacket of round   *)
(* n - mcuTimeouts or of a later one.                                      *)
LagBounded ==
  acked /\ lost \cap {"read", "torn"} = {} /\ mcu = "rc" /\ csAt # None
    => \E m \in 1 .. Len(from) :
         csAt = CsStart(m) /\ from[m] >= RcStart(round - mcuTimeouts)

(* As long as the SoM's reads succeed, what waits in the MCU's receive     *)
(* buffer is one packet and one more for every round the MCU gave up on,   *)
(* torn packets included.  With the sketch's 4 bytes to a packet its 64    *)
(* bytes hold out for 15 such rounds in a session, and not for ever.       *)
BacklogBounded ==
  acked /\ "read" \notin lost => dSent - dRead <= CsSize * (mcuTimeouts + 1)

-----------------------------------------------------------------------------
(* The i-th of n packets of one size begins (i - 1) * size behind the      *)
(* first; a distance at which none begins has no index.                    *)
Index(distance, size, n) ==
  IF \E i \in 1 .. n : distance = (i - 1) * size
  THEN CHOOSE i \in 1 .. n : distance = (i - 1) * size ELSE 0

(* The round whose RcRxPacket begins at pos, the ControlSurfacePacket that *)
(* does.                                                                   *)
RoundAt(pos) == Index(pos - RcStart(1), RcSize + ImuSize, MaxRounds)
AnswerAt(pos) == Index(pos - CsStart(1), CsSize, Len(from))

(* Rounds of loop() completed, and packets read whole in them.             *)
Done == IF mcu \in {"imu", "cs"} THEN round - 1 ELSE round
Got == Done - mcuTimeouts

Sensed == IF mcu = "imu" THEN 2 * round - 1 ELSE 2 * round
Taken ==
  CASE som = "readImu" -> <<RoundAt(rcAt)>>
    [] som = "writeCs" -> <<RoundAt(rcAt), RoundAt(imuAt - RcSize)>>
    [] OTHER -> <<>>
Answers == [m \in 1 .. Len(from) |-> RoundAt(from[m])]

Packets == INSTANCE Exchange WITH
  sensed <- Sensed, begun <- iter, taken <- Taken, answers <- Answers,
  passed <- Got, applied <- AnswerAt(csAt), spoilt <- lost # {}

(* Until a handshake or a read of the SoM times out, or a packet is torn,  *)
(* both ends with nothing but the counting of bytes exchange whole packets *)
(* of matching rounds, old bytes, the flush string's double length, lost   *)
(* writes and rounds without an answer notwithstanding.                    *)
ImplementsExchange == Packets!Spec

(* handshakeMCU's doc: true if the handshake was completed, which the MCU  *)
(* does by responding with the same packet.                                *)
HandshakeMeansAck == InLoop => acked
=============================================================================
