-------------------------- MODULE AutopilotProofs --------------------------
(***************************************************************************)
(* Proofs about Autopilot, for every limit that fits the configuration's   *)
(* types, every set of pulses and angles, and whatever a conversion out of *)
(* range may give.                                                         *)
(***************************************************************************)
EXTENDS Autopilot, TLAPS

-----------------------------------------------------------------------------
(* Conversions stay in their type, and are exact for what fits it.         *)
LEMMA Widths ==
  ASSUME NEW x \in Int
  PROVE  /\ AsUInt8(x) \in UInt8 /\ (x \in UInt8 => AsUInt8(x) = x)
         /\ AsInt8(x) \in Int8 /\ (x \in Int8 => AsInt8(x) = x)
<1>1. x % 256 \in 0 .. 255  OBVIOUS
<1>2. x \in 0 .. 255 => x % 256 = x  OBVIOUS
<1>3. (x + 128) % 256 \in 0 .. 255  OBVIOUS
<1>4. x + 128 \in 0 .. 255 => (x + 128) % 256 = x + 128  OBVIOUS
<1>5. AsUInt8(x) \in UInt8  BY <1>1 DEF AsUInt8, UInt8
<1>6. x \in UInt8 => AsUInt8(x) = x  BY <1>2 DEF AsUInt8, UInt8
<1>7. AsInt8(x) \in Int8  BY <1>3 DEF AsInt8, Int8
<1>8. ASSUME x \in Int8  PROVE AsInt8(x) = x
  <2>1. x + 128 \in 0 .. 255  BY <1>8 DEF Int8
  <2> QED  BY <1>4, <2>1 DEF AsInt8
<1> QED  BY <1>5, <1>6, <1>7, <1>8

(* Division truncates: its result is a whole number of the dividend's sign *)
LEMMA QuotInt ==
  ASSUME NEW a \in Int, NEW b \in Nat \ {0}
  PROVE  Quot(a, b) \in Int
BY DEF Quot

(* A bounded value is within its bound.                                    *)
LEMMA ClampBound ==
  ASSUME NEW x \in Int, NEW max \in Nat
  PROVE  Clamp(x, max) \in -max .. max
BY DEF Clamp

LEMMA NarrowedInt8 ==
  ASSUME NEW num \in Int, NEW den \in Nat \ {0}
  PROVE  Narrowed(num, den) \subseteq Int8
<1> DEFINE q == Quot(num, den)
<1>1. q \in Int  BY QuotInt
<1> HIDE DEF q
<1>2. CASE q \notin Int8  BY <1>2, InputsAssumption DEF Narrowed, q
<1>3. CASE q \in Int8
  <2>1. Narrowed(num, den) =
          {q} \cup IF num = q * den /\ q > 0 THEN {q - 1}
                   ELSE IF num = q * den /\ q < 0 THEN {q + 1} ELSE {}
    BY <1>3 DEF Narrowed, q
  <2>2. Narrowed(num, den)
          \subseteq {q} \cup {x \in {q - 1} : q > 0} \cup {x \in {q + 1} : q < 0}
    BY <2>1
  <2> QED  BY <1>1, <1>3, <2>2 DEF Int8
<1> QED  BY <1>2, <1>3

(* A stick in its range maps into the configured range; this is where the  *)
(* code's promise to bind ends.                                            *)
LEMMA DeflectionBound ==
  ASSUME NEW v \in -100 .. 100, NEW max \in 0 .. 127
  PROVE  BindRcDeflection(v, max) \in -max .. max
<1> DEFINE n == v - (-100)
           d == max - (-max)
           p == n * d
<1>1. n \in 0 .. 200 /\ d \in 0 .. 254 /\ d = 2 * max  OBVIOUS
<1>2. 100 - (-100) = 200  OBVIOUS
<1> HIDE DEF n, d
<1>3. p \in Int /\ 0 <= p /\ p <= 200 * d  BY <1>1
<1> HIDE DEF p
<1>4. p \div 200 \in 0 .. d  BY <1>1, <1>3
<1>5. BindToRange(v, -100, 100, -max, max) = p \div 200 + (-max)
  <2>1. BindToRange(v, -100, 100, -max, max) = Quot(p, 200) + (-max)
    BY <1>2 DEF BindToRange, p, n, d
  <2> QED  BY <1>3, <2>1 DEF Quot
<1>6. p \div 200 + (-max) \in -max .. max  BY <1>1, <1>4
<1> QED  BY <1>5, <1>6, Widths DEF BindRcDeflection, Int8

LEMMA ThrottleBound ==
  ASSUME NEW v \in 0 .. 100
  PROVE  BindRcThrottle(v) \in 0 .. MaxThrottle
<1> DEFINE p == v * MaxThrottle
<1>1. MaxThrottle \in 0 .. 255  BY LimitsAssumption DEF UInt8
<1>2. p \in Int /\ 0 <= p /\ p <= 100 * MaxThrottle  BY <1>1
<1>3. (v - 0) * (MaxThrottle - 0) = p /\ 100 - 0 = 100  BY <1>1
<1> HIDE DEF p
<1>4. p \div 100 \in 0 .. MaxThrottle  BY <1>1, <1>2
<1>5. BindToRange(v, 0, 100, 0, MaxThrottle) = p \div 100
  BY <1>2, <1>3, <1>4, <1>1 DEF BindToRange, Quot
<1> QED  BY <1>1, <1>4, <1>5, Widths DEF BindRcThrottle, UInt8

(* Whatever comes in, what goes out fits the packet.                       *)
LEMMA BindTypes ==
  /\ \A v \in UInt8 : BindRcThrottle(v) \in UInt8
  /\ \A v \in Int8, max \in 0 .. 127 : BindRcDeflection(v, max) \in Int8
<1>1. \A a, b \in Int, c \in Int : a * b \in Int  OBVIOUS
<1>2. ASSUME NEW v \in UInt8  PROVE BindRcThrottle(v) \in UInt8
  <2>1. v \in Int /\ MaxThrottle \in Int  BY LimitsAssumption DEF UInt8
  <2>2. (v - 0) * (MaxThrottle - 0) \in Int /\ 100 - 0 = 100  BY <2>1
  <2>3. Quot((v - 0) * (MaxThrottle - 0), 100 - 0) + 0 \in Int
    BY <2>2, QuotInt
  <2> QED  BY <2>3, Widths DEF BindRcThrottle, BindToRange
<1>3. ASSUME NEW v \in Int8, NEW max \in 0 .. 127
      PROVE  BindRcDeflection(v, max) \in Int8
  <2>1. v \in Int  BY DEF Int8
  <2>2. (v - (-100)) * (max - (-max)) \in Int /\ 100 - (-100) = 200  BY <2>1
  <2>3. Quot((v - (-100)) * (max - (-max)), 100 - (-100)) + (-max) \in Int
    BY <2>2, QuotInt
  <2> QED  BY <2>3, Widths DEF BindRcDeflection, BindToRange
<1> QED  BY <1>2, <1>3

-----------------------------------------------------------------------------
LEMMA PacketTypes ==
  ASSUME NEW p \in RcPackets
  PROVE  p \in [state : SUBSET {"assist", "roll", "pitch"}, motor : UInt8,
                aileron : Int8, elevator : Int8, rudder : Int8]
<1>1. \A n \in Pulses : MotorStick(n) \in UInt8 /\ Stick(n) \in Int8
  <2> TAKE n \in Pulses
  <2>1. n \in Int  BY InputsAssumption
  <2>2. ToRange(n, 0, 100) \in Int /\ ToRange(n, -100, 100) \in Int
    BY <2>1, QuotInt DEF ToRange
  <2> QED  BY <2>2, Widths DEF MotorStick, Stick
<1>2. \A s, m, a, e, r :
        /\ s \subseteq {"assist", "roll", "pitch"} /\ m \in UInt8
        /\ a \in Int8 /\ e \in Int8 /\ r \in Int8
        => RcPacket(s, m, a, e, r)
             \in [state : SUBSET {"assist", "roll", "pitch"}, motor : UInt8,
                  aileron : Int8, elevator : Int8, rudder : Int8]
  BY DEF RcPacket
<1>3. \A b, a, e : Status(b, a, e) \subseteq {"assist", "roll", "pitch"}
  BY DEF Status
<1>4. 0 \in UInt8 /\ 255 \in UInt8 /\ {0, -128, 127} \subseteq Int8
  BY DEF UInt8, Int8
<1>5. CASE p \in McuPackets
  BY <1>1, <1>2, <1>3, <1>5 DEF McuPackets, McuPacket
<1>6. CASE p = ZeroPacket
  BY <1>2, <1>4, <1>6 DEF ZeroPacket
<1>7. CASE p \in MisframedPackets
  BY <1>2, <1>4, <1>7 DEF MisframedPackets
<1> QED  BY <1>5, <1>6, <1>7 DEF RcPackets

(* The next integral error is within its bound, and the pitch controller's *)
(* output fits eight bits, from any error and any state of the controller. *)
LEMMA PitchTypes ==
  ASSUME TypeOK, NEW e \in Int \cup {NaN}
  PROVE  /\ NextPitchI(e) \subseteq -MaxIntegral .. MaxIntegral
         /\ \A i \in NextPitchI(e) : PitchOutputs(e, i) \subseteq Int8
<1>1. MaxIntegral \in Nat /\ Frac \in Nat \ {0} /\ Undefined \subseteq Int8
  BY LimitsAssumption, InputsAssumption
<1>2. Kp \in Int /\ Ki \in Int /\ Kd \in Int  BY GainsAssumption
<1>3. pitchI \in Int /\ prevPitch \in Int \cup {NaN}
  BY <1>1 DEF TypeOK
<1>4. NextPitchI(e) \subseteq -MaxIntegral .. MaxIntegral
  <2> DEFINE sum == Quot(pitchI * Frac + e, Frac)
             narrowed == IF e # NaN /\ sum \in Int8 THEN {sum} ELSE Undefined
  <2> HIDE DEF sum
  <2>1. narrowed \subseteq Int8
    <3>1. CASE e # NaN /\ sum \in Int8  BY <3>1
    <3>2. CASE ~(e # NaN /\ sum \in Int8)  BY <1>1, <3>2
    <3> QED  BY <3>1, <3>2
  <2>2. NextPitchI(e) = {Clamp(i, MaxIntegral) : i \in narrowed}
    BY DEF NextPitchI, sum
  <2>3. narrowed \subseteq Int  BY <2>1 DEF Int8
  <2> HIDE DEF narrowed
  <2> QED  BY <1>1, <2>2, <2>3, ClampBound
<1>5. ASSUME NEW i \in NextPitchI(e)  PROVE PitchOutputs(e, i) \subseteq Int8
  <2>1. CASE e = NaN \/ prevPitch = NaN  BY <1>1, <2>1 DEF PitchOutputs
  <2>2. CASE ~(e = NaN \/ prevPitch = NaN)
    <3>1. e \in Int /\ prevPitch \in Int /\ i \in Int
      BY <1>1, <1>3, <1>4, <2>2
    <3> DEFINE num == Kp * e + Ki * i * Frac + Kd * (e - prevPitch)
    <3>2. num \in Int  BY <1>1, <1>2, <3>1
    <3>3. 100 * Frac \in Nat \ {0}  BY <1>1
    <3>4. PitchOutputs(e, i) = Narrowed(num, 100 * Frac)
      BY <2>2 DEF PitchOutputs
    <3> HIDE DEF num
    <3> QED  BY <3>2, <3>3, <3>4, NarrowedInt8
  <2> QED  BY <2>1, <2>2
<1> QED  BY <1>4, <1>5

(* What one trigger of either autopilot returns.                           *)
LEMMA ManualEffect ==
  ASSUME NEW p \in RcPackets, Manual(p)
  PROVE  /\ cs' = [motor |-> BindRcThrottle(p.motor),
                   aileron |-> BindRcDeflection(p.aileron, MaxAileron),
                   elevator |-> BindRcDeflection(p.elevator, MaxElevator),
                   rudder |-> BindRcDeflection(p.rudder, MaxRudder)]
         /\ UNCHANGED pid
BY DEF Manual, Surfaces

LEMMA StabilizeEffect ==
  ASSUME TypeOK, NEW p \in RcPackets, NEW roll \in BOOLEAN,
         NEW pitch \in Angles \cup {NaN}, Stabilize(p, roll, pitch)
  PROVE  /\ pitchI' \in -MaxIntegral .. MaxIntegral
         /\ prevPitch' \in Int \cup {NaN} /\ rollOk' = (rollOk /\ roll)
         /\ \E a \in RollOutputs(rollOk'),
               e \in -MaxElevator .. MaxElevator :
              cs' = [motor |-> BindRcThrottle(p.motor), aileron |-> a,
                     elevator |-> e,
                     rudder |-> BindRcDeflection(p.rudder, MaxRudder)]
<1> DEFINE error == IF pitch = NaN THEN NaN ELSE -pitch
<1>1. error \in Int \cup {NaN}  BY InputsAssumption
<1>2. PICK i \in NextPitchI(error), a \in RollOutputs(rollOk /\ roll) :
        \E e \in PitchOutputs(error, i) :
          /\ cs' = Surfaces(BindRcThrottle(p.motor), a, BindPidElevator(e),
                            BindRcDeflection(p.rudder, MaxRudder))
          /\ pitchI' = i /\ prevPitch' = error /\ rollOk' = (rollOk /\ roll)
  BY DEF Stabilize
<1>3. PICK e \in PitchOutputs(error, i) :
          /\ cs' = Surfaces(BindRcThrottle(p.motor), a, BindPidElevator(e),
                            BindRcDeflection(p.rudder, MaxRudder))
          /\ pitchI' = i /\ prevPitch' = error /\ rollOk' = (rollOk /\ roll)
  BY <1>2
<1> HIDE DEF error
<1>4. i \in -MaxIntegral .. MaxIntegral /\ e \in Int8
  BY <1>1, <1>2, <1>3, PitchTypes
<1>5. BindPidElevator(e) \in -MaxElevator .. MaxElevator
  <2>1. e \in Int /\ MaxElevator \in Nat
    BY <1>4, LimitsAssumption DEF Int8
  <2> QED  BY <2>1, ClampBound DEF BindPidElevator
<1> QED  BY <1>1, <1>2, <1>3, <1>4, <1>5 DEF Surfaces

-----------------------------------------------------------------------------
(* Type correctness: every conversion stays in its width, and the integral *)
(* error in its bound, for packets of any kind.                            *)
THEOREM TypeCorrect == Spec => []TypeOK
<1>1. Init => TypeOK
  <2> SUFFICES ASSUME Init PROVE TypeOK  OBVIOUS
  <2>1. 0 \in UInt8 /\ 0 \in Int8 /\ 0 \in -MaxIntegral .. MaxIntegral
    BY LimitsAssumption DEF UInt8, Int8
  <2>2. rc \in [state : SUBSET {"assist", "roll", "pitch"}, motor : UInt8,
                aileron : Int8, elevator : Int8, rudder : Int8]
    BY PacketTypes DEF Init, RcPackets
  <2>3. cs \in [motor : UInt8, aileron : Int8, elevator : Int8, rudder : Int8]
    BY <2>1 DEF Init, Surfaces
  <2>4. rollOk \in BOOLEAN  BY Zenon DEF Init
  <2> QED  BY <2>1, <2>2, <2>3, <2>4 DEF Init, TypeOK
<1>2. TypeOK /\ [Next]_vars => TypeOK'
  <2> SUFFICES ASSUME TypeOK, [Next]_vars PROVE TypeOK'  OBVIOUS
  <2>1. CASE UNCHANGED vars  BY <2>1 DEF vars, pid, TypeOK
  <2>2. ASSUME NEW p \in RcPackets, NEW roll \in BOOLEAN,
               NEW pitch \in Angles \cup {NaN}, Trigger(p, roll, pitch)
        PROVE  TypeOK'
    <3>1. rc' = p /\ p \in [state : SUBSET {"assist", "roll", "pitch"},
                            motor : UInt8, aileron : Int8, elevator : Int8,
                            rudder : Int8]
      BY <2>2, PacketTypes DEF Trigger
    <3>2. mode' \in {"manual", "stabilize"} /\ prevState' \subseteq {"assist"}
      BY <2>2 DEF Trigger, HandleState, TypeOK
    <3>3. /\ BindRcThrottle(p.motor) \in UInt8
          /\ BindRcDeflection(p.aileron, MaxAileron) \in Int8
          /\ BindRcDeflection(p.elevator, MaxElevator) \in Int8
          /\ BindRcDeflection(p.rudder, MaxRudder) \in Int8
      <4>1. /\ p.motor \in UInt8 /\ p.aileron \in Int8
            /\ p.elevator \in Int8 /\ p.rudder \in Int8
        BY <3>1
      <4> QED  BY <4>1, BindTypes, LimitsAssumption
    <3>4. CASE Manual(p)
      <4>1. cs' \in [motor : UInt8, aileron : Int8, elevator : Int8,
                     rudder : Int8]
        BY <3>3, <3>4, ManualEffect
      <4>2. UNCHANGED <<pitchI, prevPitch, rollOk>>
        BY <3>4, ManualEffect DEF pid
      <4> QED  BY <3>1, <3>2, <4>1, <4>2 DEF TypeOK
    <3>5. CASE Stabilize(p, roll, pitch)
      <4>1. /\ pitchI' \in -MaxIntegral .. MaxIntegral
            /\ prevPitch' \in Int \cup {NaN} /\ rollOk' = (rollOk /\ roll)
            /\ \E a \in RollOutputs(rollOk'),
                  e \in -MaxElevator .. MaxElevator :
                 cs' = [motor |-> BindRcThrottle(p.motor), aileron |-> a,
                        elevator |-> e,
                        rudder |-> BindRcDeflection(p.rudder, MaxRudder)]
        BY <2>2, <3>5, StabilizeEffect
      <4>2. RollOutputs(rollOk') \subseteq Int8
        <5>1. MaxAileron \in 0 .. 127  BY LimitsAssumption
        <5>2. -MaxAileron .. MaxAileron \subseteq Int8  BY <5>1 DEF Int8
        <5> QED  BY <5>2, InputsAssumption DEF RollOutputs
      <4>3. -MaxElevator .. MaxElevator \subseteq Int8
        BY LimitsAssumption DEF Int8
      <4>4. cs' \in [motor : UInt8, aileron : Int8, elevator : Int8,
                     rudder : Int8]
        BY <3>3, <4>1, <4>2, <4>3
      <4>5. rollOk' \in BOOLEAN  BY <4>1 DEF TypeOK
      <4> QED  BY <3>1, <3>2, <4>1, <4>4, <4>5 DEF TypeOK
    <3> QED  BY <2>2, <3>4, <3>5 DEF Trigger
  <2> QED  BY <2>1, <2>2 DEF Next
<1> QED  BY <1>1, <1>2, PTL DEF Spec

(* The manager's memory of the flag and the pointer it acts on agree with  *)
(* one another and with the last packet: the early return in handleState   *)
(* never leaves the wrong autopilot in place.                              *)
ModeInv ==
  /\ prevState = rc.state \cap {"assist"}
  /\ mode = IF "assist" \in prevState THEN "stabilize" ELSE "manual"

THEOREM ModeCorrect == Spec => []ModeFollowsAssist
<1>1. Init => ModeInv
  BY DEF Init, ModeInv, ZeroPacket, RcPacket
<1>2. ModeInv /\ [Next]_vars => ModeInv'
  <2> SUFFICES ASSUME ModeInv, [Next]_vars PROVE ModeInv'  OBVIOUS
  <2>1. CASE UNCHANGED vars  BY <2>1 DEF vars, ModeInv
  <2>2. ASSUME NEW p \in RcPackets, NEW roll \in BOOLEAN,
               NEW pitch \in Angles \cup {NaN}, Trigger(p, roll, pitch)
        PROVE  ModeInv'
    BY <2>2 DEF Trigger, HandleState, ModeInv
  <2> QED  BY <2>1, <2>2 DEF Next
<1>3. ModeInv => ModeFollowsAssist  BY DEF ModeInv, ModeFollowsAssist
<1> QED  BY <1>1, <1>2, <1>3, PTL DEF Spec

(* One trigger's outputs are within their limits when its sticks are in    *)
(* range and the roll controller is sound; the elevator's always are in    *)
(* stabilize mode.                                                         *)
LEMMA TriggerBounds ==
  ASSUME TypeOK, NEW p \in RcPackets, NEW roll \in BOOLEAN,
         NEW pitch \in Angles \cup {NaN}, Trigger(p, roll, pitch)
  PROVE  OutputsBounded' /\ ElevatorAlwaysBounded'
<1> USE DEF Within
<1>1. rc' = p  BY DEF Trigger
<1>2. \A max \in 0 .. 127 : \A x \in -max .. max : -max <= x /\ x <= max
  OBVIOUS
<1>3. {MaxAileron, MaxElevator, MaxRudder} \subseteq 0 .. 127
  BY LimitsAssumption
<1>4. ASSUME InRange(p)
      PROVE  /\ BindRcThrottle(p.motor) <= MaxThrottle
             /\ BindRcDeflection(p.aileron, MaxAileron) \in -MaxAileron .. MaxAileron
             /\ BindRcDeflection(p.elevator, MaxElevator)
                  \in -MaxElevator .. MaxElevator
             /\ BindRcDeflection(p.rudder, MaxRudder) \in -MaxRudder .. MaxRudder
  <2>1. p.motor \in UInt8  BY PacketTypes
  <2>2. p.motor \in 0 .. 100
        /\ {p.aileron, p.elevator, p.rudder} \subseteq -100 .. 100
    BY <1>4, <2>1 DEF InRange, UInt8
  <2>3. BindRcThrottle(p.motor) \in 0 .. MaxThrottle
    BY <2>2, ThrottleBound
  <2>4. BindRcThrottle(p.motor) <= MaxThrottle
    <3> HIDE DEF Within
    <3>1. MaxThrottle \in Nat  BY LimitsAssumption DEF UInt8
    <3> QED  BY <2>3, <3>1
  <2>5. \A max \in 0 .. 127, v \in -100 .. 100 :
          BindRcDeflection(v, max) \in -max .. max
    BY DeflectionBound
  <2> QED  BY <1>3, <2>2, <2>4, <2>5
<1>5. CASE mode' = "manual" /\ Manual(p)
  <2>1. /\ cs'.motor = BindRcThrottle(p.motor)
        /\ cs'.aileron = BindRcDeflection(p.aileron, MaxAileron)
        /\ cs'.elevator = BindRcDeflection(p.elevator, MaxElevator)
        /\ cs'.rudder = BindRcDeflection(p.rudder, MaxRudder)
    BY <1>5, ManualEffect
  <2>2. OutputsBounded'
    BY <1>1, <1>2, <1>3, <1>4, <2>1 DEF OutputsBounded
  <2>3. ElevatorAlwaysBounded'  BY <1>5 DEF ElevatorAlwaysBounded
  <2> QED  BY <2>2, <2>3
<1>6. CASE Stabilize(p, roll, pitch)
  <2>1. PICK a \in RollOutputs(rollOk'), e \in -MaxElevator .. MaxElevator :
          cs' = [motor |-> BindRcThrottle(p.motor), aileron |-> a,
                 elevator |-> e,
                 rudder |-> BindRcDeflection(p.rudder, MaxRudder)]
    BY <1>6, StabilizeEffect
  <2>2. rollOk' => a \in -MaxAileron .. MaxAileron  BY DEF RollOutputs
  <2>3. Within(e, MaxElevator)  BY <1>2, <1>3
  <2>4. ElevatorAlwaysBounded'  BY <2>1, <2>3 DEF ElevatorAlwaysBounded
  <2>5. OutputsBounded'
    BY <1>1, <1>2, <1>3, <1>4, <2>1, <2>2, <2>3 DEF OutputsBounded
  <2> QED  BY <2>4, <2>5
<1> QED  BY <1>5, <1>6 DEF Trigger

LEMMA BoundsInvariant == Spec => [](OutputsBounded /\ ElevatorAlwaysBounded)
<1>1. Init => OutputsBounded /\ ElevatorAlwaysBounded
  <2>1. 0 <= MaxThrottle /\ \A m \in {MaxAileron, MaxElevator, MaxRudder} :
          -m <= 0 /\ 0 <= m
    BY LimitsAssumption DEF UInt8
  <2> QED
    BY <2>1 DEF Init, OutputsBounded, ElevatorAlwaysBounded, Surfaces, Within
<1>2. /\ TypeOK /\ OutputsBounded /\ ElevatorAlwaysBounded /\ [Next]_vars
      => OutputsBounded' /\ ElevatorAlwaysBounded'
  <2>1. ASSUME OutputsBounded, ElevatorAlwaysBounded, UNCHANGED vars
        PROVE  OutputsBounded' /\ ElevatorAlwaysBounded'
    BY <2>1 DEF vars, pid, OutputsBounded, ElevatorAlwaysBounded, InRange
  <2> QED  BY <2>1, TriggerBounds DEF Next
<1> QED  BY <1>1, <1>2, TypeCorrect, PTL DEF Spec

(* For every configuration: sticks in their range, in either mode and in   *)
(* any order of packets, give outputs in their range.                      *)
THEOREM OutputsCorrect == Spec => []OutputsBounded
BY BoundsInvariant, PTL

(* In stabilize mode the elevator keeps its limit for every packet and     *)
(* every angle, although the output it comes from may have overflowed.     *)
THEOREM ElevatorCorrect == Spec => []ElevatorAlwaysBounded
BY BoundsInvariant, PTL

-----------------------------------------------------------------------------
(* The order of products, and the whole part of a quotient, for the terms  *)
(* of the controller, none of whose factors is known.                      *)
LEMMA Scaled ==
  ASSUME NEW a \in Int, NEW b \in Int, NEW c \in Nat, a <= b
  PROVE  a * c <= b * c
OBVIOUS

LEMMA Division ==
  ASSUME NEW a \in Nat, NEW b \in Nat \ {0}, a < 128 * b
  PROVE  /\ a \div b \in 0 .. 127
         /\ a < b => a \div b = 0
<1> DEFINE q == a \div b
<1>1. q \in Int /\ b * q <= a /\ a < b * q + b
  OBVIOUS
<1> HIDE DEF q
<1>2. q >= 0
  <2>1. CASE q <= -1
    <3>1. q * b <= (-1) * b
      BY <1>1, <2>1, Scaled
    <3> QED BY <1>1, <3>1
  <2> QED BY <1>1, <2>1
<1>3. q < 128
  <2>1. CASE q >= 128
    <3>1. 128 * b <= q * b
      BY <1>1, <2>1, Scaled
    <3> QED BY <1>1, <3>1
  <2> QED BY <1>1, <2>1
<1>4. ASSUME a < b PROVE q = 0
  <2>1. CASE q >= 1
    <3>1. 1 * b <= q * b
      BY <1>1, <2>1, Scaled
    <3> QED BY <1>1, <1>4, <3>1
  <2> QED BY <1>1, <1>2, <2>1
<1> QED BY <1>1, <1>2, <1>3, <1>4 DEF q

(* Narrowing a value that fits keeps its sign, and takes what is within    *)
(* one of zero to zero or one on.                                          *)
LEMMA NarrowedSign ==
  ASSUME NEW num \in Int, NEW den \in Nat \ {0},
         -(128 * den) < num, num < 128 * den,
         NEW x \in Narrowed(num, den)
  PROVE  /\ x \in Int
         /\ num > -den => x >= 0
         /\ num < den => x <= 0
<1> DEFINE q == Quot(num, den)
<1>1. CASE num >= 0
  <2>1. q \in 0 .. 127 /\ (num < den => q = 0)
    BY <1>1, Division DEF Quot
  <2> HIDE DEF q
  <2>2. x \in {q} \cup IF num = q * den /\ q > 0 THEN {q - 1}
                       ELSE IF num = q * den /\ q < 0 THEN {q + 1} ELSE {}
    BY <2>1 DEF Narrowed, Int8, q
  <2>3. x = q \/ (x = q - 1 /\ q > 0)
    BY <2>1, <2>2
  <2> QED
    BY <1>1, <2>1, <2>3
<1>2. CASE num < 0
  <2>1. -num \in Nat /\ -num < 128 * den
    BY <1>2
  <2>2. -q \in 0 .. 127 /\ (-num < den => q = 0) /\ q \in Int
    BY <1>2, <2>1, Division DEF Quot
  <2> HIDE DEF q
  <2>3. x \in {q} \cup IF num = q * den /\ q > 0 THEN {q - 1}
                       ELSE IF num = q * den /\ q < 0 THEN {q + 1} ELSE {}
    BY <2>2 DEF Narrowed, Int8, q
  <2>4. x = q \/ (x = q + 1 /\ q < 0)
    BY <2>2, <2>3
  <2>5. -num < den <=> num > -den
    OBVIOUS
  <2> QED
    BY <1>2, <2>2, <2>4, <2>5
<1> QED
  BY <1>1, <1>2

(* With moderate gains neither the integral nor an overflow can turn the   *)
(* output against a steady error: whatever the integral is, its term is    *)
(* less than the one degree that truncation takes away.                    *)
LEMMA OutputSign ==
  ASSUME GainsModerate, NEW error \in (-180 * Frac) .. (180 * Frac),
         NEW i \in -MaxIntegral .. MaxIntegral,
         NEW x \in Narrowed(Kp * error + Ki * i * Frac + Kd * (error - error),
                            100 * Frac)
  PROVE  /\ x \in Int
         /\ error > 0 => x >= 0
         /\ error < 0 => x <= 0
<1> DEFINE p == Kp * error
           w == Ki * i
           top == Ki * MaxIntegral
           num == p + w * Frac + Kd * (error - error)
<1>1. /\ Kp \in Nat /\ Ki \in Nat /\ Kd \in Nat /\ Frac \in Nat \ {0}
      /\ MaxIntegral \in Nat /\ error \in Int /\ i \in Int
  BY GainsAssumption, InputsAssumption, LimitsAssumption
<1>2. p \in Int /\ w \in Int /\ top \in Int /\ top >= 0
  BY <1>1
<1>3. error - error = 0 /\ Kd * (error - error) = 0
  BY <1>1
<1>4. -top <= w /\ w <= top
  <2>1. i * Ki <= MaxIntegral * Ki /\ (-MaxIntegral) * Ki <= i * Ki
    BY <1>1, Scaled
  <2> QED
    BY <1>1, <2>1
<1>5. /\ -((180 * Kp) * Frac) <= p /\ p <= (180 * Kp) * Frac
      /\ error > 0 => p >= 0
      /\ error < 0 => p <= 0
  <2>1. error * Kp <= (180 * Frac) * Kp /\ (-180 * Frac) * Kp <= error * Kp
    BY <1>1, Scaled
  <2>2. (180 * Frac) * Kp = (180 * Kp) * Frac /\ (-180 * Frac) * Kp = -((180 * Kp) * Frac)
    BY <1>1
  <2>3. error > 0 => 0 * Kp <= error * Kp
    BY <1>1, Scaled
  <2>4. error < 0 => error * Kp <= 0 * Kp
    BY <1>1, Scaled
  <2> QED
    BY <1>1, <2>1, <2>2, <2>3, <2>4
<1>6. -(top * Frac) <= w * Frac /\ w * Frac <= top * Frac
  <2>1. w * Frac <= top * Frac /\ (-top) * Frac <= w * Frac
    BY <1>1, <1>2, <1>4, Scaled
  <2> QED
    BY <1>1, <1>2, <2>1
<1>7. /\ top * Frac <= 99 * Frac
      /\ (180 * Kp + top) * Frac <= 12799 * Frac
  BY <1>1, <1>2, Scaled DEF GainsModerate
<1>8. (180 * Kp + top) * Frac = (180 * Kp) * Frac + top * Frac
  BY <1>1, <1>2
<1> DEFINE wf == w * Frac
           tf == top * Frac
           kf == (180 * Kp) * Frac
<1>9. wf \in Int /\ tf \in Int /\ kf \in Int
  BY <1>1, <1>2
<1>10. num = p + wf
  BY <1>2, <1>3, <1>9
<1> HIDE DEF wf, tf, kf, p, top, w
<1>11. /\ num \in Int /\ -(128 * (100 * Frac)) < num /\ num < 128 * (100 * Frac)
       /\ error > 0 => num > -(100 * Frac)
       /\ error < 0 => num < 100 * Frac
  <2>1. -kf <= p /\ p <= kf /\ -tf <= wf /\ wf <= tf
    BY <1>5, <1>6 DEF wf, tf, kf
  <2>2. tf <= 99 * Frac /\ kf + tf <= 12799 * Frac
    BY <1>7, <1>8 DEF tf, kf
  <2> HIDE DEF num
  <2> QED
    BY <1>1, <1>2, <1>5, <1>9, <1>10, <2>1, <2>2
<1>12. 100 * Frac \in Nat \ {0}
  BY <1>1
<1>13. x \in Narrowed(num, 100 * Frac)
  BY DEF p, w
<1> HIDE DEF num
<1> QED
  BY <1>11, <1>12, <1>13, NarrowedSign

(* For all gains that are moderate, every angle and every history of the   *)
(* integral error: a steady pitch error is never answered with the         *)
(* opposite deflection.                                                    *)
THEOREM SteadyCorrect ==
  ASSUME GainsModerate
  PROVE  Spec => SteadyPitchOpposed
<1> DEFINE Opposed == mode' = "stabilize" /\ prevPitch' = prevPitch
       /\ prevPitch \in (-180 * Frac) .. (180 * Frac)
       => /\ prevPitch > 0 => cs'.elevator >= 0
          /\ prevPitch < 0 => cs'.elevator <= 0
<1>1. TypeOK /\ [Next]_vars => [Opposed]_vars
  <2> SUFFICES ASSUME TypeOK, NEW p \in RcPackets, NEW roll \in BOOLEAN,
                      NEW pitch \in Angles \cup {NaN}, Trigger(p, roll, pitch),
                      mode' = "stabilize", prevPitch' = prevPitch,
                      prevPitch \in (-180 * Frac) .. (180 * Frac)
               PROVE  /\ prevPitch > 0 => cs'.elevator >= 0
                      /\ prevPitch < 0 => cs'.elevator <= 0
    BY DEF Next
  <2>1. Stabilize(p, roll, pitch)
    BY DEF Trigger
  <2> DEFINE error == IF pitch = NaN THEN NaN ELSE -pitch
  <2>2. PICK i \in NextPitchI(error), aileron \in RollOutputs(rollOk /\ roll) :
          \E elevator \in PitchOutputs(error, i) :
            /\ cs' = Surfaces(BindRcThrottle(p.motor), aileron,
                              BindPidElevator(elevator),
                              BindRcDeflection(p.rudder, MaxRudder))
            /\ pitchI' = i /\ prevPitch' = error
    BY <2>1 DEF Stabilize
  <2>3. PICK elevator \in PitchOutputs(error, i) :
            /\ cs' = Surfaces(BindRcThrottle(p.motor), aileron,
                              BindPidElevator(elevator),
                              BindRcDeflection(p.rudder, MaxRudder))
            /\ pitchI' = i /\ prevPitch' = error
    BY <2>2
  <2> HIDE DEF error
  <2>4. error = prevPitch /\ prevPitch # NaN
    BY <2>3, InputsAssumption
  <2>5. i \in -MaxIntegral .. MaxIntegral
    BY <2>1, <2>3, StabilizeEffect
  <2>6. elevator \in Narrowed(Kp * prevPitch + Ki * i * Frac
                                + Kd * (prevPitch - prevPitch), 100 * Frac)
    BY <2>3, <2>4 DEF PitchOutputs
  <2>7. /\ elevator \in Int
        /\ prevPitch > 0 => elevator >= 0
        /\ prevPitch < 0 => elevator <= 0
    BY <2>5, <2>6, OutputSign
  <2>8. cs'.elevator = Clamp(elevator, MaxElevator) /\ MaxElevator \in Nat
    BY <2>3, LimitsAssumption DEF Surfaces, BindPidElevator
  <2> QED
    BY <2>7, <2>8 DEF Clamp
<1> QED
  BY <1>1, TypeCorrect, PTL DEF Spec, SteadyPitchOpposed

-----------------------------------------------------------------------------
(* Truncation keeps what is at least, or at most, a whole number of units. *)
LEMMA QuotAbove ==
  ASSUME NEW a \in Int, NEW b \in Nat \ {0}, NEW k \in Int, k * b <= a
  PROVE  k <= Quot(a, b)
<1>1. CASE a >= 0
  <2> DEFINE q == a \div b
  <2>1. q \in Int /\ a < b * q + b  OBVIOUS
  <2> HIDE DEF q
  <2>2. CASE q <= k - 1
    <3>1. q * b <= (k - 1) * b  BY <2>1, <2>2, Scaled
    <3> QED  BY <2>1, <3>1
  <2> QED  BY <1>1, <2>1, <2>2 DEF Quot, q
<1>2. CASE a < 0
  <2> DEFINE d == (-a) \div b
  <2>1. d \in Int /\ b * d <= -a  BY <1>2
  <2> HIDE DEF d
  <2>2. CASE -d <= k - 1
    <3>1. (-d) * b <= (k - 1) * b  BY <2>1, <2>2, Scaled
    <3> QED  BY <2>1, <3>1
  <2> QED  BY <1>2, <2>1, <2>2 DEF Quot, d
<1> QED  BY <1>1, <1>2

LEMMA QuotBelow ==
  ASSUME NEW a \in Int, NEW b \in Nat \ {0}, NEW k \in Int, a <= k * b
  PROVE  Quot(a, b) <= k
<1>1. (-k) * b <= -a  OBVIOUS
<1>2. -k <= Quot(-a, b)  BY <1>1, QuotAbove
<1>3. 0 \div b = 0  OBVIOUS
<1>4. Quot(-a, b) = -Quot(a, b) /\ Quot(a, b) \in Int
  BY <1>3, QuotInt DEF Quot
<1> QED  BY <1>2, <1>4

(* The nominal pulses of an RC receiver, one to two milliseconds long, put *)
(* the sticks in their range.                                              *)
NominalPulses == 1000 .. 2000

LEMMA PulseInRange ==
  ASSUME NEW n \in NominalPulses
  PROVE  MotorStick(n) \in 0 .. 100 /\ Stick(n) \in -100 .. 100
<1>0. n \in 1000 .. 2000  BY DEF NominalPulses
<1>1. ToRange(n, 0, 100) = Quot((n - 1000) * 100, 1000)
      /\ ToRange(n, -100, 100) = Quot((n - 1000) * 200 - 100000, 1000)
  BY <1>0 DEF ToRange
<1> DEFINE a == (n - 1000) * 100
           b == (n - 1000) * 200 - 100000
<1>2. /\ a \in Int /\ 0 * 1000 <= a /\ a <= 100 * 1000
      /\ b \in Int /\ (-100) * 1000 <= b /\ b <= 100 * 1000
  BY <1>0
<1> HIDE DEF a, b
<1>3. 0 <= Quot(a, 1000) /\ -100 <= Quot(b, 1000)
  BY <1>2, QuotAbove
<1>4. Quot(a, 1000) <= 100 /\ Quot(b, 1000) <= 100
  BY <1>2, QuotBelow
<1>5. Quot(a, 1000) \in Int /\ Quot(b, 1000) \in Int
  BY <1>2, QuotInt
<1>6. ToRange(n, 0, 100) \in 0 .. 100 /\ ToRange(n, -100, 100) \in -100 .. 100
  BY <1>1, <1>3, <1>4, <1>5 DEF a, b
<1> QED
  BY <1>6, Widths DEF MotorStick, Stick, UInt8, Int8

(* The bound outputs of manual mode, for any packet whose sticks are.      *)
ManualInv ==
  mode = "manual" /\ InRange(rc) =>
    /\ cs.motor <= MaxThrottle /\ Within(cs.aileron, MaxAileron)
    /\ Within(cs.elevator, MaxElevator) /\ Within(cs.rudder, MaxRudder)

(* The doc of AutopilotUtility holds for nominal pulses, through every     *)
(* change of mode: only pulses outside that range make the outputs leave   *)
(* their limits.                                                           *)
THEOREM SticksCorrect ==
  ASSUME Pulses \subseteq NominalPulses
  PROVE  Spec => []SticksBound
<1>1. Init => ManualInv
  <2>1. 0 <= MaxThrottle /\ \A m \in {MaxAileron, MaxElevator, MaxRudder} :
          -m <= 0 /\ 0 <= m
    BY LimitsAssumption DEF UInt8
  <2> QED  BY <2>1 DEF Init, ManualInv, Surfaces, Within
<1>2. ManualInv /\ [Next]_vars => ManualInv'
  <2>1. ASSUME ManualInv, UNCHANGED vars  PROVE ManualInv'
    BY <2>1 DEF vars, ManualInv, InRange, Within
  <2>2. ASSUME NEW p \in RcPackets, NEW roll \in BOOLEAN,
               NEW pitch \in Angles \cup {NaN}, Trigger(p, roll, pitch),
               mode' = "manual", InRange(p)
        PROVE  /\ cs'.motor <= MaxThrottle /\ Within(cs'.aileron, MaxAileron)
               /\ Within(cs'.elevator, MaxElevator)
               /\ Within(cs'.rudder, MaxRudder)
    <3>1. cs' = [motor |-> BindRcThrottle(p.motor),
                 aileron |-> BindRcDeflection(p.aileron, MaxAileron),
                 elevator |-> BindRcDeflection(p.elevator, MaxElevator),
                 rudder |-> BindRcDeflection(p.rudder, MaxRudder)]
      BY <2>2, ManualEffect DEF Trigger
    <3>2. BindRcThrottle(p.motor) <= MaxThrottle /\ MaxThrottle \in Nat
      <4>1. p.motor \in 0 .. 100 /\ MaxThrottle \in Nat
        BY <2>2, PacketTypes, LimitsAssumption DEF InRange, UInt8
      <4> QED  BY <4>1, ThrottleBound
    <3>3. \A v \in -100 .. 100, max \in 0 .. 127 :
            Within(BindRcDeflection(v, max), max)
      <4>1. \A max \in 0 .. 127, v \in -100 .. 100 :
              BindRcDeflection(v, max) \in -max .. max
        BY DeflectionBound, Zenon
      <4>2. \A max \in 0 .. 127 : \A x \in -max .. max : Within(x, max)
        BY DEF Within
      <4> QED  BY <4>1, <4>2, Zenon
    <3>4. {p.aileron, p.elevator, p.rudder} \subseteq -100 .. 100
          /\ {MaxAileron, MaxElevator, MaxRudder} \subseteq 0 .. 127
      BY <2>2, LimitsAssumption DEF InRange
    <3>5. /\ Within(BindRcDeflection(p.aileron, MaxAileron), MaxAileron)
          /\ Within(BindRcDeflection(p.elevator, MaxElevator), MaxElevator)
          /\ Within(BindRcDeflection(p.rudder, MaxRudder), MaxRudder)
      BY <3>3, <3>4, Zenon
    <3> QED  BY <3>1, <3>2, <3>5
  <2>3. ASSUME NEW p \in RcPackets, NEW roll \in BOOLEAN,
               NEW pitch \in Angles \cup {NaN}, Trigger(p, roll, pitch)
        PROVE  ManualInv'
    <3>1. rc' = p  BY <2>3 DEF Trigger
    <3> QED  BY <2>2, <2>3, <3>1 DEF ManualInv
  <2> QED  BY <2>1, <2>3 DEF Next
<1>3. ManualInv => SticksBound
  <2>1. \A p \in McuPackets : InRange(p)
    <3>1. \A n \in Pulses :
            MotorStick(n) \in 0 .. 100 /\ Stick(n) \in -100 .. 100
      <4> TAKE n \in Pulses
      <4>1. n \in NominalPulses  OBVIOUS
      <4> QED  BY <4>1, PulseInRange, Zenon
    <3>2. ASSUME NEW assist \in BOOLEAN, NEW m \in Pulses,
                 NEW a \in Pulses, NEW e \in Pulses
          PROVE  InRange(McuPacket(assist, m, a, e, m))
      <4> DEFINE p == McuPacket(assist, m, a, e, m)
      <4>1. /\ p.motor = MotorStick(m) /\ p.aileron = Stick(a)
            /\ p.elevator = Stick(e) /\ p.rudder = Stick(m)
        BY DEF McuPacket, RcPacket
      <4> HIDE DEF p
      <4>2. p.motor \in 0 .. 100
            /\ {p.aileron, p.elevator, p.rudder} \subseteq -100 .. 100
        BY <3>1, <4>1, Zenon
      <4>3. p.motor <= 100  BY <4>2
      <4> QED  BY <4>2, <4>3 DEF InRange, p
    <3> QED  BY <3>2 DEF McuPackets
  <2> QED  BY <2>1 DEF ManualInv, SticksBound
<1> QED  BY <1>1, <1>2, <1>3, PTL DEF Spec

(* The integral of StabilizeAutopilot's doc is one for angles of a whole   *)
(* degree or more that do not overflow eight bits with it: only smaller    *)
(* errors are lost, and only larger ones turned, by the narrowing.         *)
THEOREM IntegralCorrect ==
  ASSUME \A a \in Angles : \/ a = 0
                           \/ Frac <= a /\ a <= (127 - MaxIntegral) * Frac
                           \/ Frac <= -a /\ -a <= (127 - MaxIntegral) * Frac
  PROVE  Spec => ErrorAccumulates
<1> DEFINE Accumulates == mode' = "stabilize" /\ prevPitch' # NaN
             => /\ prevPitch' > 0 /\ pitchI < MaxIntegral => pitchI' > pitchI
                /\ prevPitch' < 0 /\ pitchI > -MaxIntegral => pitchI' < pitchI
<1>1. MaxIntegral \in 0 .. 127 /\ Frac \in Nat \ {0}
  BY LimitsAssumption, InputsAssumption
<1>2. ASSUME NEW i \in -MaxIntegral .. MaxIntegral, NEW e \in Int, e # 0,
             -e \in Angles
      PROVE  LET sum == Quot(i * Frac + e, Frac)
             IN  /\ sum \in Int8
                 /\ e > 0 => sum >= i + 1
                 /\ e < 0 => sum <= i - 1
  <2> DEFINE top == MaxIntegral * Frac
             a == i * Frac + e
  <2>1. /\ i \in Int /\ i * Frac \in Int /\ top \in Int
        /\ -top <= i * Frac /\ i * Frac <= top
    <3>1. i * Frac <= MaxIntegral * Frac /\ (-MaxIntegral) * Frac <= i * Frac
      BY <1>1, Scaled
    <3> QED  BY <1>1, <3>1
  <2>2. (127 - MaxIntegral) * Frac = 127 * Frac - top
    BY <1>1
  <2>3. (i + 1) * Frac = i * Frac + Frac /\ (i - 1) * Frac = i * Frac - Frac
    BY <1>1, <2>1
  <2>4. \/ Frac <= e /\ e <= 127 * Frac - top
        \/ Frac <= -e /\ -e <= 127 * Frac - top
    BY <1>1, <1>2, <2>2
  <2> HIDE DEF top
  <2>5. /\ a \in Int /\ (-127) * Frac <= a /\ a <= 127 * Frac
        /\ e > 0 => (i + 1) * Frac <= a
        /\ e < 0 => a <= (i - 1) * Frac
    BY <1>1, <2>1, <2>3, <2>4
  <2> HIDE DEF a
  <2>6. Quot(a, Frac) \in Int /\ -127 <= Quot(a, Frac) /\ Quot(a, Frac) <= 127
    BY <1>1, <2>5, QuotInt, QuotAbove, QuotBelow
  <2>7. (e > 0 => i + 1 <= Quot(a, Frac)) /\ (e < 0 => Quot(a, Frac) <= i - 1)
    BY <1>1, <2>1, <2>5, QuotAbove, QuotBelow
  <2> QED  BY <2>6, <2>7 DEF Int8, a
<1>3. TypeOK /\ [Next]_vars => [Accumulates]_vars
  <2> SUFFICES ASSUME TypeOK, NEW p \in RcPackets, NEW roll \in BOOLEAN,
                      NEW pitch \in Angles \cup {NaN}, Trigger(p, roll, pitch),
                      mode' = "stabilize", prevPitch' # NaN, prevPitch' # 0
               PROVE  /\ prevPitch' > 0 /\ pitchI < MaxIntegral
                           => pitchI' > pitchI
                      /\ prevPitch' < 0 /\ pitchI > -MaxIntegral
                           => pitchI' < pitchI
    BY DEF Next
  <2> DEFINE error == IF pitch = NaN THEN NaN ELSE -pitch
             sum == Quot(pitchI * Frac + error, Frac)
  <2>1. pitchI' \in NextPitchI(error) /\ prevPitch' = error
    BY DEF Trigger, Stabilize
  <2>2. error \in Int /\ error # 0 /\ -error \in Angles /\ error # NaN
    BY <2>1, InputsAssumption
  <2>3. pitchI \in -MaxIntegral .. MaxIntegral
    BY DEF TypeOK
  <2> HIDE DEF error
  <2>4. /\ sum \in Int8
        /\ error > 0 => sum >= pitchI + 1
        /\ error < 0 => sum <= pitchI - 1
    BY <1>2, <2>2, <2>3
  <2>5. pitchI' = Clamp(sum, MaxIntegral)
    BY <2>1, <2>2, <2>4 DEF NextPitchI
  <2> HIDE DEF sum
  <2> QED
    BY <1>1, <2>1, <2>2, <2>3, <2>4, <2>5 DEF Clamp, Int8
<1> QED
  BY <1>3, TypeCorrect, PTL DEF Spec, ErrorAccumulates
=============================================================================
