----------------------------- MODULE Autopilot -----------------------------
(***************************************************************************)
(* The autopilot of the SoM (impl/src/autopilot), triggered once in every  *)
(* iteration of SomController::runMainLoop with the packets it has read,   *)
(* and the part of the MCU's loop() that makes the RcRxPacket.             *)
(*                                                                         *)
(* Integers have the widths of the code.  Angles are in units of 1/Frac    *)
(* degree, Frac a power of two, so that the code's doubles hold them and   *)
(* their sums exactly; the gains are in hundredths.  The roll controller,  *)
(* whose state is a pair of real-valued filters, is reduced to what bounds *)
(* its output and to whether that state is still a number.                 *)
(***************************************************************************)
EXTENDS Integers

CONSTANTS
  MaxThrottle,   \* c_maxThrottle
  MaxAileron,    \* c_maxAileronDeflection
  MaxElevator,   \* c_maxElevatorDeflection
  MaxRudder,     \* c_maxRudderDeflection
  MaxIntegral,   \* c_maxIntegralError
  Kp, Ki, Kd,    \* c_kp, c_ki, c_kd in hundredths
  Frac,          \* units of angle in a degree
  Pulses,        \* lengths of pulse, in microseconds, on the RC inputs
  Angles,        \* pitch angles the IMU reports
  NaN,           \* what a misframed ImuPacket may hold instead of a number
  Undefined      \* what a double out of range may become in eight bits

UInt8 == 0 .. 255
Int8 == -128 .. 127

ASSUME LimitsAssumption ==
  /\ MaxThrottle \in UInt8
  /\ {MaxAileron, MaxElevator, MaxRudder, MaxIntegral} \subseteq 0 .. 127
ASSUME GainsAssumption == Kp \in Nat /\ Ki \in Nat /\ Kd \in Nat
ASSUME InputsAssumption ==
  /\ Frac \in Nat \ {0} /\ Pulses \subseteq Nat /\ Angles \subseteq Int
  /\ NaN \notin Int /\ Undefined \subseteq Int8

VARIABLES
  mode,       \* which autopilot m_autopilot points to
  prevState,  \* m_prevState
  pitchI,     \* m_pitchIntegralError
  prevPitch,  \* m_prevPitchError
  rollOk,     \* the roll controller's errors are all numbers
  rc,         \* the RcRxPacket of the last trigger
  cs          \* the ControlSurfacePacket it returned

pid == <<pitchI, prevPitch, rollOk>>
vars == <<mode, prevState, pid, rc, cs>>

-----------------------------------------------------------------------------
(* Arithmetic as C++ does it.                                              *)

AsUInt8(x) == x % 256
AsInt8(x) == ((x + 128) % 256) - 128
Quot(a, b) == IF a >= 0 THEN a \div b ELSE -((-a) \div b)

(* static_cast<int8_t> of the double nearest to num / den: rounding may    *)
(* leave it on either side of a whole number, and a value out of range     *)
(* converts to anything.                                                   *)
Narrowed(num, den) ==
  LET q == Quot(num, den)
  IN  IF q \notin Int8 THEN Undefined
      ELSE {q} \cup IF num = q * den /\ q > 0 THEN {q - 1}
                    ELSE IF num = q * den /\ q < 0 THEN {q + 1} ELSE {}

Clamp(x, max) == IF x > max THEN max ELSE IF x < -max THEN -max ELSE x

-----------------------------------------------------------------------------
(* The packets.                                                            *)

(* toRange on the MCU; the conversion to eight bits keeps the low byte.    *)
ToRange(pulse, lo, hi) == Quot((pulse - 1000) * (hi - lo) + lo * 1000, 1000)
MotorStick(pulse) == AsUInt8(ToRange(pulse, 0, 100))
Stick(pulse) == AsInt8(ToRange(pulse, -100, 100))

HasUserInput(stick) == stick >= 3 \/ stick <= -3

(* state: kASSISTANCE_FLAG, kUSER_ROLL and kUSER_PITCH.                    *)
Status(assist, aileron, elevator) ==
  (IF assist THEN {"assist"} ELSE {})
    \cup (IF HasUserInput(aileron) THEN {"roll"} ELSE {})
    \cup (IF HasUserInput(elevator) THEN {"pitch"} ELSE {})

RcPacket(state, motor, aileron, elevator, rudder) ==
  [state |-> state, motor |-> motor, aileron |-> aileron,
   elevator |-> elevator, rudder |-> rudder]

McuPacket(assist, motor, aileron, elevator, rudder) ==
  RcPacket(Status(assist, Stick(aileron), Stick(elevator)),
           MotorStick(motor), Stick(aileron), Stick(elevator), Stick(rudder))

(* The throttle and the rudder, which nothing relates to one another or to *)
(* the rest, are moved together.                                           *)
McuPackets ==
  {McuPacket(assist, m, aileron, elevator, m) :
     assist \in BOOLEAN, m \in Pulses, aileron \in Pulses,
     elevator \in Pulses}

(* A read that timed out returns a packet of zeros; one that is misframed  *)
(* returns bytes of other packets.                                         *)
ZeroPacket == RcPacket({}, 0, 0, 0, 0)

MisframedPackets ==
  {RcPacket(state, 255, stick, stick, stick) :
     state \in {{}, {"assist", "roll", "pitch"}}, stick \in {-128, 127}}

RcPackets == McuPackets \cup {ZeroPacket} \cup MisframedPackets

Surfaces(motor, aileron, elevator, rudder) ==
  [motor |-> motor, aileron |-> aileron, elevator |-> elevator,
   rudder |-> rudder]

-----------------------------------------------------------------------------
(* AutopilotUtility.                                                       *)

BindToRange(value, inMin, inMax, outMin, outMax) ==
  Quot((value - inMin) * (outMax - outMin), inMax - inMin) + outMin

BindRcThrottle(value) == AsUInt8(BindToRange(value, 0, 100, 0, MaxThrottle))

(* Mutant: the sticks are taken to range over what the throttle does.      *)
BindRcDeflection_FromZero(value, max) ==
  AsInt8(BindToRange(value, 0, 100, -max, max))

BindRcDeflection(value, max) ==
  AsInt8(BindToRange(value, -100, 100, -max, max))

(* Mutant: the output is bounded on one side only.                         *)
BindPidElevator_OneSided(value) ==
  IF value > MaxElevator THEN MaxElevator ELSE value

BindPidElevator(value) == Clamp(value, MaxElevator)

-----------------------------------------------------------------------------
Init ==
  /\ mode = "manual" /\ prevState = {}
  /\ pitchI = 0 /\ prevPitch = 0 /\ rollOk = TRUE
  /\ rc = ZeroPacket /\ cs = Surfaces(0, 0, 0, 0)

(* Mutant: m_prevState is not brought up to date.                          *)
HandleState_Forgets(state) ==
  /\ \/ state = prevState /\ UNCHANGED mode
     \/ /\ state # prevState
        /\ mode' = IF "assist" \in state THEN "stabilize" ELSE "manual"
  /\ UNCHANGED prevState

HandleState(state) ==
  \/ state = prevState /\ UNCHANGED <<mode, prevState>>
  \/ /\ state # prevState
     /\ mode' = IF "assist" \in state THEN "stabilize" ELSE "manual"
     /\ prevState' = state

Manual(p) ==
  /\ cs' = Surfaces(BindRcThrottle(p.motor),
                    BindRcDeflection(p.aileron, MaxAileron),
                    BindRcDeflection(p.elevator, MaxElevator),
                    BindRcDeflection(p.rudder, MaxRudder))
  /\ UNCHANGED pid

(* computeRollToAileronDeflection: bounded before it is narrowed.  Once an *)
(* error is not a number, its filters never are again.                     *)
RollOutputs(ok) == IF ok THEN -MaxAileron .. MaxAileron ELSE Undefined

(* Mutant: the integral error is not bounded.                              *)
NextPitchI_Unbound(error) ==
  IF error = NaN THEN Undefined
  ELSE {Quot(pitchI * Frac + error, Frac)}

(* The integral error, narrowed on its way into bindIntegralError.         *)
NextPitchI(error) ==
  LET sum == Quot(pitchI * Frac + error, Frac)
      narrowed == IF error # NaN /\ sum \in Int8 THEN {sum} ELSE Undefined
  IN  {Clamp(i, MaxIntegral) : i \in narrowed}

(* computePitchToElevatorDeflection, narrowed before it is bounded.        *)
PitchOutputs(error, integral) ==
  IF error = NaN \/ prevPitch = NaN THEN Undefined
  ELSE Narrowed(Kp * error + Ki * integral * Frac + Kd * (error - prevPitch),
                100 * Frac)

Stabilize(p, roll, pitch) ==
  LET error == IF pitch = NaN THEN NaN ELSE -pitch
  IN  \E i \in NextPitchI(error), aileron \in RollOutputs(rollOk /\ roll) :
        \E elevator \in PitchOutputs(error, i) :
          /\ cs' = Surfaces(BindRcThrottle(p.motor), aileron,
                            BindPidElevator(elevator),
                            BindRcDeflection(p.rudder, MaxRudder))
          /\ pitchI' = i /\ prevPitch' = error /\ rollOk' = (rollOk /\ roll)

(* AutopilotManager::trigger; roll says whether the roll angle is a number *)
Trigger(p, roll, pitch) ==
  /\ HandleState(p.state \cap {"assist"})
  /\ rc' = p
  /\ \/ mode' = "manual" /\ Manual(p)
     \/ mode' = "stabilize" /\ Stabilize(p, roll, pitch)

Next ==
  \E p \in RcPackets, roll \in BOOLEAN, pitch \in Angles \cup {NaN} :
    Trigger(p, roll, pitch)

Spec == Init /\ [][Next]_vars

-----------------------------------------------------------------------------
TypeOK ==
  /\ mode \in {"manual", "stabilize"} /\ prevState \subseteq {"assist"}
  /\ pitchI \in -MaxIntegral .. MaxIntegral
  /\ prevPitch \in Int \cup {NaN} /\ rollOk \in BOOLEAN
  /\ rc \in [state : SUBSET {"assist", "roll", "pitch"}, motor : UInt8,
             aileron : Int8, elevator : Int8, rudder : Int8]
  /\ cs \in [motor : UInt8, aileron : Int8, elevator : Int8, rudder : Int8]

(* The autopilot in use is the one the last packet asks for, although the  *)
(* manager acts only when the flag differs from the one it remembers.      *)
ModeFollowsAssist == mode = "stabilize" <=> "assist" \in rc.state

InRange(p) ==
  p.motor <= 100 /\ {p.aileron, p.elevator, p.rudder} \subseteq -100 .. 100

Within(x, max) == -max <= x /\ x <= max

(* For sticks in their range and a roll controller that has seen numbers   *)
(* only, every output is within its configured limit, in both modes and    *)
(* through every change of mode; the pitch angle may be anything at all.   *)
OutputsBounded ==
  InRange(rc) /\ rollOk =>
    /\ cs.motor <= MaxThrottle /\ Within(cs.aileron, MaxAileron)
    /\ Within(cs.elevator, MaxElevator) /\ Within(cs.rudder, MaxRudder)

(* The elevator's limit holds in stabilize mode for every packet, those    *)
(* that are misframed included: narrowing comes before the bound.          *)
ElevatorAlwaysBounded ==
  mode = "stabilize" => Within(cs.elevator, MaxElevator)

(* The gains for which the sign of the elevator can be relied on: the term *)
(* of the integral stays below one degree, and the output for every angle  *)
(* within eight bits.  Those of configs/config.json are.                   *)
GainsModerate ==
  /\ Ki * MaxIntegral < 100
  /\ 180 * Kp + Ki * MaxIntegral < 128 * 100

(* With such gains a pitch error that is an angle and does not change is   *)
(* never answered with the opposite deflection, whatever the integral      *)
(* error has been through before.                                          *)
SteadyPitchOpposed ==
  [][mode' = "stabilize" /\ prevPitch' = prevPitch
       /\ prevPitch \in (-180 * Frac) .. (180 * Frac)
       => /\ prevPitch > 0 => cs'.elevator >= 0
          /\ prevPitch < 0 => cs'.elevator <= 0]_vars

(* AutopilotUtility's doc: bind the stick position to the configured       *)
(* output range, and return the bounded value.                             *)
SticksBound ==
  mode = "manual" /\ rc \in McuPackets =>
    /\ cs.motor <= MaxThrottle /\ Within(cs.aileron, MaxAileron)
    /\ Within(cs.elevator, MaxElevator) /\ Within(cs.rudder, MaxRudder)

(* StabilizeAutopilot's doc: the output has a term for the integral of the *)
(* error, so a lasting error moves the integral towards its bound.         *)
ErrorAccumulates ==
  [][mode' = "stabilize" /\ prevPitch' # NaN
       => /\ prevPitch' > 0 /\ pitchI < MaxIntegral => pitchI' > pitchI
          /\ prevPitch' < 0 /\ pitchI > -MaxIntegral => pitchI' < pitchI]_vars
=============================================================================
