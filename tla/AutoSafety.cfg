SPECIFICATION Spec
CONSTANTS
  MaxThrottle = 200
  MaxAileron = 1
  MaxElevator = 3
  MaxRudder = 2
  MaxIntegral = 2
  Kp = 50
  Ki = 5
  Kd = 8
  Frac = 2
  Pulses = {1000, 2012}
  Angles <- SomeAngles
  NaN = NaN
  Undefined <- SomeBytes
INVARIANTS
  TypeOK
  ModeFollowsAssist
  OutputsBounded
  ElevatorAlwaysBounded

  
