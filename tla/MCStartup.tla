------------------------------ MODULE MCStartup ------------------------------
(* Startup with configs/config.json and ways to get it wrong.               *)
EXTENDS Startup

N(n) == Number(n, FALSE)
Some == Number(0, TRUE)

ConfigJson(names, size, throttle, aileron) ==
  Object([rcplane |-> Object([
    common |-> Object([handshake_termination_string |-> Text("flush\r\n")]),
    io |-> Object([
      serial_controller |-> Object([
        tty_dev |-> Text("/dev/ttyACM0"), baud_rate |-> N(115200),
        read_timeout_ms |-> N(500), write_timeout_ms |-> N(500)]),
      telemetry |-> Object([
        debug_mq_name |-> names[1], attitude_mq_name |-> names[2],
        onboard_mq_name |-> names[3], mq_size |-> size])]),
    autopilot |-> Object([
      max_throttle |-> throttle, max_aileron_deflection |-> aileron,
      max_elevator_deflection |-> N(40), max_rudder_deflection |-> N(20),
      stabilize |-> Object([kp |-> Some, ki |-> Some, kd |-> Some,
                            tau |-> Some, max_integral_error |-> N(4)])]),
    som |-> Object([som_controller |-> Object([
      handshake_attempts |-> N(20), main_loop_delay_ms |-> N(4000)])])])])

Names == <<Text("debug"), Text("attitude"), Text("onboard")>>

(* As shipped; with other names in another order and another size; with    *)
(* limits that do not fit; with one name twice and a flag for a limit;     *)
(* without a name; with a number for a name; with nothing where the        *)
(* telemetry settings should be.                                           *)
SomeDocuments ==
  [shipped |-> ConfigJson(Names, N(100), N(255), N(35)),
   swapped |-> ConfigJson(<<Names[2], Names[1], Text("state")>>, N(50),
                          N(200), N(35)),
   wide |-> ConfigJson(Names, N(-1), N(300), Number(200, TRUE)),
   doubled |-> ConfigJson(<<Names[1], Names[1], Names[3]>>, N(100), Flag(TRUE),
                          N(35)),
   unnamed |-> ConfigJson(<<Names[1], Null, Names[3]>>, N(100), N(255), N(35)),
   numbered |-> ConfigJson(<<Names[1], N(7), Names[3]>>, N(100), N(255), N(35)),
   hollow |-> Object([rcplane |-> Object([io |-> Text("telemetry")])])]
=============================================================================
