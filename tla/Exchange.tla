------------------------------ MODULE Exchange ------------------------------
(***************************************************************************)
(* What the serial line promises to the control loop, without its bytes:   *)
(* whole packets.  The MCU sends two in each of its rounds; the SoM takes  *)
(* those of round n in its iteration n and answers at most once; the MCU   *)
(* applies the answers one by one, or none.  The promise ends when the     *)
(* exchange is spoilt.                                                     *)
(***************************************************************************)
EXTENDS Naturals, Sequences

VARIABLES
  sensed,   \* packets the MCU has sent
  begun,    \* iterations the SoM has begun
  taken,    \* the round of each packet it has read in this iteration
  answers,  \* the round that each of its answers is for
  passed,   \* answers the MCU has taken
  applied,  \* the answer the MCU applies, 0 for none
  spoilt    \* nothing is promised any more

vars == <<sensed, begun, taken, answers, passed, applied, spoilt>>

Init ==
  /\ sensed = 0 /\ begun = 0 /\ taken = <<>> /\ answers = <<>>
  /\ passed = 0 /\ applied = 0 /\ spoilt = FALSE

Sense ==
  /\ sensed' = sensed + 1
  /\ UNCHANGED <<begun, taken, answers, passed, applied>>

TakeRc ==
  /\ taken = <<>> /\ sensed > 2 * begun
  /\ begun' = begun + 1 /\ taken' = <<begun'>>
  /\ UNCHANGED <<sensed, answers, passed, applied>>

TakeImu ==
  /\ taken = <<begun>> /\ sensed >= 2 * begun
  /\ taken' = <<begun, begun>>
  /\ UNCHANGED <<sensed, begun, answers, passed, applied>>

(* An answer may be lost as a whole.                                       *)
Answer ==
  /\ taken = <<begun, begun>> /\ taken' = <<>>
  /\ answers' \in {answers, Append(answers, begun)}
  /\ UNCHANGED <<sensed, begun, passed, applied>>

(* The next answer, or none after a time without one.                      *)
Apply ==
  /\ \/ passed < Len(answers) /\ passed' = passed + 1 /\ applied' = passed'
     \/ passed' = passed /\ applied' = 0
  /\ UNCHANGED <<sensed, begun, taken, answers>>

Promised ==
  /\ spoilt = FALSE /\ spoilt' = FALSE
  /\ Sense \/ TakeRc \/ TakeImu \/ Answer \/ Apply

Next == Promised \/ spoilt' = TRUE

Spec == Init /\ [][Next]_vars
=============================================================================
