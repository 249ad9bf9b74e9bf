-------------------------------- MODULE Feed --------------------------------
(***************************************************************************)
(* What telemetry promises to whoever shows it, without its queues: feeds  *)
(* of turns of the control loop.  A turn is published once; each receiver  *)
(* takes turns off a feed in the order in which they were published, no    *)
(* two receivers take the same one, and a round, however many messages it  *)
(* is made of, has all its parts from one turn.  The promise ends when the *)
(* feed is spoilt.                                                         *)
(***************************************************************************)
EXTENDS Naturals, Sequences

CONSTANTS
  Receivers,  \* who takes rounds
  Feeds,      \* the feeds there may be, one for each run of the publisher
  Parts       \* messages that make a round

VARIABLES
  feed,    \* turns of each feed that nobody has begun to take
  turn,    \* turns published
  round,   \* the parts each receiver has of its round
  spoilt   \* nothing is promised any more

vars == <<feed, turn, round, spoilt>>

Init ==
  /\ feed = [i \in Feeds |-> <<>>] /\ turn = 0
  /\ round = [r \in Receivers |-> <<>>] /\ spoilt = FALSE

Publish ==
  /\ turn' = turn + 1
  /\ \E i \in Feeds : feed' = [feed EXCEPT ![i] = Append(@, turn')]
  /\ UNCHANGED round

(* A new round begins when the one before is complete.                     *)
Begin(r) ==
  /\ Len(round[r]) \in {0, Parts}
  /\ \E i \in Feeds :
       /\ feed[i] # <<>>
       /\ feed' = [feed EXCEPT ![i] = Tail(@)]
       /\ round' = [round EXCEPT ![r] = <<Head(feed[i])>>]
  /\ UNCHANGED turn

(* The next part is of the same turn as the first one.                     *)
Fill(r) ==
  /\ Len(round[r]) \in 1 .. Parts - 1
  /\ round' = [round EXCEPT ![r] = Append(@, @[1])]
  /\ UNCHANGED <<feed, turn>>

(* A receiver forgets a complete round.                                    *)
Leave(r) ==
  /\ Len(round[r]) = Parts
  /\ round' = [round EXCEPT ![r] = <<>>]
  /\ UNCHANGED <<feed, turn>>

Promised ==
  /\ spoilt = FALSE /\ spoilt' = FALSE
  /\ Publish \/ \E r \in Receivers : Begin(r) \/ Fill(r) \/ Leave(r)

Next == Promised \/ spoilt' = TRUE

Spec == Init /\ [][Next]_vars
=============================================================================
