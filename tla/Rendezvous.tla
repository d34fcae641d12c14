----------------------------- MODULE Rendezvous -----------------------------
(* What a barrier or a latch promises: nobody passes before everybody has  *)
(* arrived.  Whoever arrives need not be who passes.                       *)
CONSTANTS Arrivers, Waiters

VARIABLES arrived, passed

Init == arrived = {} /\ passed = {}

Arrive(a) ==
  /\ a \notin arrived
  /\ arrived' = arrived \cup {a}
  /\ UNCHANGED passed

Pass(w) ==
  /\ arrived = Arrivers
  /\ w \notin passed
  /\ passed' = passed \cup {w}
  /\ UNCHANGED arrived

Next == (\E a \in Arrivers : Arrive(a)) \/ (\E w \in Waiters : Pass(w))

Spec == Init /\ [][Next]_<<arrived, passed>>
=============================================================================
