------------------------------ MODULE Delivery ------------------------------
(***************************************************************************)
(* What publish and a durable pull consumer promise together: a message    *)
(* waits until it is done or given up, it is done only after it has been   *)
(* taken, it is taken again a bounded number of times, and done and given  *)
(* up are final.                                                           *)
(***************************************************************************)
EXTENDS Naturals

CONSTANTS Msgs, MaxDeliver

VARIABLES
  fate,     \* "unsent", "waiting", "done" or "dead", of each message
  taken     \* how often it was taken

vars == <<fate, taken>>

Init ==
  /\ fate = [m \in Msgs |-> "unsent"]
  /\ taken = [m \in Msgs |-> 0]

Becomes(m, from, to) ==
  /\ fate[m] = from
  /\ fate' = [fate EXCEPT ![m] = to]
  /\ UNCHANGED taken

Publish(m) == Becomes(m, "unsent", "waiting")

\* Also by one who has not heard that it is settled.
Take(m) ==
  /\ fate[m] # "unsent"
  /\ taken[m] < MaxDeliver
  /\ taken' = [taken EXCEPT ![m] = @ + 1]
  /\ UNCHANGED fate

Finish(m) == taken[m] > 0 /\ Becomes(m, "waiting", "done")

GiveUp(m) == Becomes(m, "waiting", "dead")

Next == \E m \in Msgs : Publish(m) \/ Take(m) \/ Finish(m) \/ GiveUp(m)

Spec == Init /\ [][Next]_vars
=============================================================================
