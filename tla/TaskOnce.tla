------------------------------ MODULE TaskOnce ------------------------------
(***************************************************************************)
(* What the pipeline promises about one Task object, without its stages:   *)
(* an open item is claimed or closed, a claimed item is delivered by one   *)
(* worker at most, and a closed item stays closed.                         *)
(***************************************************************************)
CONSTANTS Items, Workers

VARIABLES
  phase,      \* phase[i]: "open", "working", "delivering" or "closed"
  delivered   \* delivered[i]: the workers that delivered item i

Init ==
  /\ phase = [i \in Items |-> "open"]
  /\ delivered = [i \in Items |-> {}]

\* The item changes phase and nothing is delivered.
To(i, p) ==
  /\ phase' = [phase EXCEPT ![i] = p]
  /\ UNCHANGED delivered

Claim(i) == phase[i] = "open" /\ To(i, "working")

Close(i) == phase[i] # "closed" /\ To(i, "closed")

Deliver(i, w) ==
  /\ phase[i] = "working"
  /\ phase' = [phase EXCEPT ![i] = "delivering"]
  /\ delivered' = [delivered EXCEPT ![i] = @ \cup {w}]

\* Items move one at a time.
Next ==
  \E i \in Items : \/ Claim(i) \/ Close(i)
                   \/ \E w \in Workers : Deliver(i, w)

Spec == Init /\ [][Next]_<<phase, delivered>>
=============================================================================
