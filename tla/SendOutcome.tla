---------------------------- MODULE SendOutcome ----------------------------
(***************************************************************************)
(* What the acknowledgement ledger promises the application, without the   *)
(* ledger: every message sent is waited for, and then it is accepted,      *)
(* refused or given up on, once, and what was said of it is never taken    *)
(* back.                                                                   *)
(***************************************************************************)
CONSTANT Ids

VARIABLE outcome

Settled == {"Accepted", "Refused", "TimedOut"}
Outcomes == {"Unsent", "Waiting"} \cup Settled

Init == outcome = [id \in Ids |-> "Unsent"]

Send(id) ==
  /\ outcome[id] = "Unsent"
  /\ outcome' = [outcome EXCEPT ![id] = "Waiting"]

Answered(id) ==
  /\ outcome[id] = "Waiting"
  /\ \E how \in {"Accepted", "Refused"} : outcome' = [outcome EXCEPT ![id] = how]

\* One sweep may give up on several.
GiveUp ==
  \E late \in SUBSET {id \in Ids : outcome[id] = "Waiting"} :
    outcome' = [id \in Ids |-> IF id \in late THEN "TimedOut" ELSE outcome[id]]

Next == (\E id \in Ids : Send(id) \/ Answered(id)) \/ GiveUp

Spec == Init /\ [][Next]_outcome
=============================================================================
