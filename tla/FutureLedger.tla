---------------------------- MODULE FutureLedger ----------------------------
(***************************************************************************)
(* What an asynchronous inference queue promises its callers: a submitted  *)
(* request gets a future, the future is given exactly one outcome, and     *)
(* that outcome never changes.                                             *)
(***************************************************************************)
CONSTANTS Requests, Outcomes

VARIABLE outcome             \* "unsubmitted", "pending" or the future's result

Init == outcome = [r \in Requests |-> "unsubmitted"]

\* The request is accepted, or refused with a result that is ready at once.
Submit(r) ==
    /\ outcome[r] = "unsubmitted"
    /\ \E o \in Outcomes \cup {"pending"} : outcome' = [outcome EXCEPT ![r] = o]

\* Making room for a new request settles older ones in the same step.
SubmitReplacing(r) ==
    /\ outcome[r] = "unsubmitted"
    /\ \E gone \in SUBSET {q \in Requests : outcome[q] = "pending"} : \E o \in Outcomes :
          outcome' = [q \in Requests |-> IF q = r THEN "pending"
                                         ELSE IF q \in gone THEN o ELSE outcome[q]]

Settle ==
    \E gone \in SUBSET {q \in Requests : outcome[q] = "pending"} : \E o \in Outcomes :
       outcome' = [q \in Requests |-> IF q \in gone THEN o ELSE outcome[q]]

Next == (\E r \in Requests : Submit(r) \/ SubmitReplacing(r)) \/ Settle

Safe == Init /\ [][Next]_outcome

\* Every future becomes ready.
AllSettle == \A r \in Requests : outcome[r] = "pending" ~> outcome[r] \in Outcomes

Spec == Safe /\ AllSettle
=============================================================================
