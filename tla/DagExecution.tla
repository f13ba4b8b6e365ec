---------------------------- MODULE DagExecution ----------------------------
(***************************************************************************)
(* What running an operator graph promises: operators complete one by one, *)
(* each after everything it depends on; the run ends as a success exactly  *)
(* when all have completed, or as a failure, after which none completes.   *)
(***************************************************************************)
CONSTANTS Nodes, Deps(_)

VARIABLES done, verdict      \* verdict is "running", "ok" or "failed"

Init == done = {} /\ verdict = "running"

Complete(n) ==
    /\ verdict = "running" /\ n \notin done /\ Deps(n) \subseteq done
    /\ done' = done \cup {n}
    /\ UNCHANGED verdict

Succeed == verdict = "running" /\ done = Nodes /\ verdict' = "ok" /\ UNCHANGED done

Fail == verdict = "running" /\ verdict' = "failed" /\ UNCHANGED done

Next == (\E n \in Nodes : Complete(n)) \/ Succeed \/ Fail

Spec == Init /\ [][Next]_<<done, verdict>> /\ <>(verdict # "running")
=============================================================================
