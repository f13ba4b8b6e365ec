-------------------------- MODULE OperatorScheduler -------------------------
(***************************************************************************)
(* OperatorScheduler::run (src/operator_scheduler.cpp): a pool of workers  *)
(* executes the operators of one validated graph.  Each critical section   *)
(* of the run's mutex is one action.  A worker that finds only operators   *)
(* whose lane is full goes round its loop without changing anything.       *)
(***************************************************************************)
EXTENDS Integers, FiniteSets, Sequences

CONSTANTS
    Nodes,                   \* the ids of the graph, 0..size-1
    Dependencies, Device, Priority,    \* functions on Nodes
    Lanes, Limits,           \* devices, and config_'s worker count of each
    Workers,                 \* the threads of one run
    None                     \* no operator

ASSUME OperatorAssumption ==
    /\ Nodes \subseteq Nat /\ IsFiniteSet(Nodes)
    /\ Dependencies \in [Nodes -> SUBSET Nodes]
    \* graph.validate() has accepted the graph
    /\ \A S \in SUBSET Nodes : S # {} => \E n \in S : Dependencies[n] \cap S = {}
    /\ Device \in [Nodes -> Lanes]
    /\ Priority \in [Nodes -> Int]
    /\ Limits \in [Lanes -> Nat \ {0}]       \* the constructor throws on zero
    /\ None \notin Nodes /\ IsFiniteSet(Workers) /\ Workers # {}

VARIABLES
    main,                    \* where the thread that called run() is
    worker, node, result,    \* where a worker is, its operator, the operator's status
    remaining, ready,        \* open dependencies; the priority queue
    active, finished, stop,
    failure,                 \* [code, operator] of the first failure
    completed,               \* the report's list
    cancelled, expired,      \* options.cancellation, options.deadline
    returned                 \* what run() returned

control == <<main, returned>>
pool == <<worker, node, result>>
shared == <<remaining, ready, active, finished, stop, failure, completed>>
options == <<cancelled, expired>>
vars == <<control, pool, shared, options>>

Success == [code |-> "ok", operator |-> None]
Failure(code, n) == [code |-> code, operator |-> n]

Init ==
    /\ main = "start"
    /\ worker = [w \in Workers |-> "unborn"]
    /\ node = [w \in Workers |-> None]
    /\ result = [w \in Workers |-> "ok"]
    /\ remaining = [n \in Nodes |-> Cardinality(Dependencies[n])]
    /\ ready = {n \in Nodes : Dependencies[n] = {}}
    /\ active = [l \in Lanes |-> 0]
    /\ finished = 0
    /\ stop = FALSE
    /\ failure = Success
    /\ completed = <<>>
    /\ cancelled \in BOOLEAN
    /\ expired \in BOOLEAN
    /\ returned = Success

-----------------------------------------------------------------------------

\* The code of a schedule that is over before its time: the deadline wins.
Interrupted == cancelled \/ expired
InterruptCode == IF expired THEN "deadline_exceeded" ELSE "cancelled"

\* A schedule that is dead on arrival, or empty, returns before any thread starts.
ReturnEarly ==
    /\ main = "start"
    /\ Interrupted \/ Nodes = {}
    /\ main' = "returned"
    /\ returned' = IF Interrupted THEN Failure(InterruptCode, None) ELSE Success
    /\ UNCHANGED <<pool, shared, options>>

Spawn ==
    /\ main = "start"
    /\ ~ Interrupted /\ Nodes # {}
    /\ main' = "notify"
    /\ worker' = [w \in Workers |-> "loop"]
    /\ UNCHANGED <<returned, node, result, shared, options>>

\* Mutant of Woken: a notification reaches one waiter only.
WokenOne ==
    LET one == CHOOSE w \in Workers : worker[w] = "waiting"
    IN IF \E w \in Workers : worker[w] = "waiting" THEN [worker EXCEPT ![one] = "loop"] ELSE worker

\* notify_all(): every thread in condition.wait looks at its predicate again.
Woken == [w \in Workers |-> IF worker[w] = "waiting" THEN "loop" ELSE worker[w]]

MainNotify ==
    /\ main = "notify"
    /\ main' = "join"
    /\ worker' = Woken
    /\ UNCHANGED <<returned, node, result, shared, options>>

Join ==
    /\ main = "join"
    /\ \A w \in Workers : worker[w] = "exited"
    /\ main' = "returned"
    /\ returned' = failure
    /\ UNCHANGED <<pool, shared, options>>

-----------------------------------------------------------------------------

Over == stop \/ finished = Cardinality(Nodes)

Wait(w) ==
    /\ worker[w] = "loop" /\ ~ Over /\ ready = {}
    /\ worker' = [worker EXCEPT ![w] = "waiting"]
    /\ UNCHANGED <<control, node, result, shared, options>>

Exit(w) ==
    /\ worker[w] = "loop" /\ Over
    /\ worker' = [worker EXCEPT ![w] = "exited"]
    /\ UNCHANGED <<control, node, result, shared, options>>

\* Ready::operator<: higher priority first, lower id among equals.
Before(m, n) == Priority[m] > Priority[n] \/ (Priority[m] = Priority[n] /\ m < n)

\* Mutant of HasRoom: the comparison with the lane's limit is off by one.
HasRoomForOneMore(n) == active[Device[n]] <= Limits[Device[n]]

HasRoom(n) == active[Device[n]] < Limits[Device[n]]

\* Mutant of Selectable: the queue is not a priority queue.
SelectableInAnyOrder(n) == n \in ready /\ HasRoom(n)

\* The first operator of the queue whose lane has room; the ones that are passed
\* over go back into it.
Selectable(n) ==
    /\ n \in ready /\ HasRoom(n)
    /\ \A m \in ready \ {n} : HasRoom(m) => Before(n, m)

Select(w, n) ==
    /\ worker[w] = "loop" /\ ~ Over
    /\ Selectable(n)
    /\ ready' = ready \ {n}
    /\ active' = [active EXCEPT ![Device[n]] = @ + 1]
    /\ node' = [node EXCEPT ![w] = n]
    /\ worker' = [worker EXCEPT ![w] = "selected"]
    /\ UNCHANGED <<control, result, remaining, finished, stop, failure, completed, options>>

\* Outside the mutex: an interrupted schedule skips the operator, an operator
\* that throws yields internal_error.
Skip(w) ==
    /\ worker[w] = "selected" /\ Interrupted
    /\ worker' = [worker EXCEPT ![w] = "complete"]
    /\ result' = [result EXCEPT ![w] = InterruptCode]
    /\ UNCHANGED <<control, node, shared, options>>

Begin(w) ==
    /\ worker[w] = "selected" /\ ~ Interrupted
    /\ worker' = [worker EXCEPT ![w] = "running"]
    /\ UNCHANGED <<control, node, result, shared, options>>

End(w) ==
    /\ worker[w] = "running"
    /\ \E code \in {"ok", "internal_error"} : result' = [result EXCEPT ![w] = code]
    /\ worker' = [worker EXCEPT ![w] = "complete"]
    /\ UNCHANGED <<control, node, shared, options>>

FirstFailure(w) == result[w] # "ok" /\ ~ stop

CompleteFailure(w) ==
    /\ FirstFailure(w)
    /\ stop' = TRUE
    /\ failure' = Failure(result[w], node[w])
    /\ UNCHANGED <<remaining, ready, finished, completed>>

\* Mutant of Unblocked: a child is released by its first dependency.
UnblockedByAny(n) == {c \in Nodes : n \in Dependencies[c]} \ {completed[i] : i \in 1..Len(completed)}

Unblocked(n) == {c \in Nodes : n \in Dependencies[c] /\ remaining[c] = 1}

CompleteSuccess(w) ==
    /\ result[w] = "ok" /\ ~ stop
    /\ finished' = finished + 1
    /\ completed' = Append(completed, node[w])
    /\ remaining' = [c \in Nodes |-> IF node[w] \in Dependencies[c]
                                     THEN remaining[c] - 1 ELSE remaining[c]]
    /\ ready' = ready \cup Unblocked(node[w])
    /\ UNCHANGED <<stop, failure>>

\* Once the run has stopped an operator that ends is not recorded at all.
CompleteIgnored(w) ==
    /\ stop
    /\ ~ FirstFailure(w)
    /\ UNCHANGED <<remaining, ready, finished, stop, failure, completed>>

Complete(w) ==
    /\ worker[w] = "complete"
    /\ active' = [active EXCEPT ![Device[node[w]]] = @ - 1]
    /\ CompleteFailure(w) \/ CompleteSuccess(w) \/ CompleteIgnored(w)
    /\ worker' = [worker EXCEPT ![w] = "notify"]
    /\ node' = [node EXCEPT ![w] = None]
    /\ result' = [result EXCEPT ![w] = "ok"]
    /\ UNCHANGED <<control, options>>

Notify(w) ==
    /\ worker[w] = "notify"
    /\ worker' = [Woken EXCEPT ![w] = "loop"]
    /\ UNCHANGED <<control, node, result, shared, options>>

-----------------------------------------------------------------------------

\* The token is cancelled or the deadline passes while the graph runs.
Interrupt ==
    /\ main # "returned"
    /\ \/ ~ cancelled /\ cancelled' = TRUE /\ UNCHANGED expired
       \/ ~ expired /\ expired' = TRUE /\ UNCHANGED cancelled
    /\ UNCHANGED <<control, pool, shared>>

MainStep == ReturnEarly \/ Spawn \/ MainNotify \/ Join
WorkerStep(w) ==
    \/ Wait(w) \/ Exit(w) \/ (\E n \in Nodes : Select(w, n)) \/ Skip(w) \/ Begin(w)
    \/ End(w) \/ Complete(w) \/ Notify(w)

Next == MainStep \/ (\E w \in Workers : WorkerStep(w)) \/ Interrupt

\* Threads run and operators return; nothing has to be interrupted.
Spec == Init /\ [][Next]_vars /\ WF_vars(MainStep) /\ \A w \in Workers : WF_vars(WorkerStep(w))

-----------------------------------------------------------------------------

Done == {completed[i] : i \in 1..Len(completed)}
Occupies(w, n) == node[w] = n

\* An operator is dispatched, runs or is reported complete only when everything
\* it depends on has completed successfully, and no operator is dispatched twice:
\* ready, dispatched and completed never overlap.
DependenciesFirst ==
    /\ \A n \in Nodes : (n \in ready \cup Done \/ \E w \in Workers : Occupies(w, n)) =>
          Dependencies[n] \subseteq Done
    /\ ready \cap Done = {}
    /\ \A w \in Workers : node[w] \notin ready \cup Done
    /\ \A v, w \in Workers : node[v] = node[w] /\ node[v] # None => v = w

\* A lane never runs more operators at once than it has workers, so an
\* accelerator context with one worker is never entered twice.
LaneLimits ==
    \A l \in Lanes :
        Cardinality({w \in Workers : node[w] # None /\ Device[node[w]] = l}) <= Limits[l]

\* Ready operators are dispatched in priority order: one that is passed over in
\* favour of a lesser one is waiting for a lane that is full.
PriorityOrder ==
    [][\A w \in Workers : node[w] = None /\ node'[w] # None =>
          \A m \in ready' :
              Before(m, node'[w]) =>
                  active'[Device[m]] = Limits[Device[m]]]_vars

\* The refinement mapping.
DependenciesOf(n) == Dependencies[n]
Verdict ==
    IF main # "returned" /\ ~ stop THEN "running"
    ELSE IF failure.code = "ok" /\ returned.code = "ok" THEN "ok"
    ELSE "failed"
Dag == INSTANCE DagExecution WITH
           Nodes <- Nodes, Deps <- DependenciesOf, done <- Done, verdict <- Verdict

\* The pool implements the abstract execution of the graph, which also says that
\* run() returns: the workers never wait for each other for ever.
ExecutesDag == Dag!Spec
=============================================================================
