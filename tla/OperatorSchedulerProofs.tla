---------------------- MODULE OperatorSchedulerProofs -----------------------
(* For any graph, any lanes and any number of workers: dependencies come      *)
(* first, lanes keep their limits, priorities are respected, and no step of   *)
(* the pool is one that the abstract execution of the graph does not take.    *)
EXTENDS OperatorScheduler, FiniteSetTheorems, TLAPS

\* Zenon by default, with time for a busy machine; a leaf that needs arithmetic cites SMTT.
USE ZenonT(60)

-----------------------------------------------------------------------------
(* Sequences *)

\* Each element of a sequence over S is one of S.
LEMMA SeqElement ==
    ASSUME NEW S, NEW s \in Seq(S), NEW i \in 1..Len(s)
    PROVE  s[i] \in S
BY SMTT(30)

\* A sequence is a function on 1..Len(s).
LEMMA SeqLen ==
    ASSUME NEW S, NEW s \in Seq(S)
    PROVE  Len(s) \in Nat /\ s \in [1..Len(s) -> S] /\ DOMAIN s = 1..Len(s)
BY SMTT(30)

\* Only the empty sequence has no element.
LEMMA SeqEmpty ==
    ASSUME NEW S
    PROVE  /\ <<>> \in Seq(S) /\ Len(<<>>) = 0
           /\ \A s \in Seq(S) : s # <<>> => Len(s) \in Nat \ {0}
BY SMTT(30)

\* Append adds one element at the end and moves none.
LEMMA SeqAppend ==
    ASSUME NEW S, NEW s \in Seq(S), NEW e \in S
    PROVE  /\ Append(s, e) \in Seq(S) /\ Append(s, e) # <<>> /\ Len(Append(s, e)) = Len(s) + 1
           /\ \A i \in 1..Len(s) : Append(s, e)[i] = s[i]
           /\ Append(s, e)[Len(s) + 1] = e
BY SMTT(30)

Codes == {"ok", "internal_error", "cancelled", "deadline_exceeded"}
Outcomes == [code : Codes, operator : Nodes \cup {None}]

TypeOK ==
    /\ main \in {"start", "notify", "join", "returned"}
    /\ worker \in [Workers -> {"unborn", "loop", "waiting", "exited", "selected", "running",
                               "complete", "notify"}]
    /\ node \in [Workers -> Nodes \cup {None}]
    /\ result \in [Workers -> Codes]
    /\ remaining \in [Nodes -> Int]
    /\ ready \in SUBSET Nodes
    /\ active \in [Lanes -> Int]
    /\ finished \in Nat
    /\ stop \in BOOLEAN
    /\ failure \in Outcomes /\ returned \in Outcomes
    /\ completed \in Seq(Nodes)
    /\ cancelled \in BOOLEAN /\ expired \in BOOLEAN

\* A worker has an operator between its selection and its completion.
Held == \A w \in Workers : node[w] # None <=> worker[w] \in {"selected", "running", "complete"}

Occupants(l) == {w \in Workers : node[w] # None /\ Device[node[w]] = l}

\* The lane counters are what their name says, and within the limits.
Counted ==
    \A l \in Lanes : active[l] = Cardinality(Occupants(l)) /\ active[l] <= Limits[l]

\* remaining counts the dependencies that have not completed.
Open == \A n \in Nodes : remaining[n] = Cardinality(Dependencies[n] \ Done)

\* What the verdict is drawn from: finished counts the completed operators; a stop has a
\* failure and there is no failure without one; the run returns it once all workers are
\* gone, and they leave when the run has stopped or all is done.
Concluded ==
    /\ finished = Cardinality(Done)
    /\ stop <=> failure.code # "ok"
    /\ \A w \in Workers : worker[w] = "exited" => Over
    /\ main # "returned" => returned.code = "ok"
    /\ main = "start" => ~ stop /\ Done = {} /\ \A w \in Workers : worker[w] = "unborn"
    /\ main = "returned" => \A w \in Workers : worker[w] \in {"unborn", "exited"}

SchedulerInv == TypeOK /\ Held /\ Counted /\ Open /\ DependenciesFirst /\ Concluded

-----------------------------------------------------------------------------
(* Types, and what the sets of the invariant are after a step *)

USE DEF control, pool, shared, options

LEMMA TypeInv == TypeOK /\ Held /\ [Next]_vars => TypeOK'
<1> SUFFICES ASSUME TypeOK, Held, [Next]_vars PROVE TypeOK'
  OBVIOUS
<1>1. Success \in Outcomes /\ InterruptCode \in Codes
  BY DEF Success, Outcomes, InterruptCode, Codes
<1>2. \A code \in Codes, n \in Nodes \cup {None} : Failure(code, n) \in Outcomes
  BY DEF Failure, Outcomes
<1>3. CASE ReturnEarly
  BY <1>1, <1>2, <1>3 DEF TypeOK, ReturnEarly
<1>4. CASE Spawn \/ MainNotify \/ Join
  BY <1>4 DEF TypeOK, Spawn, MainNotify, Join, Woken
<1>5. ASSUME NEW w \in Workers, Wait(w) \/ Exit(w) \/ Begin(w) \/ Notify(w) PROVE TypeOK'
  BY <1>5 DEF TypeOK, Wait, Exit, Begin, Notify, Woken
<1>6. ASSUME NEW w \in Workers, Skip(w) \/ End(w) PROVE TypeOK'
  BY <1>1, <1>6 DEF TypeOK, Skip, End, Codes
<1>7. ASSUME NEW w \in Workers, NEW n \in Nodes, Select(w, n) PROVE TypeOK'
  BY <1>7, OperatorAssumption, SMTT(30) DEF TypeOK, Select
<1>8. ASSUME NEW w \in Workers, Complete(w) PROVE TypeOK'
  <2>1. node[w] \in Nodes /\ Device[node[w]] \in Lanes
    BY <1>8, OperatorAssumption DEF TypeOK, Held, Complete
  <2>2. /\ active' \in [Lanes -> Int]
        /\ worker' \in [Workers -> {"unborn", "loop", "waiting", "exited", "selected",
                                    "running", "complete", "notify"}]
        /\ node' \in [Workers -> Nodes \cup {None}]
        /\ result' \in [Workers -> Codes]
    BY <1>8, <2>1, SMTT(30) DEF TypeOK, Complete, Codes
  <2>3. CASE CompleteFailure(w)
    BY <1>2, <1>8, <2>1, <2>2, <2>3 DEF TypeOK, Complete, CompleteFailure
  <2>4. CASE CompleteSuccess(w)
    <3>1. completed' \in Seq(Nodes)
      BY <2>1, <2>4, SeqAppend DEF TypeOK, CompleteSuccess
    <3>2. remaining' \in [Nodes -> Int] /\ ready' \in SUBSET Nodes /\ finished' \in Nat
      BY <2>1, <2>4, SMTT(30) DEF TypeOK, CompleteSuccess, Unblocked
    <3> QED BY <1>8, <2>2, <2>4, <3>1, <3>2 DEF TypeOK, Complete, CompleteSuccess
  <2>5. CASE CompleteIgnored(w)
    BY <1>8, <2>2, <2>5 DEF TypeOK, Complete, CompleteIgnored
  <2> QED BY <1>8, <2>3, <2>4, <2>5 DEF Complete
<1>9. CASE Interrupt
  BY <1>9 DEF TypeOK, Interrupt
<1>10. CASE UNCHANGED vars
  BY <1>10 DEF TypeOK, vars
<1> QED
  BY <1>3, <1>4, <1>5, <1>6, <1>7, <1>8, <1>9, <1>10 DEF Next, MainStep, WorkerStep

\* Steps that leave the queue, the counters and everybody's operator alone.
Aside == UNCHANGED <<node, remaining, ready, active, finished, stop, failure, completed>>

LEMMA StepsAside ==
    ASSUME TypeOK, Held, [Next]_vars
    PROVE  \/ Aside
           \/ \E w \in Workers, n \in Nodes : Select(w, n)
           \/ \E w \in Workers : Complete(w)
<1>1. ASSUME NEW w \in Workers, Wait(w) \/ Exit(w) \/ Skip(w) \/ Begin(w) \/ End(w) \/ Notify(w)
      PROVE  Aside
  BY <1>1 DEF Wait, Exit, Skip, Begin, End, Notify, Aside
<1>2. ASSUME MainStep \/ Interrupt \/ UNCHANGED vars PROVE Aside
  BY <1>2 DEF MainStep, ReturnEarly, Spawn, MainNotify, Join, Interrupt, vars, Aside
<1> QED BY <1>1, <1>2 DEF Next, WorkerStep

LEMMA HeldInv == TypeOK /\ Held /\ Concluded /\ [Next]_vars => Held'
<1> SUFFICES ASSUME TypeOK, Held, Concluded, [Next]_vars PROVE Held'
  OBVIOUS
<1>1. CASE MainStep
  BY <1>1 DEF TypeOK, Held, Concluded, MainStep, ReturnEarly, Spawn, MainNotify, Join,
     Woken
<1>2. ASSUME NEW w \in Workers, Wait(w) \/ Exit(w) \/ Skip(w) \/ Begin(w) \/ End(w) \/ Notify(w)
      PROVE  Held'
  BY <1>2 DEF TypeOK, Held, Wait, Exit, Skip, Begin, End, Notify, Woken
<1>3. ASSUME NEW w \in Workers, NEW n \in Nodes, Select(w, n) PROVE Held'
  BY <1>3, OperatorAssumption, SMTT(30) DEF TypeOK, Held, Select
<1>4. ASSUME NEW w \in Workers, Complete(w) PROVE Held'
  BY <1>4 DEF TypeOK, Held, Complete
<1>5. CASE Interrupt \/ UNCHANGED vars
  BY <1>5 DEF Held, Interrupt, vars
<1> QED BY <1>1, <1>2, <1>3, <1>4, <1>5 DEF Next, WorkerStep

\* A lane's occupants are among the workers, and so can be counted.
LEMMA OccupantsFinite ==
    ASSUME NEW l
    PROVE  IsFiniteSet(Occupants(l)) /\ Cardinality(Occupants(l)) \in Nat
BY OperatorAssumption, FS_Subset, FS_CardinalityType, Occupants(l) \in SUBSET Workers DEF Occupants

LEMMA CountedInv == SchedulerInv /\ [Next]_vars => Counted'
<1> SUFFICES ASSUME SchedulerInv, [Next]_vars, NEW l \in Lanes
             PROVE  active'[l] = Cardinality(Occupants(l)') /\ active'[l] <= Limits[l]
  BY DEF Counted
<1> USE OperatorAssumption
<1>1. /\ active[l] = Cardinality(Occupants(l)) /\ active[l] <= Limits[l]
      /\ IsFiniteSet(Occupants(l)) /\ Cardinality(Occupants(l)) \in Nat
  BY OccupantsFinite DEF SchedulerInv, Counted
<1>2. CASE Aside
  BY <1>1, <1>2 DEF Aside, Occupants
<1>3. ASSUME NEW w \in Workers, NEW n \in Nodes, Select(w, n)
      PROVE  active'[l] = Cardinality(Occupants(l)') /\ active'[l] <= Limits[l]
  <2>1. node[w] = None /\ node' = [node EXCEPT ![w] = n] /\ node \in [Workers -> Nodes \cup {None}]
    BY <1>3 DEF SchedulerInv, TypeOK, Held, Select
  <2>2. CASE Device[n] = l
    <3>1. Occupants(l)' = Occupants(l) \cup {w} /\ w \notin Occupants(l)
      BY <2>1, <2>2, SMTT(30) DEF Occupants
    <3>2. Cardinality(Occupants(l)') = Cardinality(Occupants(l)) + 1
      BY <1>1, <3>1, FS_AddElement
    <3>3. active'[l] = active[l] + 1 /\ active[l] < Limits[l]
      BY <1>3, <2>2 DEF SchedulerInv, TypeOK, Select, Selectable, HasRoom
    <3> QED BY <1>1, <3>2, <3>3, SMTT(30)
  <2>3. CASE Device[n] # l
    <3>1. Occupants(l)' = Occupants(l)
      BY <2>1, <2>3 DEF Occupants
    <3>2. active'[l] = active[l]
      BY <1>3, <2>3 DEF SchedulerInv, TypeOK, Select
    <3> QED BY <1>1, <3>1, <3>2
  <2> QED BY <2>2, <2>3
<1>4. ASSUME NEW w \in Workers, Complete(w)
      PROVE  active'[l] = Cardinality(Occupants(l)') /\ active'[l] <= Limits[l]
  <2>1. /\ node[w] \in Nodes /\ node' = [node EXCEPT ![w] = None]
        /\ node \in [Workers -> Nodes \cup {None}] /\ node[w] # None
    BY <1>4 DEF SchedulerInv, TypeOK, Held, Complete
  <2>2. CASE Device[node[w]] = l
    <3>1. Occupants(l)' = Occupants(l) \ {w} /\ w \in Occupants(l)
      BY <2>1, <2>2 DEF Occupants
    <3>2. Cardinality(Occupants(l)') = Cardinality(Occupants(l)) - 1
      <4>1. Cardinality(Occupants(l) \ {w}) = Cardinality(Occupants(l)) - 1
        BY <1>1, <3>1, FS_RemoveElement
      <4> QED BY <3>1, <4>1
    <3>3. active'[l] = active[l] - 1
      BY <1>4, <2>2 DEF SchedulerInv, TypeOK, Complete
    <3> QED BY <1>1, <3>2, <3>3, SMTT(30)
  <2>3. CASE Device[node[w]] # l
    <3>1. Occupants(l)' = Occupants(l)
      BY <2>1, <2>3 DEF Occupants
    <3>2. active'[l] = active[l]
      BY <1>4, <2>1, <2>3 DEF SchedulerInv, TypeOK, Complete
    <3> QED BY <1>1, <3>1, <3>2
  <2> QED BY <2>2, <2>3
<1> QED BY <1>2, <1>3, <1>4, StepsAside DEF SchedulerInv

-----------------------------------------------------------------------------
(* Dependencies *)

LEMMA DoneType == TypeOK => Done \in SUBSET Nodes /\ IsFiniteSet(Done)
<1> SUFFICES ASSUME TypeOK PROVE Done \in SUBSET Nodes /\ IsFiniteSet(Done)
  OBVIOUS
<1>1. Done \in SUBSET Nodes
  BY SeqElement DEF TypeOK, Done
<1> QED BY <1>1, OperatorAssumption, FS_Subset

\* A success adds its operator to the completed ones; nothing else adds any.
LEMMA DoneAfter ==
    ASSUME SchedulerInv, NEW w \in Workers, Complete(w)
    PROVE  /\ node[w] \in Nodes /\ node[w] \notin Done /\ node[w] \notin ready
           /\ node' = [node EXCEPT ![w] = None]
           /\ CompleteSuccess(w) => Done' = Done \cup {node[w]}
           /\ ~ CompleteSuccess(w) => UNCHANGED <<remaining, ready, finished, completed>>
<1>1. node[w] \in Nodes /\ node[w] \notin Done /\ node[w] \notin ready
  BY DEF SchedulerInv, TypeOK, Held, Complete, DependenciesFirst
<1>2. ASSUME CompleteSuccess(w) PROVE Done' = Done \cup {node[w]}
  <2>1. /\ completed' = Append(completed, node[w]) /\ completed \in Seq(Nodes)
    BY <1>2 DEF CompleteSuccess, SchedulerInv, TypeOK
  <2>2. /\ Len(completed') = Len(completed) + 1 /\ Len(completed) \in Nat
        /\ \A i \in 1..Len(completed) : completed'[i] = completed[i]
        /\ completed'[Len(completed) + 1] = node[w]
    BY <1>1, <2>1, SeqAppend, SeqLen, SMTT(30)
  <2>3. 1..Len(completed') = (1..Len(completed)) \cup {Len(completed) + 1}
    BY <2>2, SMTT(30)
  <2> HIDE DEF Done
  <2>4. Done' = {completed'[i] : i \in 1..Len(completed')}
    BY DEF Done
  <2> QED BY <2>2, <2>3, <2>4 DEF Done
<1> QED BY <1>1, <1>2 DEF Complete, CompleteFailure, CompleteIgnored

LEMMA OpenInv == SchedulerInv /\ [Next]_vars => Open'
<1> SUFFICES ASSUME SchedulerInv, [Next]_vars, NEW c \in Nodes
             PROVE  remaining'[c] = Cardinality(Dependencies[c] \ Done')
  BY DEF Open
<1>1. remaining[c] = Cardinality(Dependencies[c] \ Done)
  BY DEF SchedulerInv, Open
<1>2. CASE UNCHANGED <<remaining, completed>>
  BY <1>1, <1>2 DEF Done
<1>3. ASSUME NEW w \in Workers, Complete(w), CompleteSuccess(w)
      PROVE  remaining'[c] = Cardinality(Dependencies[c] \ Done')
  <2> DEFINE n == node[w]
             D == Dependencies[c] \ Done
  <2>1. n \notin Done /\ Done' = Done \cup {n}
    BY <1>3, DoneAfter
  <2>2. remaining'[c] = IF n \in Dependencies[c] THEN remaining[c] - 1 ELSE remaining[c]
    BY <1>3 DEF CompleteSuccess
  <2>3. Dependencies[c] \ Done' = D \ {n}
    BY <2>1
  <2>4. IsFiniteSet(D)
    BY OperatorAssumption, FS_Subset, D \in SUBSET Nodes
  <2>5. Cardinality(D \ {n}) = IF n \in D THEN Cardinality(D) - 1 ELSE Cardinality(D)
    <3> HIDE DEF D, n
    <3> QED BY <2>4, FS_RemoveElement
  <2>6. n \in D <=> n \in Dependencies[c]
    BY <2>1
  <2> QED BY <1>1, <2>2, <2>3, <2>5, <2>6
<1>4. ASSUME NEW w \in Workers, NEW n \in Nodes, Select(w, n) PROVE UNCHANGED <<remaining, completed>>
  BY <1>4 DEF Select
<1> QED BY <1>2, <1>3, <1>4, StepsAside, DoneAfter DEF SchedulerInv, Aside

\* A dispatched operator leaves the queue; a completed one joins Done, and releases those
\* of which it was the last open dependency, which nobody can have met before.
LEMMA FirstInv == SchedulerInv /\ [Next]_vars => DependenciesFirst'
<1> SUFFICES ASSUME SchedulerInv, [Next]_vars PROVE DependenciesFirst'
  OBVIOUS
<1> USE OperatorAssumption
<1>1. CASE Aside
  BY <1>1, SMTT(30) DEF SchedulerInv, DependenciesFirst, Aside, Done, Occupies
<1>2. ASSUME NEW w \in Workers, NEW n \in Nodes, Select(w, n) PROVE DependenciesFirst'
  <2>1. /\ node \in [Workers -> Nodes \cup {None}] /\ node' = [node EXCEPT ![w] = n]
        /\ n \in ready /\ ready' = ready \ {n} /\ Done' = Done
    BY <1>2, SMTT(30) DEF SchedulerInv, TypeOK, Select, Selectable, Done
  <2> QED BY <2>1, SMTT(30) DEF SchedulerInv, DependenciesFirst, Occupies
<1>3. ASSUME NEW w \in Workers, Complete(w), ~ CompleteSuccess(w) PROVE DependenciesFirst'
  <2>1. /\ node \in [Workers -> Nodes \cup {None}] /\ node' = [node EXCEPT ![w] = None]
        /\ ready' = ready /\ ready \in SUBSET Nodes /\ Done \in SUBSET Nodes
        /\ completed' = completed
    BY <1>3, DoneAfter, DoneType DEF SchedulerInv, TypeOK
  <2>2. Done' = Done
    BY <2>1, SMTT(30) DEF Done
  <2> QED BY <2>1, <2>2 DEF SchedulerInv, DependenciesFirst, Occupies
<1>4. ASSUME NEW w \in Workers, Complete(w), CompleteSuccess(w) PROVE DependenciesFirst'
  <2> DEFINE n == node[w]
  <2>1. /\ node \in [Workers -> Nodes \cup {None}] /\ node' = [node EXCEPT ![w] = None]
        /\ n \in Nodes /\ n \notin Done /\ n \notin ready /\ Done' = Done \cup {n}
        /\ ready \in SUBSET Nodes /\ Done \in SUBSET Nodes
    BY <1>4, DoneAfter, DoneType DEF SchedulerInv, TypeOK
  <2>2. Dependencies[n] \subseteq Done
    BY <2>1 DEF SchedulerInv, DependenciesFirst, Occupies
  <2>3. ready' = ready \cup Unblocked(n) /\ Unblocked(n) \in SUBSET Nodes
    BY <1>4 DEF CompleteSuccess, Unblocked
  <2>4. ASSUME NEW c \in Unblocked(n)
        PROVE  /\ Dependencies[c] \subseteq Done' /\ c \notin ready /\ c \notin Done /\ c # n
               /\ \A v \in Workers : node[v] # c
    <3>1. c \in Nodes /\ n \in Dependencies[c] /\ Cardinality(Dependencies[c] \ Done) = 1
      BY DEF Unblocked, SchedulerInv, Open
    <3>2. IsFiniteSet(Dependencies[c] \ Done)
      BY <3>1, FS_Subset, Dependencies[c] \ Done \in SUBSET Nodes
    <3>3. PICK x : Dependencies[c] \ Done = {x}
      BY <3>1, <3>2, FS_Singleton
    <3>4. Dependencies[c] \subseteq Done'
      BY <2>1, <3>1, <3>3
    <3>5. ~ (Dependencies[c] \subseteq Done)
      BY <2>1, <3>1
    <3> QED BY <2>2, <3>1, <3>4, <3>5 DEF SchedulerInv, DependenciesFirst, Occupies
  <2> HIDE DEF n
  <2>5. node[w] = n
    BY DEF n
  <2>6. \A m \in Nodes : (m \in ready' \cup Done' \/ \E v \in Workers : node'[v] = m) =>
           Dependencies[m] \subseteq Done'
    BY <2>1, <2>2, <2>3, <2>4, SMTT(30) DEF SchedulerInv, DependenciesFirst, Occupies
  <2>7. ready' \cap Done' = {}
    <3> SUFFICES ASSUME NEW c \in ready', c \in Done' PROVE FALSE
      OBVIOUS
    <3>1. CASE c \in ready
      BY <2>1, <3>1 DEF SchedulerInv, DependenciesFirst
    <3>2. CASE c \in Unblocked(n)
      BY <2>1, <2>4, <3>2
    <3> QED BY <2>3, <3>1, <3>2
  <2>8. \A v \in Workers : node'[v] \notin ready' \cup Done'
    <3> SUFFICES ASSUME NEW v \in Workers PROVE node'[v] \notin ready' \cup Done'
      OBVIOUS
    <3>1. CASE v = w
      BY <2>1, <2>3, <3>1
    <3>2. CASE v # w
      <4>1. node'[v] = node[v] /\ node[v] \notin ready \cup Done /\ node[v] # n
        BY <2>1, <2>5, <3>2 DEF SchedulerInv, DependenciesFirst
      <4>2. node[v] \notin Unblocked(n)
        BY <2>4
      <4> QED BY <2>1, <2>3, <4>1, <4>2
    <3> QED BY <3>1, <3>2
  <2>9. \A u, v \in Workers : node'[u] = node'[v] /\ node'[u] # None => u = v
    BY <2>1 DEF SchedulerInv, DependenciesFirst
  <2> QED BY <2>6, <2>7, <2>8, <2>9 DEF DependenciesFirst, Occupies
<1> QED BY <1>1, <1>2, <1>3, <1>4, StepsAside DEF SchedulerInv

-----------------------------------------------------------------------------
(* The end of a run *)

\* A worker that still has an operator is none of the completed ones: the run is not over
\* unless it has stopped.
LEMMA NotOver ==
    ASSUME SchedulerInv, NEW n \in Nodes, n \notin Done
    PROVE  finished # Cardinality(Nodes)
<1>1. Done \in SUBSET Nodes /\ Done # Nodes
  BY DoneType DEF SchedulerInv
<1>2. Cardinality(Done) # Cardinality(Nodes)
  BY <1>1, OperatorAssumption, FS_Subset
<1> QED BY <1>2 DEF SchedulerInv, Concluded

LEMMA ConcludedInv == SchedulerInv /\ [Next]_vars => Concluded'
<1> SUFFICES ASSUME SchedulerInv, [Next]_vars PROVE Concluded'
  OBVIOUS
<1>1. TypeOK /\ Concluded /\ Held
  BY DEF SchedulerInv
<1>2. ASSUME Aside PROVE Done' = Done /\ (Over' <=> Over) /\ UNCHANGED <<finished, stop, failure>>
  BY <1>2 DEF Aside, Done, Over
<1>3. CASE ReturnEarly
  BY <1>1, <1>2, <1>3 DEF Aside, Concluded, ReturnEarly, TypeOK
<1>4. CASE Spawn
  BY <1>1, <1>2, <1>4 DEF Aside, Concluded, Spawn, TypeOK
<1>5. CASE MainNotify
  BY <1>1, <1>2, <1>5 DEF Aside, Concluded, MainNotify, Woken, TypeOK
<1>6. CASE Join
  BY <1>1, <1>2, <1>6 DEF Aside, Concluded, Join, TypeOK
<1>7. ASSUME NEW w \in Workers, NEW pc \in {"waiting", "exited", "complete", "running", "selected"},
             Aside \/ \E n \in Nodes : Select(w, n),
             worker[w] \in {"loop", "selected", "running"}, pc = "exited" => Over,
             worker' = [worker EXCEPT ![w] = pc], UNCHANGED <<main, returned>>
      PROVE  Concluded'
  <2>1. Done' = Done /\ (Over' <=> Over) /\ UNCHANGED <<finished, stop, failure>>
    <3>1. CASE Aside
      BY <1>2, <3>1
    <3>2. CASE \E n \in Nodes : Select(w, n)
      BY <3>2, SMTT(30) DEF Select, Done, Over
    <3> QED BY <1>7, <3>1, <3>2
  <2>2. main \notin {"start", "returned"}
    BY <1>1, <1>7 DEF Concluded, TypeOK
  <2> QED BY <1>1, <1>7, <2>1, <2>2 DEF Concluded, TypeOK
<1>10. ASSUME NEW w \in Workers, Notify(w) PROVE Concluded'
  <2>1. main \notin {"start", "returned"} /\ UNCHANGED <<main, returned>> /\ Aside
    BY <1>1, <1>10 DEF Concluded, TypeOK, Notify, Aside
  <2>2. \A v \in Workers : worker'[v] = "exited" => worker[v] = "exited"
    BY <1>1, <1>10 DEF TypeOK, Notify, Woken
  <2> QED BY <1>1, <1>2, <2>1, <2>2, SMTT(30) DEF Concluded, TypeOK
<1>11. ASSUME NEW w \in Workers, WorkerStep(w), ~ Notify(w), ~ Complete(w) PROVE Concluded'
  <2>1. CASE Wait(w)
    BY <1>7, <2>1 DEF Wait, Aside
  <2>2. CASE Exit(w)
    BY <1>7, <2>2 DEF Exit, Aside
  <2>3. CASE Skip(w)
    BY <1>7, <2>3 DEF Skip, Aside
  <2>4. CASE Begin(w)
    BY <1>7, <2>4 DEF Begin, Aside
  <2>5. CASE End(w)
    BY <1>7, <2>5 DEF End, Aside
  <2>6. CASE \E n \in Nodes : Select(w, n)
    BY <1>7, <2>6 DEF Select
  <2> QED BY <1>11, <2>1, <2>2, <2>3, <2>4, <2>5, <2>6 DEF WorkerStep
<1>8. ASSUME NEW w \in Workers, Complete(w) PROVE Concluded'
  <2>1. /\ main \notin {"start", "returned"} /\ UNCHANGED <<main, returned>>
        /\ worker' = [worker EXCEPT ![w] = "notify"]
    BY <1>1, <1>8 DEF TypeOK, Concluded, Complete
  <2>2. node[w] \in Nodes /\ node[w] \notin Done
    BY <1>8, DoneAfter
  <2>3. CASE CompleteFailure(w)
    <3>1. stop' = TRUE /\ failure'.code # "ok" /\ Done' = Done /\ finished' = finished
      BY <2>3 DEF CompleteFailure, FirstFailure, Failure, Done
    <3> QED BY <1>1, <2>1, <3>1 DEF Concluded, Over, TypeOK
  <2>4. CASE CompleteSuccess(w)
    <3>1. /\ Done' = Done \cup {node[w]} /\ finished' = finished + 1 /\ ~ stop
          /\ UNCHANGED <<stop, failure>>
      BY <1>8, <2>4, DoneAfter DEF CompleteSuccess
    <3>2. Cardinality(Done \cup {node[w]}) = Cardinality(Done) + 1
      BY <1>1, <2>2, DoneType, FS_AddElement
    <3>3. finished # Cardinality(Nodes)
      BY <2>2, NotOver
    <3>4. \A v \in Workers : worker'[v] # "exited"
      BY <1>1, <2>1, <3>1, <3>3 DEF Concluded, Over, TypeOK
    <3> QED BY <1>1, <2>1, <3>1, <3>2, <3>4 DEF Concluded, TypeOK
  <2>5. CASE CompleteIgnored(w)
    BY <1>1, <2>1, <2>5 DEF Concluded, CompleteIgnored, Over, Done, TypeOK
  <2> QED BY <1>8, <2>3, <2>4, <2>5 DEF Complete
<1>9. CASE Interrupt \/ UNCHANGED vars
  BY <1>1, <1>2, <1>9, SMTT(30) DEF Aside, Concluded, Interrupt, vars
<1> QED
  BY <1>3, <1>4, <1>5, <1>6, <1>8, <1>9, <1>10, <1>11 DEF Next, MainStep

LEMMA InitScheduler == Init => SchedulerInv
<1> SUFFICES ASSUME Init PROVE SchedulerInv
  OBVIOUS
<1> USE OperatorAssumption
<1>1. Done = {}
  BY SMTT(30) DEF Init, Done
<1>2. \A n \in Nodes : IsFiniteSet(Dependencies[n]) /\ Cardinality(Dependencies[n]) \in Nat
  BY FS_Subset, FS_CardinalityType
<1>3. TypeOK
  <2>1. completed \in Seq(Nodes) /\ ready \in SUBSET Nodes /\ remaining \in [Nodes -> Int]
    BY <1>2, SeqEmpty, SMTT(30) DEF Init
  <2>2. Success \in Outcomes
    BY DEF Success, Outcomes, Codes
  <2>3. stop \in BOOLEAN /\ cancelled \in BOOLEAN /\ expired \in BOOLEAN
    BY DEF Init
  <2>4. /\ worker \in [Workers -> {"unborn"}] /\ node \in [Workers -> {None}]
        /\ result \in [Workers -> {"ok"}] /\ active \in [Lanes -> {0}]
        /\ main = "start" /\ finished = 0 /\ failure = Success /\ returned = Success
    BY DEF Init
  <2> QED BY <2>1, <2>2, <2>3, <2>4, SMTT(30) DEF TypeOK, Codes
<1>4. \A l \in Lanes : Occupants(l) = {}
  BY DEF Init, Occupants
<1>5. Counted
  <2>1. \A l \in Lanes : Cardinality(Occupants(l)) = 0 /\ active[l] = 0
    BY <1>4, FS_EmptySet DEF Init
  <2>2. \A l \in Lanes : Limits[l] \in Nat
    OBVIOUS
  <2> QED BY <2>1, <2>2, SMTT(30) DEF Counted
<1>6. Held /\ Open /\ DependenciesFirst
  BY <1>1 DEF Init, Held, Open, DependenciesFirst, Occupies
<1>7. Concluded
  BY <1>1, FS_EmptySet DEF Init, Concluded, Success
<1> QED BY <1>3, <1>5, <1>6, <1>7 DEF SchedulerInv

LEMMA NextScheduler == SchedulerInv /\ [Next]_vars => SchedulerInv'
BY TypeInv, HeldInv, CountedInv, OpenInv, FirstInv, ConcludedInv DEF SchedulerInv

LEMMA SchedulerInvariance == Spec => []SchedulerInv
BY InitScheduler, NextScheduler, PTL DEF Spec

-----------------------------------------------------------------------------

\* An operator is dispatched, runs or is reported complete only after everything it
\* depends on, and once (OperatorScheduler::run), in any valid graph and with any number
\* of workers.
THEOREM DependenciesComeFirst == Spec => []DependenciesFirst
<1>1. SchedulerInv => DependenciesFirst
  BY DEF SchedulerInv
<1> QED BY <1>1, SchedulerInvariance, PTL

\* No lane ever runs more operators than config_ gives it workers.
THEOREM LanesAreLimited == Spec => []LaneLimits
<1>1. SchedulerInv => LaneLimits
  BY DEF SchedulerInv, Counted, Occupants, LaneLimits
<1> QED BY <1>1, SchedulerInvariance, PTL

\* Whatever is dispatched, a ready operator that comes before it (Ready::operator<) waits
\* for a lane that is full.
THEOREM PrioritiesRespected == Spec => PriorityOrder
<1> DEFINE Respected ==
        \A w \in Workers : node[w] = None /\ node'[w] # None =>
            \A m \in ready' : Before(m, node'[w]) => active'[Device[m]] = Limits[Device[m]]
<1>1. ASSUME SchedulerInv, SchedulerInv', [Next]_vars PROVE Respected
  <2>1. CASE Aside
    BY <2>1 DEF Aside
  <2>2. ASSUME NEW v \in Workers, Complete(v) PROVE Respected
    BY <1>1, <2>2 DEF Complete, SchedulerInv, TypeOK
  <2>3. ASSUME NEW v \in Workers, NEW n \in Nodes, Select(v, n),
               NEW w \in Workers, node[w] = None, node'[w] # None,
               NEW m \in ready', Before(m, node'[w])
        PROVE  active'[Device[m]] = Limits[Device[m]]
    <3> USE OperatorAssumption
    <3>1. node'[w] = n /\ m \in ready /\ m # n /\ m \in Nodes
      BY <1>1, <2>3, SMTT(30) DEF Select, SchedulerInv, TypeOK
    <3>2. Priority[m] \in Int /\ Priority[n] \in Int /\ m \in Nat /\ n \in Nat
      BY <3>1
    <3>3. ~ Before(n, m)
      BY <2>3, <3>1, <3>2, SMTT(30) DEF Before
    <3>4. ~ HasRoom(m) /\ HasRoom(n)
      BY <2>3, <3>1, <3>3 DEF Select, Selectable
    <3>5. Device[m] \in Lanes /\ Device[n] \in Lanes /\ Device[m] # Device[n]
      BY <3>1, <3>4 DEF HasRoom
    <3>6. active'[Device[m]] = active[Device[m]] /\ active[Device[m]] \in Int
      <4>1. active \in [Lanes -> Int]
        BY <1>1 DEF SchedulerInv, TypeOK
      <4>2. active' = [active EXCEPT ![Device[n]] = @ + 1]
        BY <2>3 DEF Select
      <4> QED BY <3>5, <4>1, <4>2
    <3>7. active[Device[m]] <= Limits[Device[m]] /\ Limits[Device[m]] \in Nat
      BY <1>1, <3>5 DEF SchedulerInv, Counted
    <3> QED BY <3>4, <3>6, <3>7, SMTT(30) DEF HasRoom
  <2> QED BY <1>1, <2>1, <2>2, <2>3, StepsAside DEF SchedulerInv
<1>2. SchedulerInv /\ SchedulerInv' /\ [Next]_vars => [Respected]_vars
  BY <1>1
<1> QED BY <1>2, SchedulerInvariance, PTL DEF Spec, PriorityOrder

\* What the abstract execution of a graph allows, without its promise to end.
ExecutesDagSafely == Dag!Init /\ [][Dag!Next]_<<Done, Verdict>>

\* Every step of the pool completes one operator whose dependencies are complete, ends the
\* run as DagExecution says, or is invisible: success is returned only when all operators
\* have completed, and nothing completes after a failure (the return of run()).
THEOREM ImplementsDag == Spec => ExecutesDagSafely
<1>1. Init => Dag!Init
  BY SMTT(30) DEF Init, Dag!Init, Done, Verdict
<1>2. ASSUME SchedulerInv, [Next]_vars PROVE [Dag!Next]_<<Done, Verdict>>
  <2>1. TypeOK /\ Concluded /\ Held
    BY <1>2 DEF SchedulerInv
  <2>2. ASSUME UNCHANGED <<completed, stop, failure, returned>>,
               main' # "returned" <=> main # "returned"
        PROVE  UNCHANGED <<Done, Verdict>>
    <3>1. Done' = Done
      BY <2>2 DEF Done
    <3>2. Verdict' = Verdict
      BY <2>2 DEF Verdict
    <3> QED BY <3>1, <3>2
  <2>3. CASE ReturnEarly
    <3>1. Done' = Done /\ Done = {} /\ Verdict = "running" /\ failure.code = "ok" /\ failure' = failure
      BY <2>1, <2>3 DEF Concluded, ReturnEarly, Done, Verdict
    <3>2. CASE Interrupted
      <4>1. Verdict' = "failed"
        BY <2>3, <3>1, <3>2 DEF ReturnEarly, Verdict, Failure, InterruptCode
      <4> QED BY <3>1, <4>1 DEF Dag!Next, Dag!Fail
    <3>3. CASE ~ Interrupted
      <4>1. Verdict' = "ok" /\ Nodes = {}
        BY <2>1, <2>3, <3>1, <3>3 DEF ReturnEarly, Verdict, Success, Concluded
      <4>2. Dag!Succeed
        BY <3>1, <4>1 DEF Dag!Succeed
      <4> QED BY <4>2 DEF Dag!Next
    <3> QED BY <3>2, <3>3
  <2>4. CASE Spawn \/ MainNotify
    <3>1. /\ UNCHANGED <<completed, stop, failure, returned>>
          /\ main' # "returned" /\ main # "returned"
      BY <2>4 DEF Spawn, MainNotify
    <3> QED BY <2>2, <3>1
  <2>5. CASE Join
    <3>1. Over
      BY <2>1, <2>5, OperatorAssumption DEF Join, Concluded
    <3>2. Done' = Done /\ failure' = failure /\ main' = "returned" /\ returned' = failure
      BY <2>5 DEF Join, Done
    <3>3. CASE stop
      BY <2>1, <2>5, <3>2, <3>3 DEF Join, Verdict, Concluded
    <3>4. CASE ~ stop
      <4>1. Verdict = "running" /\ Verdict' = "ok"
        BY <2>1, <2>5, <3>2, <3>4 DEF Join, Verdict, Concluded
      <4>2. Done = Nodes
        BY <2>1, <3>1, <3>4, DoneType, OperatorAssumption, FS_Subset DEF Over, Concluded
      <4> QED BY <3>2, <4>1, <4>2 DEF Dag!Next, Dag!Succeed
    <3> QED BY <3>3, <3>4
  <2>6. ASSUME NEW w \in Workers, Complete(w) PROVE [Dag!Next]_<<Done, Verdict>>
    <3>1. /\ main # "returned" /\ main' = main /\ returned' = returned /\ returned.code = "ok"
          /\ node[w] \in Nodes /\ node[w] \notin Done
      BY <1>2, <2>1, <2>6, DoneAfter DEF Complete, TypeOK, Concluded
    <3>2. CASE CompleteFailure(w)
      <4>1. Verdict = "running" /\ Verdict' = "failed" /\ Done' = Done
        BY <3>1, <3>2 DEF CompleteFailure, FirstFailure, Failure, Verdict, Done
      <4> QED BY <4>1 DEF Dag!Next, Dag!Fail
    <3>3. CASE CompleteSuccess(w)
      <4>1. Verdict = "running" /\ Verdict' = "running" /\ Done' = Done \cup {node[w]}
        BY <1>2, <2>6, <3>1, <3>3, DoneAfter DEF CompleteSuccess, Verdict
      <4>2. DependenciesOf(node[w]) \subseteq Done
        BY <1>2, <3>1 DEF SchedulerInv, DependenciesFirst, Occupies, DependenciesOf
      <4>3. Dag!Complete(node[w])
        BY <3>1, <4>1, <4>2 DEF Dag!Complete
      <4> QED BY <3>1, <4>3 DEF Dag!Next
    <3>4. CASE CompleteIgnored(w)
      BY <2>2, <3>1, <3>4 DEF CompleteIgnored
    <3> QED BY <2>6, <3>2, <3>3, <3>4 DEF Complete
  <2>7. ASSUME NEW w \in Workers, WorkerStep(w), ~ Complete(w) PROVE UNCHANGED <<Done, Verdict>>
    <3>1. UNCHANGED <<completed, stop, failure, returned, main>>
      BY <2>7 DEF WorkerStep, Wait, Exit, Select, Skip, Begin, End, Notify
    <3> QED BY <2>2, <3>1
  <2>8. CASE Interrupt \/ UNCHANGED vars
    <3>1. UNCHANGED <<completed, stop, failure, returned, main>>
      BY <2>8 DEF Interrupt, vars
    <3> QED BY <2>2, <3>1
  <2> QED BY <1>2, <2>3, <2>4, <2>5, <2>6, <2>7, <2>8 DEF Next, MainStep
<1> QED BY <1>1, <1>2, SchedulerInvariance, PTL DEF Spec, ExecutesDagSafely
=============================================================================
