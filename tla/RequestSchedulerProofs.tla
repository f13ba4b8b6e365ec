----------------------- MODULE RequestSchedulerProofs -----------------------
(* For any number of requests and closers, with holders that cancel: that the *)
(* request scheduler of the Python service forgets nobody, serves nobody      *)
(* twice, executes nothing late, counts what it does and completes each       *)
(* future at most once.                                                       *)
EXTENDS InferenceScheduler, FiniteSetTheorems, TLAPS

\* Zenon by default, with time for a busy machine; a leaf that needs arithmetic cites SMTT.
USE ZenonT(60)

-----------------------------------------------------------------------------
(* Sequences *)

\* Each element of a sequence over S is one of S.
LEMMA SeqElement ==
    ASSUME NEW S, NEW s \in Seq(S), NEW i \in 1..Len(s)
    PROVE  s[i] \in S
BY SMTT(30)

\* A sequence is a function on 1..Len(s).
LEMMA SeqLen ==
    ASSUME NEW S, NEW s \in Seq(S)
    PROVE  Len(s) \in Nat /\ s \in [1..Len(s) -> S] /\ DOMAIN s = 1..Len(s)
BY SMTT(30)

\* Only the empty sequence has no element.
LEMMA SeqEmpty ==
    ASSUME NEW S
    PROVE  /\ <<>> \in Seq(S) /\ Len(<<>>) = 0
           /\ \A s \in Seq(S) : s # <<>> => Len(s) \in Nat \ {0}
BY SMTT(30)

\* Taking the head off a sequence that has one shifts the rest.
LEMMA SeqHeadTail ==
    ASSUME NEW S, NEW s \in Seq(S), s # <<>>
    PROVE  /\ Head(s) \in S /\ Tail(s) \in Seq(S) /\ Len(Tail(s)) = Len(s) - 1
           /\ \A i \in 1..Len(Tail(s)) : Tail(s)[i] = s[i + 1]
BY SMTT(30)

\* Append adds one element at the end and moves none.
LEMMA SeqAppend ==
    ASSUME NEW S, NEW s \in Seq(S), NEW e \in S
    PROVE  /\ Append(s, e) \in Seq(S) /\ Append(s, e) # <<>> /\ Len(Append(s, e)) = Len(s) + 1
           /\ \A i \in 1..Len(s) : Append(s, e)[i] = s[i]
           /\ Append(s, e)[Len(s) + 1] = e
BY SMTT(30)

-----------------------------------------------------------------------------
(* The scheduler on its own *)

SchedulerNext ==
    \/ \E r \in Requests : submit(r) \/ CountSubmitted(r) \/ Cancel(r) \/ Expire(r)
    \/ WorkerStep
    \/ \E c \in Closers : CloserStep(c)

SchedulerSpec == SchedulerInit /\ [][SchedulerNext]_schedulerVars

Stats == [Counters -> Nat]
Places == {"loop", "get", "gather", "filter", "expire", "count", "execute", "deliver", "fail",
           "exited", "dead"}

SchedulerTypeOK ==
    /\ queue \in Seq(Requests \cup {Sentinel})
    /\ batch \in Seq(Requests) /\ valid \in Seq(Requests) /\ index \in Nat \ {0}
    /\ stop \in BOOLEAN
    /\ stats \in Stats
    /\ outcome \in [Requests -> Outcomes \cup {"unsubmitted", "pending"}]
    /\ submitting \subseteq {r \in Requests : outcome[r] \notin {"unsubmitted", "overflow"}}
    /\ expired \subseteq Requests
    /\ worker \in Places

\* Where _worker is tells what its lists hold.
Sorted ==
    /\ worker \in {"loop", "get", "exited"} => batch = <<>> /\ valid = <<>> /\ index = 1
    /\ worker = "gather" => valid = <<>> /\ index = 1
    /\ worker \in {"filter", "count"} => index <= Len(batch) + 1
    /\ worker = "expire" => index <= Len(batch) /\ batch[index] \in expired
    /\ worker = "execute" => batch = <<>> /\ index = 1
    /\ worker \in {"deliver", "fail"} => batch = <<>> /\ index <= Len(valid) + 1

\* Only what is pending or was cancelled since is held.
HeldIsOpen ==
    worker # "dead" =>
        \A r \in InQueue \cup InBatch \cup InValid : outcome[r] \in {"pending", "cancelled"}

\* Lateness is final, and a timeout is reported only to the late.
LateIsExpired == late \subseteq expired
TimeoutIsTrue == \A r \in Requests : outcome[r] = "timeout" => r \in expired

Ended(os) == {r \in Requests : outcome[r] \in os}
Accepted == {"pending", "result", "error", "timeout", "cancelled"}

\* The counters follow the futures: in between they lag by what the worker has set.
StatsFollow ==
    worker # "dead" =>
        /\ stats["completed"] + (IF worker = "deliver" THEN index - 1 ELSE 0)
             = Cardinality(Ended({"result"}))
        /\ stats["failed"] + (IF worker = "fail" THEN index - 1 ELSE 0)
             = Cardinality(Ended({"error", "overflow"}))
        /\ stats["expired"] + (IF worker = "count" THEN 1 ELSE 0)
             = Cardinality(Ended({"timeout"}))
        /\ stats["submitted"] + Cardinality(submitting) = Cardinality(Ended(Accepted))

SchedulerInv ==
    /\ SchedulerTypeOK /\ Sorted /\ PendingIsHeld /\ HeldIsOpen
    /\ LateIsExpired /\ TimeoutIsTrue /\ LateNeverExecuted /\ StatsFollow

-----------------------------------------------------------------------------
(* Lists that hold each request once *)

LEMMA RestWithin ==
    ASSUME NEW S, NEW s \in Seq(S), NEW i \in Nat \ {0}
    PROVE  /\ Rest(s, i) \subseteq S /\ Rest(s, i) \subseteq Rest(s, 1)
           /\ i <= Len(s) => s[i] \in S /\ s[i] \in Rest(s, 1)
           /\ i > Len(s) => Rest(s, i) = {} /\ Once(s, i)
<1>1. Len(s) \in Nat /\ \A k \in 1..Len(s) : s[k] \in S  BY SeqLen, SeqElement
<1>2. QED  BY <1>1, SMTT(30) DEF Rest, Once

LEMMA RestStep ==
    ASSUME NEW S, NEW s \in Seq(S), NEW i \in Nat \ {0}, i <= Len(s)
    PROVE  /\ Rest(s, i) = {s[i]} \cup Rest(s, i + 1)
           /\ Once(s, i) => Once(s, i + 1) /\ (s[i] = Sentinel \/ s[i] \notin Rest(s, i + 1))
<1>1. Len(s) \in Nat  BY SeqLen
<1>2. i..Len(s) = {i} \cup ((i + 1)..Len(s)) /\ i \notin (i + 1)..Len(s)  BY <1>1, SMTT(30)
<1>3. QED  BY <1>2 DEF Rest, Once

LEMMA RestTail ==
    ASSUME NEW S, NEW s \in Seq(S), s # <<>>
    PROVE  /\ Head(s) \in S /\ Tail(s) \in Seq(S)
           /\ Rest(s, 1) = {Head(s)} \cup Rest(Tail(s), 1)
           /\ Once(s, 1) => /\ Once(Tail(s), 1)
                            /\ Head(s) = Sentinel \/ Head(s) \notin Rest(Tail(s), 1)
<1>1. /\ Len(s) \in Nat /\ Len(s) >= 1 /\ Head(s) = s[1] /\ Head(s) \in S /\ Tail(s) \in Seq(S)
      /\ Len(Tail(s)) = Len(s) - 1 /\ \A k \in 1..Len(Tail(s)) : Tail(s)[k] = s[k + 1]
  BY SeqLen, SeqEmpty, SeqHeadTail, SMTT(30)
<1>2. Rest(Tail(s), 1) = Rest(s, 2)
  <2>1. \A k \in 1..Len(Tail(s)) : k + 1 \in 2..Len(s)  BY <1>1, SMTT(30)
  <2>2. \A k \in 2..Len(s) : k - 1 \in 1..Len(Tail(s)) /\ s[k] = Tail(s)[k - 1]  BY <1>1, SMTT(30)
  <2>3. QED  BY <1>1, <2>1, <2>2, SMTT(30) DEF Rest
<1>3. Once(s, 2) => Once(Tail(s), 1)
  <2>1. SUFFICES ASSUME Once(s, 2), NEW k \in 1..Len(Tail(s)), NEW l \in 1..Len(Tail(s)),
                        Tail(s)[k] = Tail(s)[l]
                 PROVE  k = l \/ Tail(s)[k] = Sentinel
    BY DEF Once
  <2>2. k + 1 \in 2..Len(s) /\ l + 1 \in 2..Len(s) /\ s[k + 1] = s[l + 1]  BY <1>1, <2>1, SMTT(30)
  <2>3. k + 1 = l + 1 \/ s[k + 1] = Sentinel  BY <2>1, <2>2 DEF Once
  <2>4. QED  BY <1>1, <2>3, SMTT(30)
<1>4. Rest(s, 1) = {s[1]} \cup Rest(s, 2)
      /\ (Once(s, 1) => Once(s, 2) /\ (s[1] = Sentinel \/ s[1] \notin Rest(s, 2)))
  <2>1. 1 \in Nat \ {0} /\ 1 <= Len(s) /\ 1 + 1 = 2  BY <1>1, SMTT(30)
  <2>2. QED  BY <2>1, RestStep, SMTT(30)
<1>5. QED  BY <1>1, <1>2, <1>3, <1>4

LEMMA RestAppend ==
    ASSUME NEW S, NEW s \in Seq(S), NEW x \in S
    PROVE  /\ Append(s, x) \in Seq(S) /\ Rest(Append(s, x), 1) = Rest(s, 1) \cup {x}
           /\ Once(s, 1) /\ (x = Sentinel \/ x \notin Rest(s, 1)) => Once(Append(s, x), 1)
<1> DEFINE t == Append(s, x)
<1>1. /\ t \in Seq(S) /\ Len(s) \in Nat /\ Len(t) = Len(s) + 1 /\ t[Len(s) + 1] = x
      /\ \A k \in 1..Len(s) : t[k] = s[k]
  BY SeqAppend, SeqLen, SMTT(30)
<1>2. 1..Len(t) = 1..Len(s) \cup {Len(s) + 1}  BY <1>1, SMTT(30)
<1> HIDE DEF t
<1>3. Rest(t, 1) = Rest(s, 1) \cup {x}  BY <1>1, <1>2, SMTT(30) DEF Rest
<1>4. ASSUME Once(s, 1), x = Sentinel \/ x \notin Rest(s, 1) PROVE Once(t, 1)
  BY <1>1, <1>2, <1>4 DEF Rest, Once
<1>5. QED  BY <1>1, <1>3, <1>4 DEF t

LEMMA RestNone == Rest(<<>>, 1) = {} /\ Once(<<>>, 1)
BY SMTT(30) DEF Rest, Once

LEMMA RestOne ==
    ASSUME NEW S, NEW x \in S
    PROVE  <<x>> \in Seq(S) /\ Rest(<<x>>, 1) = {x} /\ Once(<<x>>, 1)
BY SMTT(30) DEF Rest, Once

-----------------------------------------------------------------------------
(* Futures and counters *)

LEMMA EndedFinite ==
    ASSUME NEW os
    PROVE  IsFiniteSet(Ended(os)) /\ Cardinality(Ended(os)) \in Nat
BY SchedulerAssumption, FS_Subset, FS_CardinalityType DEF Ended

\* What one outcome does to the requests that ended in a given way.
LEMMA OutcomeCounts ==
    ASSUME SchedulerTypeOK, NEW r \in Requests, NEW o, Becomes(r, o), NEW os
    PROVE  /\ outcome[r] \notin os /\ o \in os =>
                Cardinality(Ended(os)') = Cardinality(Ended(os)) + 1
           /\ (outcome[r] \in os <=> o \in os) => Ended(os)' = Ended(os)
<1>1. outcome'[r] = o /\ \A q \in Requests \ {r} : outcome'[q] = outcome[q]
  BY DEF SchedulerTypeOK, Becomes
<1>2. ASSUME outcome[r] \notin os, o \in os
      PROVE  Cardinality(Ended(os)') = Cardinality(Ended(os)) + 1
  <2>1. Ended(os)' = Ended(os) \cup {r} /\ r \notin Ended(os)  BY <1>1, <1>2, SMTT(30) DEF Ended
  <2>2. QED  BY <2>1, EndedFinite, FS_AddElement
<1>3. ASSUME outcome[r] \in os <=> o \in os PROVE Ended(os)' = Ended(os)
  BY <1>1, <1>3, SMTT(30) DEF Ended
<1>4. QED  BY <1>2, <1>3

LEMMA Added ==
    ASSUME stats \in Stats, NEW k \in Counters, NEW n \in Nat, Add(k, n)
    PROVE  /\ stats' \in Stats /\ stats'[k] = stats[k] + n
           /\ \A c \in Counters \ {k} : stats'[c] = stats[c]
BY SMTT(30) DEF Stats, Add, Counters

-----------------------------------------------------------------------------
(* One step of the scheduler *)

LEMMA HeldWithin ==
    ASSUME SchedulerTypeOK
    PROVE  InQueue \cup InBatch \cup InValid \subseteq Requests
BY SchedulerAssumption, RestWithin, SMTT(30) DEF SchedulerTypeOK, InQueue, InBatch, InValid, FirstUnset

\* Steps that leave the lists, the futures and the counters alone.
LEMMA QuietKeeps ==
    ASSUME SchedulerInv,
           UNCHANGED <<queue, stats, futures, submitting, lists, late>>, stop' \in BOOLEAN,
           \/ worker' = worker
           \/ worker = "loop" /\ worker' \in {"get", "exited"}
           \/ worker = "get" /\ worker' = "loop"
           \/ worker = "gather" /\ worker' = "filter"
           \/ worker = "execute" /\ worker' \in {"deliver", "fail"}
    PROVE  SchedulerInv'
<1> USE DEF SchedulerInv, futures, lists
<1>1. SchedulerTypeOK'  BY DEF SchedulerTypeOK, Places
<1>2. Sorted'
  <2>1. Len(batch) \in Nat /\ Len(valid) \in Nat  BY SeqLen DEF SchedulerTypeOK
  <2>2. QED  BY <2>1, SMTT(30) DEF Sorted, SchedulerTypeOK, Places
<1>3. FirstUnset' = FirstUnset
  BY DEF FirstUnset, Sorted
<1>4. InQueue' = InQueue /\ InBatch' = InBatch /\ InValid' = InValid /\ (worker' = "dead" => worker = "dead")
  BY <1>3 DEF InQueue, InBatch, InValid
<1>5. PendingIsHeld'  BY <1>3, <1>4 DEF PendingIsHeld
<1>6. HeldIsOpen'  BY <1>4 DEF HeldIsOpen
<1>7. LateIsExpired' /\ TimeoutIsTrue' /\ LateNeverExecuted'
  BY DEF LateIsExpired, TimeoutIsTrue, LateNeverExecuted
<1>8. StatsFollow'
  <2>1. \A os : Ended(os)' = Ended(os)  BY DEF Ended
  <2>2. QED  BY <1>4, <2>1, SMTT(30) DEF StatsFollow, Sorted, SchedulerTypeOK, Stats, Counters
<1>9. QED  BY <1>1, <1>2, <1>5, <1>6, <1>7, <1>8

\* submit(): refused by a full queue, or queued.
LEMMA SubmitKeeps ==
    ASSUME SchedulerInv, NEW r \in Requests, submit(r)
    PROVE  SchedulerInv'
<1> USE DEF SchedulerInv
<1>0. /\ outcome[r] = "unsubmitted" /\ r \notin submitting
      /\ UNCHANGED <<stop, expired, worker, batch, valid, index, closer, late>>
  BY DEF submit, lists, SchedulerTypeOK
<1>1. PICK o \in {"overflow", "pending"} : Becomes(r, o)
  BY DEF submit, SubmitFull, SubmitQueued
<1>2. outcome'[r] = o /\ \A q \in Requests \ {r} : outcome'[q] = outcome[q]
  BY <1>1 DEF SchedulerTypeOK, Becomes
<1>3. worker # "dead" => r \notin InQueue \cup InBatch \cup InValid
  BY <1>0 DEF HeldIsOpen
<1>4. FirstUnset' = FirstUnset /\ InBatch' = InBatch /\ InValid' = InValid /\ r # Sentinel
  BY <1>0, SchedulerAssumption DEF FirstUnset, InBatch, InValid
<1>5. \/ o = "overflow" /\ UNCHANGED <<queue, submitting>> /\ Add("failed", 1)
      \/ /\ o = "pending" /\ queue' = Append(queue, r) /\ submitting' = submitting \cup {r}
         /\ stats' = stats
  BY <1>1, <1>2 DEF submit, SubmitFull, SubmitQueued, Becomes, SchedulerTypeOK
<1>6. /\ queue' \in Seq(Requests \cup {Sentinel})
      /\ o = "pending" => /\ Rest(queue', 1) = Rest(queue, 1) \cup {r}
                          /\ Once(queue, 1) /\ r \notin Rest(queue, 1) => Once(queue', 1)
  <2>1. queue \in Seq(Requests \cup {Sentinel}) /\ r \in Requests \cup {Sentinel}
    BY DEF SchedulerTypeOK
  <2>2. /\ Append(queue, r) \in Seq(Requests \cup {Sentinel})
        /\ Rest(Append(queue, r), 1) = Rest(queue, 1) \cup {r}
        /\ Once(queue, 1) /\ r \notin Rest(queue, 1) => Once(Append(queue, r), 1)
    BY <2>1, RestAppend, SMTT(30)
  <2>3. QED  BY <1>5, <2>1, <2>2
<1>7. /\ outcome' \in [Requests -> Outcomes \cup {"unsubmitted", "pending"}]
  BY <1>1 DEF SchedulerTypeOK, Becomes, Outcomes
<1>8. stats' \in Stats
  BY <1>5, Added DEF SchedulerTypeOK, Counters
<1>9. SchedulerTypeOK'
  <2>1. submitting' \subseteq {q \in Requests : outcome'[q] \notin {"unsubmitted", "overflow"}}
    BY <1>0, <1>2, <1>5 DEF SchedulerTypeOK
  <2>2. QED  BY <1>0, <1>6, <1>7, <1>8, <2>1 DEF SchedulerTypeOK
<1>10. Sorted'  BY <1>0 DEF Sorted
<1>11. InQueue' = IF o = "pending" THEN InQueue \cup {r} ELSE InQueue
  BY <1>4, <1>5, <1>6 DEF InQueue
<1>12. PendingIsHeld'
  <2>1. worker' # "dead" => Once(queue', 1)
    BY <1>0, <1>3, <1>4, <1>5, <1>6 DEF PendingIsHeld, InQueue
  <2>2. QED  BY <1>0, <1>2, <1>3, <1>4, <1>11, <2>1 DEF PendingIsHeld
<1>13. HeldIsOpen'
  BY <1>0, <1>2, <1>3, <1>4, <1>11, HeldWithin DEF HeldIsOpen
<1>14. LateIsExpired' /\ TimeoutIsTrue'
  BY <1>0, <1>2 DEF LateIsExpired, TimeoutIsTrue
<1>15. LateNeverExecuted'
  BY <1>0, <1>2 DEF LateNeverExecuted, LateIsExpired, SchedulerTypeOK
<1>16. StatsFollow'
  <2>1. /\ Ended({"result"})' = Ended({"result"}) /\ Ended({"timeout"})' = Ended({"timeout"})
        /\ o = "pending" => Ended({"error", "overflow"})' = Ended({"error", "overflow"})
        /\ o = "overflow" => Cardinality(Ended({"error", "overflow"})')
                               = Cardinality(Ended({"error", "overflow"})) + 1
        /\ o = "overflow" => Ended(Accepted)' = Ended(Accepted)
        /\ o = "pending" => Cardinality(Ended(Accepted)') = Cardinality(Ended(Accepted)) + 1
    BY <1>0, <1>1, OutcomeCounts DEF Accepted
  <2>2. o = "pending" => Cardinality(submitting') = Cardinality(submitting) + 1
    BY <1>0, <1>5, SchedulerAssumption, FS_Subset, FS_AddElement DEF SchedulerTypeOK
  <2>3. Cardinality(submitting) \in Nat
    BY SchedulerAssumption, FS_Subset, FS_CardinalityType DEF SchedulerTypeOK
  <2>4. CASE o = "pending"
    <3>1. UNCHANGED <<stats, worker, index>>  BY <1>0, <1>5, <2>4
    <3>2. QED
      BY <2>1, <2>2, <2>3, <2>4, <3>1, EndedFinite, SMTT(30) DEF StatsFollow, SchedulerTypeOK, Stats, Counters
  <2>5. CASE o = "overflow"
    <3>1. UNCHANGED <<worker, index, submitting>> /\ Add("failed", 1)  BY <1>0, <1>5, <2>5
    <3>2. stats'["failed"] = stats["failed"] + 1 /\ \A c \in Counters \ {"failed"} : stats'[c] = stats[c]
      BY <3>1, Added DEF SchedulerTypeOK, Counters
    <3>4. stats'["completed"] = stats["completed"] /\ stats'["expired"] = stats["expired"]
          /\ stats'["submitted"] = stats["submitted"]
      BY <3>2 DEF Counters
    <3>5. stats["failed"] \in Nat /\ index \in Nat /\ Cardinality(Ended({"error", "overflow"})) \in Nat
      BY EndedFinite DEF SchedulerTypeOK, Stats, Counters
    <3>6. ASSUME worker # "dead"
          PROVE  stats'["failed"] + (IF worker = "fail" THEN index - 1 ELSE 0)
                   = Cardinality(Ended({"error", "overflow"}))'
      BY <2>1, <2>5, <3>2, <3>5, <3>6, SMTT(30) DEF StatsFollow
    <3>7. QED
      BY <2>1, <2>5, <3>1, <3>4, <3>6 DEF StatsFollow
  <2>6. QED  BY <2>4, <2>5
<1>17. QED  BY <1>9, <1>10, <1>12, <1>13, <1>14, <1>15, <1>16

\* What the submitter, the holder of a future, the clock and close() do.
LEMMA OutsideKeeps ==
    ASSUME SchedulerInv,
           \/ \E r \in Requests : CountSubmitted(r) \/ Cancel(r) \/ Expire(r)
           \/ \E c \in Closers : CloserStep(c)
    PROVE  SchedulerInv'
<1> USE DEF SchedulerInv
<1>1. ASSUME NEW r \in Requests, CountSubmitted(r) PROVE SchedulerInv'
  <2>1. /\ r \in submitting /\ submitting' = submitting \ {r} /\ Add("submitted", 1)
        /\ UNCHANGED <<queue, stop, outcome, expired, worker, batch, valid, index, late>>
    BY <1>1 DEF CountSubmitted, futures, lists
  <2>2. /\ stats' \in Stats /\ stats'["submitted"] = stats["submitted"] + 1
        /\ \A c \in Counters \ {"submitted"} : stats'[c] = stats[c]
    BY <2>1, Added DEF SchedulerTypeOK, Counters
  <2>3. SchedulerTypeOK' /\ Sorted'  BY <2>1, <2>2 DEF SchedulerTypeOK, Sorted
  <2>4. PendingIsHeld' /\ HeldIsOpen'
    BY <2>1 DEF PendingIsHeld, HeldIsOpen, FirstUnset, InQueue, InBatch, InValid
  <2>5. LateIsExpired' /\ TimeoutIsTrue' /\ LateNeverExecuted'
    BY <2>1 DEF LateIsExpired, TimeoutIsTrue, LateNeverExecuted
  <2>6. StatsFollow'
    <3>1. \A os : Ended(os)' = Ended(os)  BY <2>1 DEF Ended
    <3>2. /\ Cardinality(submitting') = Cardinality(submitting) - 1
          /\ Cardinality(submitting) \in Nat
      BY <2>1, SchedulerAssumption, FS_Subset, FS_RemoveElement, FS_CardinalityType DEF SchedulerTypeOK
    <3>3. \A c \in Counters : stats[c] \in Nat  BY DEF SchedulerTypeOK, Stats
    <3>4. QED  BY <2>1, <2>2, <3>1, <3>2, <3>3, SMTT(30) DEF StatsFollow, Counters
  <2>7. QED  BY <2>3, <2>4, <2>5, <2>6
<1>2. ASSUME NEW r \in Requests, Cancel(r) PROVE SchedulerInv'
  <2>1. /\ outcome[r] = "pending" /\ Becomes(r, "cancelled")
        /\ UNCHANGED <<queue, stop, stats, submitting, expired, worker, batch, valid, index, late>>
    BY <1>2 DEF Cancel, lists
  <2>2. outcome'[r] = "cancelled" /\ \A q \in Requests \ {r} : outcome'[q] = outcome[q]
    BY <2>1 DEF SchedulerTypeOK, Becomes
  <2>3. SchedulerTypeOK'
    <3>1. outcome' \in [Requests -> Outcomes \cup {"unsubmitted", "pending"}]
      BY <2>1 DEF SchedulerTypeOK, Becomes, Outcomes
    <3>2. QED  BY <2>1, <2>2, <3>1 DEF SchedulerTypeOK
  <2>4. Sorted'  BY <2>1 DEF Sorted
  <2>5. FirstUnset' = FirstUnset /\ InQueue' = InQueue /\ InBatch' = InBatch /\ InValid' = InValid
    BY <2>1 DEF FirstUnset, InQueue, InBatch, InValid
  <2>6. PendingIsHeld'  BY <2>1, <2>2, <2>5 DEF PendingIsHeld
  <2>7. HeldIsOpen'  BY <2>1, <2>2, <2>5, HeldWithin DEF HeldIsOpen
  <2>8. LateIsExpired' /\ TimeoutIsTrue' /\ LateNeverExecuted'
    BY <2>1, <2>2 DEF LateIsExpired, TimeoutIsTrue, LateNeverExecuted, SchedulerTypeOK
  <2>9. StatsFollow'
    <3>1. /\ Ended({"result"})' = Ended({"result"}) /\ Ended({"timeout"})' = Ended({"timeout"})
          /\ Ended({"error", "overflow"})' = Ended({"error", "overflow"})
          /\ Ended(Accepted)' = Ended(Accepted)
      BY <2>1, OutcomeCounts, SMTT(30) DEF Accepted
    <3>2. QED  BY <2>1, <3>1 DEF StatsFollow
  <2>10. QED  BY <2>3, <2>4, <2>6, <2>7, <2>8, <2>9
<1>3. ASSUME NEW r \in Requests, Expire(r) PROVE SchedulerInv'
  <2>1. /\ expired' = expired \cup {r}
        /\ UNCHANGED <<queue, stop, stats, outcome, submitting, worker, batch, valid, index, late>>
    BY <1>3 DEF Expire, lists
  <2>2. SchedulerTypeOK' /\ Sorted'  BY <2>1 DEF SchedulerTypeOK, Sorted
  <2>3. PendingIsHeld' /\ HeldIsOpen'
    BY <2>1 DEF PendingIsHeld, HeldIsOpen, FirstUnset, InQueue, InBatch, InValid
  <2>4. LateIsExpired' /\ TimeoutIsTrue' /\ LateNeverExecuted'
    BY <2>1 DEF LateIsExpired, TimeoutIsTrue, LateNeverExecuted
  <2>5. StatsFollow'
    <3>1. \A os : Ended(os)' = Ended(os)  BY <2>1 DEF Ended
    <3>2. QED  BY <2>1, <3>1 DEF StatsFollow
  <2>6. QED  BY <2>2, <2>3, <2>4, <2>5
<1>4. ASSUME NEW c \in Closers, CloseTest(c) \/ CloseSet(c) \/ CloseJoin(c) PROVE SchedulerInv'
  <2>1. /\ UNCHANGED <<queue, stats, futures, submitting, worker, lists, late>>
        /\ stop' \in BOOLEAN
    BY <1>4 DEF CloseTest, CloseSet, CloseJoin, SchedulerTypeOK
  <2>2. QED  BY <2>1, QuietKeeps
<1>5. ASSUME NEW c \in Closers, ClosePut(c) PROVE SchedulerInv'
  <2>1. /\ queue' = queue \/ queue' = Append(queue, Sentinel)
        /\ UNCHANGED <<stop, stats, outcome, expired, submitting, worker, batch, valid, index, late>>
    BY <1>5 DEF ClosePut, futures, lists
  <2>2. queue \in Seq(Requests \cup {Sentinel}) /\ Sentinel \in Requests \cup {Sentinel}
    BY DEF SchedulerTypeOK
  <2>3. /\ Append(queue, Sentinel) \in Seq(Requests \cup {Sentinel})
        /\ Rest(Append(queue, Sentinel), 1) = Rest(queue, 1) \cup {Sentinel}
        /\ Once(queue, 1) => Once(Append(queue, Sentinel), 1)
    BY <2>2, RestAppend, SMTT(30)
  <2>4. /\ queue' \in Seq(Requests \cup {Sentinel})
        /\ Rest(queue', 1) \ {Sentinel} = Rest(queue, 1) \ {Sentinel}
        /\ Once(queue, 1) => Once(queue', 1)
    BY <2>1, <2>2, <2>3
  <2>5. SchedulerTypeOK' /\ Sorted'  BY <2>1, <2>4 DEF SchedulerTypeOK, Sorted
  <2>6. FirstUnset' = FirstUnset /\ InQueue' = InQueue /\ InBatch' = InBatch /\ InValid' = InValid
    BY <2>1, <2>4 DEF FirstUnset, InQueue, InBatch, InValid
  <2>7. PendingIsHeld' /\ HeldIsOpen'  BY <2>1, <2>4, <2>6 DEF PendingIsHeld, HeldIsOpen
  <2>8. LateIsExpired' /\ TimeoutIsTrue' /\ LateNeverExecuted'
    BY <2>1 DEF LateIsExpired, TimeoutIsTrue, LateNeverExecuted
  <2>9. StatsFollow'
    <3>1. \A os : Ended(os)' = Ended(os)  BY <2>1 DEF Ended
    <3>2. QED  BY <2>1, <3>1 DEF StatsFollow
  <2>10. QED  BY <2>5, <2>7, <2>8, <2>9
<1>6. QED  BY <1>1, <1>2, <1>3, <1>4, <1>5 DEF CloserStep

\* Get and Gather: the head of the queue is a sentinel, or joins the batch.
LEMMA TakeKeeps ==
    ASSUME SchedulerInv, Get \/ Gather
    PROVE  SchedulerInv'
<1> DEFINE r == Head(queue)
<1> USE DEF SchedulerInv
<1>1. /\ worker \in {"get", "gather"} /\ queue # <<>> /\ queue' = Tail(queue)
      /\ late' = late \cup ({r} \cap expired)
      /\ UNCHANGED <<stats, outcome, expired, submitting, valid, index>>
      /\ stop' \in BOOLEAN
  BY DEF Get, Gather, futures, SchedulerTypeOK
<1>2. valid = <<>> /\ index = 1 /\ FirstUnset = 1 /\ (worker = "get" => batch = <<>>)
  BY <1>1 DEF Sorted, FirstUnset
<1>3. \/ r = Sentinel /\ batch' = batch /\ worker = "get" /\ worker' = "exited"
      \/ r = Sentinel /\ batch' = batch /\ worker = "gather" /\ worker' = "filter"
      \/ r # Sentinel /\ batch' = <<r>> /\ worker = "get" /\ worker' = "gather"
      \/ r # Sentinel /\ batch' = Append(batch, r) /\ worker = "gather" /\ worker' = "gather"
  BY <1>1 DEF Get, Gather, Gathered
<1>4. /\ r \in Requests \cup {Sentinel} /\ queue' \in Seq(Requests \cup {Sentinel})
      /\ Rest(queue, 1) = {r} \cup Rest(queue', 1)
      /\ Once(queue, 1) => Once(queue', 1) /\ (r = Sentinel \/ r \notin Rest(queue', 1))
  <2>1. queue \in Seq(Requests \cup {Sentinel})  BY DEF SchedulerTypeOK
  <2>2. QED  BY <1>1, <2>1, RestTail
<1>5. /\ Once(queue, 1) /\ Once(batch, 1) /\ InQueue \cap InBatch = {} /\ InBatch = Rest(batch, 1)
      /\ InValid = {} /\ InQueue = Rest(queue, 1) \ {Sentinel}
      /\ \A q \in InQueue \cup InBatch : outcome[q] \in {"pending", "cancelled"}
      /\ \A q \in Requests : outcome[q] = "pending" => q \in InQueue \cup InBatch
  BY <1>1, <1>2, RestNone DEF PendingIsHeld, HeldIsOpen, InBatch, InValid, InQueue
<1> HIDE DEF r
<1>6. /\ batch' \in Seq(Requests) /\ Once(batch', 1)
      /\ Rest(batch', 1) = IF r = Sentinel THEN Rest(batch, 1) ELSE Rest(batch, 1) \cup {r}
  <2>1. batch \in Seq(Requests)  BY DEF SchedulerTypeOK
  <2>2. CASE r = Sentinel  BY <1>3, <1>5, <2>1, <2>2
  <2>3. CASE r # Sentinel
    <3>1. r \in Requests /\ r \notin Rest(batch, 1)  BY <1>4, <1>5, <2>3
    <3>2. /\ Append(batch, r) \in Seq(Requests) /\ Rest(Append(batch, r), 1) = Rest(batch, 1) \cup {r}
          /\ Once(Append(batch, r), 1)
      BY <1>5, <2>1, <3>1, RestAppend, SMTT(30)
    <3>3. <<r>> \in Seq(Requests) /\ Rest(<<r>>, 1) = {r} /\ Once(<<r>>, 1)  BY <3>1, RestOne
    <3>4. worker = "get" => Rest(batch, 1) = {}  BY <1>2, RestNone
    <3>5. QED  BY <1>3, <2>3, <3>2, <3>3, <3>4
  <2>4. QED  BY <2>2, <2>3
<1>7. SchedulerTypeOK'
  BY <1>1, <1>3, <1>4, <1>6 DEF SchedulerTypeOK, Places
<1>8. Sorted'
  <2>1. Len(batch') \in Nat  BY <1>6, SeqLen
  <2>2. QED  BY <1>1, <1>2, <1>3, <2>1, SMTT(30) DEF Sorted
<1>9. /\ InQueue' = Rest(queue', 1) \ {Sentinel} /\ InBatch' = Rest(batch', 1) /\ InValid' = {}
      /\ FirstUnset' = 1 /\ Once(valid', 1)
  BY <1>1, <1>2, <1>3, RestNone DEF FirstUnset, InQueue, InBatch, InValid
<1>10. /\ InQueue' \cup InBatch' = InQueue \cup InBatch /\ InQueue' \cap InBatch' = {}
  BY <1>4, <1>5, <1>6, <1>9, SchedulerAssumption
<1>11. PendingIsHeld'
  BY <1>1, <1>2, <1>4, <1>5, <1>6, <1>9, <1>10 DEF PendingIsHeld
<1>12. HeldIsOpen'
  BY <1>1, <1>5, <1>9, <1>10 DEF HeldIsOpen
<1>13. LateIsExpired' /\ TimeoutIsTrue'
  BY <1>1 DEF LateIsExpired, TimeoutIsTrue, r
<1>14. LateNeverExecuted'
  <2>1. r \in expired => outcome[r] # "result"
    BY <1>4, <1>5, SchedulerAssumption DEF SchedulerTypeOK
  <2>2. QED  BY <1>1, <1>2, <2>1, RestNone DEF LateNeverExecuted, r
<1>15. StatsFollow'
  <2>1. \A os : Ended(os)' = Ended(os)  BY <1>1 DEF Ended
  <2>2. worker' \notin {"dead", "deliver", "fail", "count"}  BY <1>3
  <2>3. QED  BY <1>1, <2>1, <2>2 DEF StatsFollow
<1>16. QED  BY <1>7, <1>8, <1>11, <1>12, <1>13, <1>14, <1>15

\* The loop over the batch drops what is cancelled and keeps what is in time.
LEMMA FilterKeeps ==
    ASSUME SchedulerInv, FilterOne
    PROVE  SchedulerInv'
<1> DEFINE r == batch[index]
<1> USE DEF SchedulerInv
<1>1. /\ worker = "filter" /\ index <= Len(batch)
      /\ UNCHANGED <<queue, stop, stats, outcome, expired, submitting, batch, late>>
  BY DEF FilterOne, futures
<1>2. \/ outcome[r] = "cancelled" /\ index' = index + 1 /\ UNCHANGED <<worker, valid>>
      \/ outcome[r] # "cancelled" /\ r \in expired /\ worker' = "expire" /\ UNCHANGED <<index, valid>>
      \/ /\ outcome[r] # "cancelled" /\ r \notin expired
         /\ index' = index + 1 /\ valid' = Append(valid, r) /\ UNCHANGED worker
  BY DEF FilterOne, HasExpired
<1>3. batch \in Seq(Requests) /\ valid \in Seq(Requests) /\ index \in Nat \ {0} /\ Len(batch) \in Nat
  BY SeqLen DEF SchedulerTypeOK
<1>4. /\ r \in Requests /\ Rest(batch, index) = {r} \cup Rest(batch, index + 1)
      /\ Once(batch, index) => Once(batch, index + 1) /\ r \notin Rest(batch, index + 1)
  BY <1>1, <1>3, RestStep, RestWithin, SchedulerAssumption
<1>5. /\ Append(valid, r) \in Seq(Requests) /\ Rest(Append(valid, r), 1) = Rest(valid, 1) \cup {r}
      /\ Once(valid, 1) /\ r \notin Rest(valid, 1) => Once(Append(valid, r), 1)
  BY <1>3, <1>4, RestAppend, SMTT(30)
<1> HIDE DEF r
<1>6. SchedulerTypeOK'
  <2>1. valid' \in Seq(Requests)  BY <1>2, <1>3, <1>5
  <2>2. index' \in Nat \ {0} /\ worker' \in Places  BY <1>1, <1>2, <1>3, SMTT(30) DEF Places
  <2>3. QED  BY <1>1, <2>1, <2>2 DEF SchedulerTypeOK
<1>7. Sorted'
  BY <1>1, <1>2, <1>3, SMTT(30) DEF Sorted, r
<1>8. /\ FirstUnset = 1 /\ FirstUnset' = 1 /\ InQueue' = InQueue /\ InBatch = Rest(batch, index)
      /\ InBatch' = Rest(batch, index') /\ InValid = Rest(valid, 1) /\ InValid' = Rest(valid', 1)
  BY <1>1, <1>2 DEF FirstUnset, InQueue, InBatch, InValid
<1>9. /\ Once(queue, 1) /\ Once(batch, index) /\ Once(valid, 1)
      /\ InQueue \cap InBatch = {} /\ InQueue \cap InValid = {} /\ InBatch \cap InValid = {}
      /\ \A q \in Requests : outcome[q] = "pending" => q \in InQueue \cup InBatch \cup InValid
      /\ \A q \in InQueue \cup InBatch \cup InValid : outcome[q] \in {"pending", "cancelled"}
  BY <1>1, <1>8 DEF PendingIsHeld, HeldIsOpen
<1>10. PendingIsHeld' /\ HeldIsOpen'
  <2>1. CASE index' = index /\ valid' = valid
    BY <1>1, <1>2, <1>8, <1>9, <2>1 DEF PendingIsHeld, HeldIsOpen
  <2>2. CASE outcome[r] = "cancelled" /\ index' = index + 1 /\ UNCHANGED <<worker, valid>>
    BY <1>1, <1>4, <1>8, <1>9, <2>2 DEF PendingIsHeld, HeldIsOpen
  <2>3. CASE index' = index + 1 /\ valid' = Append(valid, r) /\ UNCHANGED worker
    <3>1. /\ InValid' = InValid \cup {r} /\ Once(valid', 1) /\ InBatch = InBatch' \cup {r}
          /\ r \notin InBatch' /\ r \in InBatch /\ Once(batch', index')
      BY <1>1, <1>4, <1>5, <1>8, <1>9, <2>3
    <3>2. QED  BY <1>1, <1>8, <1>9, <2>3, <3>1, SMTT(30) DEF PendingIsHeld, HeldIsOpen
  <2>4. QED  BY <1>2, <2>1, <2>2, <2>3
<1>11. LateIsExpired' /\ TimeoutIsTrue'
  BY <1>1 DEF LateIsExpired, TimeoutIsTrue
<1>12. LateNeverExecuted'
  BY <1>1, <1>2, <1>5 DEF LateNeverExecuted, LateIsExpired
<1>13. StatsFollow'
  <2>1. \A os : Ended(os)' = Ended(os)  BY <1>1 DEF Ended
  <2>2. worker' \notin {"dead", "deliver", "fail", "count"}  BY <1>1, <1>2
  <2>3. QED  BY <1>1, <2>1, <2>2 DEF StatsFollow
<1>14. QED  BY <1>6, <1>7, <1>10, <1>11, <1>12, <1>13

\* FilterEnds and SetEnds: the worker has gone through its list.
LEMMA ListEnds ==
    ASSUME SchedulerInv,
           FilterEnds \/ SetEnds("deliver", "completed") \/ SetEnds("fail", "failed")
    PROVE  SchedulerInv'
<1> USE DEF SchedulerInv
<1>0. /\ Len(batch) \in Nat /\ Len(valid) \in Nat /\ <<>> \in Seq(Requests)
      /\ batch \in Seq(Requests) /\ valid \in Seq(Requests) /\ index \in Nat \ {0}
  BY SeqLen, SeqEmpty DEF SchedulerTypeOK
<1>1. /\ UNCHANGED <<queue, stop, outcome, expired, submitting, late>>
      /\ batch' = <<>> /\ index' = 1
      /\ \/ /\ worker = "filter" /\ index > Len(batch) /\ UNCHANGED <<stats, valid>>
            /\ worker' = IF valid = <<>> THEN "loop" ELSE "execute"
         \/ /\ worker \in {"deliver", "fail"} /\ index = Len(valid) + 1 /\ valid' = <<>>
            /\ Add(IF worker = "deliver" THEN "completed" ELSE "failed", Len(valid))
            /\ worker' = "loop"
  BY <1>0, SMTT(30) DEF FilterEnds, SetEnds, Counted, Sorted, futures
<1>2. SchedulerTypeOK'
  <2>1. valid' \in Seq(Requests) /\ batch' \in Seq(Requests) /\ worker' \in Places
    BY <1>0, <1>1 DEF Places
  <2>2. stats' \in Stats
    BY <1>0, <1>1, Added DEF SchedulerTypeOK, Counters
  <2>3. QED  BY <1>1, <2>1, <2>2, SMTT(30) DEF SchedulerTypeOK
<1>3. Sorted'  BY <1>1 DEF Sorted
<1>4. /\ InBatch = {} /\ InBatch' = {} /\ InValid' = InValid /\ InQueue' = InQueue
      /\ Once(valid', FirstUnset') /\ Once(batch', index')
  <2>1. CASE worker = "filter"
    <3>1. /\ FirstUnset = 1 /\ FirstUnset' = 1 /\ valid' = valid /\ batch' = <<>> /\ index' = 1
      BY <1>1, <2>1 DEF FirstUnset
    <3>2. Rest(batch, index) = {}  BY <1>0, <1>1, <2>1, RestWithin
    <3>3. Once(valid, 1)  BY <2>1, <3>1 DEF PendingIsHeld
    <3>4. QED  BY <1>1, <3>1, <3>2, <3>3, RestNone DEF InBatch, InValid, InQueue
  <2>2. CASE worker \in {"deliver", "fail"}
    <3>1. /\ FirstUnset = index /\ FirstUnset' = 1 /\ valid' = <<>> /\ batch' = <<>> /\ index' = 1
          /\ batch = <<>>
      BY <1>1, <2>2 DEF FirstUnset, Sorted
    <3>2. Rest(valid, index) = {} /\ Rest(batch, index) = {}
      BY <1>0, <1>1, <2>2, <3>1, RestWithin, SMTT(30) DEF Rest
    <3>3. QED  BY <1>1, <3>1, <3>2, RestNone DEF InBatch, InValid, InQueue
  <2>3. QED  BY <1>1, <2>1, <2>2
<1>5. PendingIsHeld' /\ HeldIsOpen'
  BY <1>1, <1>4 DEF PendingIsHeld, HeldIsOpen
<1>6. LateIsExpired' /\ TimeoutIsTrue' /\ LateNeverExecuted'
  BY <1>1, RestNone DEF LateIsExpired, TimeoutIsTrue, LateNeverExecuted
<1>7. StatsFollow'
  <2>1. \A os : Ended(os)' = Ended(os)  BY <1>1 DEF Ended
  <2>2. worker' \notin {"dead", "deliver", "fail", "count"}  BY <1>1
  <2>3. \A c \in Counters : stats[c] \in Nat  BY DEF SchedulerTypeOK, Stats
  <2>4. CASE worker = "filter"  BY <1>1, <2>1, <2>2, <2>3, <2>4 DEF StatsFollow, Counters
  <2>5. CASE worker \in {"deliver", "fail"}
    <3> DEFINE k == IF worker = "deliver" THEN "completed" ELSE "failed"
    <3>1. k \in Counters /\ Add(k, Len(valid))  BY <1>1, <2>5 DEF Counters
    <3>2. stats'[k] = stats[k] + Len(valid) /\ \A c \in Counters \ {k} : stats'[c] = stats[c]
      BY <1>0, <3>1, Added DEF SchedulerTypeOK
    <3>3. index - 1 = Len(valid) /\ submitting' = submitting  BY <1>0, <1>1, <2>5, SMTT(30)
    <3>4. CASE worker = "deliver"
      <4>1. /\ stats'["completed"] = stats["completed"] + Len(valid)
            /\ stats'["failed"] = stats["failed"] /\ stats'["expired"] = stats["expired"]
            /\ stats'["submitted"] = stats["submitted"]
        BY <3>2, <3>4 DEF Counters
      <4>2. QED  BY <2>1, <2>2, <2>3, <3>3, <3>4, <4>1, SMTT(30) DEF StatsFollow, Counters
    <3>5. CASE worker = "fail"
      <4>1. /\ stats'["completed"] = stats["completed"]
            /\ stats'["failed"] = stats["failed"] + Len(valid) /\ stats'["expired"] = stats["expired"]
            /\ stats'["submitted"] = stats["submitted"]
        BY <3>2, <3>5 DEF Counters
      <4>2. QED  BY <2>1, <2>2, <2>3, <3>3, <3>5, <4>1, SMTT(30) DEF StatsFollow, Counters
    <3>6. QED  BY <2>5, <3>4, <3>5
  <2>6. QED  BY <1>1, <2>4, <2>5
<1>8. QED  BY <1>2, <1>3, <1>5, <1>6, <1>7

LEMMA CountExpiredKeeps ==
    ASSUME SchedulerInv, CountExpired
    PROVE  SchedulerInv'
<1> USE DEF SchedulerInv
<1>1. /\ worker = "count" /\ worker' = "filter" /\ Add("expired", 1)
      /\ UNCHANGED <<queue, stop, outcome, expired, submitting, batch, valid, index, late>>
  BY DEF CountExpired, futures, lists
<1>2. /\ stats' \in Stats /\ stats'["expired"] = stats["expired"] + 1
      /\ \A c \in Counters \ {"expired"} : stats'[c] = stats[c]
  BY <1>1, Added DEF SchedulerTypeOK, Counters
<1>3. SchedulerTypeOK'  BY <1>1, <1>2 DEF SchedulerTypeOK, Places
<1>4. Sorted'  BY <1>1 DEF Sorted
<1>5. FirstUnset' = FirstUnset /\ InQueue' = InQueue /\ InBatch' = InBatch /\ InValid' = InValid
  BY <1>1 DEF FirstUnset, InQueue, InBatch, InValid
<1>6. PendingIsHeld' /\ HeldIsOpen'  BY <1>1, <1>5 DEF PendingIsHeld, HeldIsOpen
<1>7. LateIsExpired' /\ TimeoutIsTrue' /\ LateNeverExecuted'
  BY <1>1 DEF LateIsExpired, TimeoutIsTrue, LateNeverExecuted
<1>8. StatsFollow'
  <2>1. \A os : Ended(os)' = Ended(os)  BY <1>1 DEF Ended
  <2>2. \A c \in Counters : stats[c] \in Nat  BY DEF SchedulerTypeOK, Stats
  <2>3. QED  BY <1>1, <1>2, <2>1, <2>2, SMTT(30) DEF StatsFollow, Counters
<1>9. QED  BY <1>3, <1>4, <1>6, <1>7, <1>8

\* The future the worker is about to set is a request in one of its lists.
Target == IF worker = "expire" THEN batch[index] ELSE valid[index]

\* What set_result or set_exception does to a future that was not cancelled.
SetStep(o, next) ==
    /\ \/ worker = "expire" /\ o = "timeout" /\ next = "count"
       \/ worker = "deliver" /\ o = "result" /\ next = "deliver" /\ index <= Len(valid)
       \/ worker = "fail" /\ o = "error" /\ next = "fail" /\ index <= Len(valid)
    /\ outcome[Target] # "cancelled" /\ Becomes(Target, o) /\ worker' = next /\ index' = index + 1
    /\ UNCHANGED <<queue, stop, stats, expired, submitting, batch, valid, late>>

LEMMA TargetIsOpen ==
    ASSUME SchedulerInv, NEW o, NEW next, SetStep(o, next)
    PROVE  /\ Target \in Requests /\ outcome[Target] = "pending"
           /\ worker = "expire" => index <= Len(batch) /\ Target \in expired
           /\ worker # "expire" => Target \in Rest(valid, 1)
           /\ InQueue' = InQueue /\ FirstUnset' = IF worker = "expire" THEN 1 ELSE index + 1
           /\ InBatch \cup InValid = {Target} \cup InBatch' \cup InValid'
           /\ Target \notin InQueue \cup InBatch' \cup InValid'
           /\ InBatch' \cap InValid' = {} /\ InQueue \cap InBatch' = {} /\ InQueue \cap InValid' = {}
           /\ Once(batch', index') /\ Once(valid', FirstUnset')
<1> USE DEF SchedulerInv
<1>0. /\ worker \in {"expire", "deliver", "fail"} /\ index' = index + 1
      /\ UNCHANGED <<queue, batch, valid>> /\ outcome[Target] # "cancelled"
      /\ worker' = (IF worker = "expire" THEN "count" ELSE worker)
      /\ worker # "expire" => index <= Len(valid)
  BY DEF SetStep
<1>1. /\ batch \in Seq(Requests) /\ valid \in Seq(Requests) /\ index \in Nat \ {0}
      /\ Len(batch) \in Nat /\ Len(valid) \in Nat
  BY SeqLen DEF SchedulerTypeOK
<1>2. /\ Once(batch, index) /\ Once(valid, FirstUnset)
      /\ InQueue \cap InBatch = {} /\ InQueue \cap InValid = {} /\ InBatch \cap InValid = {}
      /\ \A q \in InQueue \cup InBatch \cup InValid : outcome[q] \in {"pending", "cancelled"}
      /\ InBatch = Rest(batch, index) /\ InValid = Rest(valid, FirstUnset)
  BY <1>0 DEF PendingIsHeld, HeldIsOpen, InBatch, InValid
<1>3. InQueue' = InQueue /\ InBatch' = Rest(batch, index + 1) /\ InValid' = Rest(valid, FirstUnset')
  BY <1>0 DEF InQueue, InBatch, InValid
<1>4. CASE worker = "expire"
  <2>1. index <= Len(batch) /\ Target = batch[index] /\ Target \in expired
    BY <1>4 DEF Sorted, Target
  <2>2. /\ Target \in Requests /\ Rest(batch, index) = {Target} \cup Rest(batch, index + 1)
        /\ Once(batch, index + 1) /\ Target \notin Rest(batch, index + 1)
    BY <1>1, <1>2, <2>1, RestStep, RestWithin, SchedulerAssumption, SMTT(30)
  <2>3. FirstUnset = 1 /\ FirstUnset' = 1  BY <1>0, <1>4 DEF FirstUnset
  <2>4. QED  BY <1>0, <1>2, <1>3, <1>4, <2>1, <2>2, <2>3
<1>5. CASE worker \in {"deliver", "fail"}
  <2>1. index <= Len(valid) /\ Target = valid[index] /\ batch = <<>>
    BY <1>0, <1>5 DEF Sorted, Target
  <2>2. /\ Target \in Requests /\ Rest(valid, index) = {Target} \cup Rest(valid, index + 1)
        /\ Once(valid, index + 1) /\ Target \notin Rest(valid, index + 1)
        /\ Target \in Rest(valid, 1)
    <3>1. FirstUnset = index  BY <1>5 DEF FirstUnset
    <3>2. QED  BY <1>1, <1>2, <2>1, <3>1, RestStep, RestWithin, SchedulerAssumption, SMTT(30)
  <2>3. FirstUnset = index /\ FirstUnset' = index + 1  BY <1>0, <1>5 DEF FirstUnset
  <2>4. Rest(batch, index) = {} /\ Rest(batch, index + 1) = {} /\ Once(batch, index + 1)
    <3>1. Len(batch) = 0  BY <2>1
    <3>2. index > Len(batch) /\ index + 1 > Len(batch) /\ index + 1 \in Nat \ {0}  BY <1>1, <3>1, SMTT(30)
    <3>3. QED  BY <1>1, <3>2, RestWithin
  <2>5. QED  BY <1>0, <1>2, <1>3, <1>5, <2>1, <2>2, <2>3, <2>4
<1>6. QED  BY <1>0, <1>4, <1>5

LEMMA SetKeeps ==
    ASSUME SchedulerInv, NEW o, NEW next, SetStep(o, next)
    PROVE  SchedulerInv'
<1> DEFINE r == Target
<1> USE DEF SchedulerInv
<1>1. /\ o \in {"timeout", "result", "error"} /\ Becomes(r, o) /\ index' = index + 1 /\ worker' = next
      /\ UNCHANGED <<queue, stop, stats, expired, submitting, batch, valid, late>>
      /\ \/ worker = "expire" /\ o = "timeout" /\ next = "count"
         \/ worker = "deliver" /\ o = "result" /\ next = "deliver" /\ index <= Len(valid)
         \/ worker = "fail" /\ o = "error" /\ next = "fail" /\ index <= Len(valid)
  BY DEF SetStep
<1>2. /\ r \in Requests /\ outcome[r] = "pending"
      /\ worker = "expire" => index <= Len(batch) /\ r \in expired
      /\ worker # "expire" => r \in Rest(valid, 1)
      /\ InQueue' = InQueue /\ InBatch \cup InValid = {r} \cup InBatch' \cup InValid'
      /\ r \notin InQueue \cup InBatch' \cup InValid'
      /\ InBatch' \cap InValid' = {} /\ InQueue \cap InBatch' = {} /\ InQueue \cap InValid' = {}
      /\ Once(batch', index') /\ Once(valid', FirstUnset')
  BY TargetIsOpen
<1>3. index \in Nat \ {0} /\ Len(batch) \in Nat /\ Len(valid) \in Nat
  BY SeqLen DEF SchedulerTypeOK
<1> HIDE DEF r
<1>4. outcome'[r] = o /\ \A q \in Requests \ {r} : outcome'[q] = outcome[q]
  BY <1>1, <1>2 DEF SchedulerTypeOK, Becomes
<1>5. SchedulerTypeOK'
  <2>1. outcome' \in [Requests -> Outcomes \cup {"unsubmitted", "pending"}]
    BY <1>1 DEF SchedulerTypeOK, Becomes, Outcomes
  <2>2. submitting' \subseteq {q \in Requests : outcome'[q] \notin {"unsubmitted", "overflow"}}
    BY <1>1, <1>4 DEF SchedulerTypeOK
  <2>3. QED  BY <1>1, <1>3, <2>1, <2>2, SMTT(30) DEF SchedulerTypeOK, Places
<1>6. Sorted'  BY <1>1, <1>2, <1>3, SMTT(30) DEF Sorted
<1>7. PendingIsHeld'
  BY <1>1, <1>2, <1>4 DEF PendingIsHeld
<1>8. HeldIsOpen'
  BY <1>1, <1>2, <1>4, HeldWithin DEF HeldIsOpen
<1>9. LateIsExpired' /\ TimeoutIsTrue'
  BY <1>1, <1>2, <1>4 DEF LateIsExpired, TimeoutIsTrue
<1>10. LateNeverExecuted'
  BY <1>1, <1>2, <1>4 DEF LateNeverExecuted, LateIsExpired, SchedulerTypeOK
<1>11. StatsFollow'
  <2>1. /\ Ended(Accepted)' = Ended(Accepted)
        /\ o # "result" => Ended({"result"})' = Ended({"result"})
        /\ o # "timeout" => Ended({"timeout"})' = Ended({"timeout"})
        /\ o # "error" => Ended({"error", "overflow"})' = Ended({"error", "overflow"})
    BY <1>1, <1>2, OutcomeCounts DEF Accepted
  <2>2. /\ o = "result" => Cardinality(Ended({"result"})') = Cardinality(Ended({"result"})) + 1
        /\ o = "timeout" => Cardinality(Ended({"timeout"})') = Cardinality(Ended({"timeout"})) + 1
        /\ o = "error" => Cardinality(Ended({"error", "overflow"})')
                            = Cardinality(Ended({"error", "overflow"})) + 1
    BY <1>1, <1>2, OutcomeCounts
  <2>3. \A c \in Counters : stats[c] \in Nat  BY DEF SchedulerTypeOK, Stats
  <2>4. CASE worker = "expire"
    BY <1>1, <1>3, <2>1, <2>2, <2>3, <2>4, SMTT(30) DEF StatsFollow, Counters
  <2>5. CASE worker = "deliver"
    BY <1>1, <1>3, <2>1, <2>2, <2>3, <2>5, SMTT(30) DEF StatsFollow, Counters
  <2>6. CASE worker = "fail"
    BY <1>1, <1>3, <2>1, <2>2, <2>3, <2>6, SMTT(30) DEF StatsFollow, Counters
  <2>7. QED  BY <1>1, <2>4, <2>5, <2>6
<1>12. QED  BY <1>5, <1>6, <1>7, <1>8, <1>9, <1>10, <1>11

\* The thread that finds a future cancelled under its hands dies, and leaves all as it is.
LEMMA DyingKeeps ==
    ASSUME SchedulerInv, worker' = "dead",
           UNCHANGED <<queue, stop, stats, outcome, expired, submitting, batch, valid, index, late>>
    PROVE  SchedulerInv'
BY DEF SchedulerInv, SchedulerTypeOK, Places, Sorted, PendingIsHeld, HeldIsOpen, LateIsExpired,
       TimeoutIsTrue, LateNeverExecuted, StatsFollow

Dies ==
    /\ worker' = "dead"
    /\ UNCHANGED <<queue, stop, stats, outcome, expired, submitting, batch, valid, index, late>>

LEMMA SettingSteps ==
    /\ ExpireOne => Dies \/ SetStep("timeout", "count")
    /\ SetOne("deliver", "result") => Dies \/ SetStep("result", "deliver")
    /\ SetOne("fail", "error") => Dies \/ SetStep("error", "fail")
<1>1. ASSUME ExpireOne PROVE Dies \/ SetStep("timeout", "count")
  BY <1>1 DEF ExpireOne, Set, Dies, SetStep, Target
<1>2. ASSUME SetOne("deliver", "result") PROVE Dies \/ SetStep("result", "deliver")
  BY <1>2 DEF SetOne, Set, Dies, SetStep, Target
<1>3. ASSUME SetOne("fail", "error") PROVE Dies \/ SetStep("error", "fail")
  BY <1>3 DEF SetOne, Set, Dies, SetStep, Target
<1>4. QED  BY <1>1, <1>2, <1>3

LEMMA SchedulerInductive ==
    ASSUME SchedulerInv, [SchedulerNext]_schedulerVars
    PROVE  SchedulerInv'
<1> USE DEF SchedulerInv
<1>1. CASE UNCHANGED schedulerVars
  <2>1. stop' \in BOOLEAN  BY <1>1 DEF SchedulerTypeOK, schedulerVars
  <2>2. QED  BY <1>1, <2>1, QuietKeeps DEF schedulerVars
<1>2. CASE \E r \in Requests : submit(r) \/ CountSubmitted(r) \/ Cancel(r) \/ Expire(r)
  BY <1>2, SubmitKeeps, OutsideKeeps
<1>3. CASE \E c \in Closers : CloserStep(c)
  BY <1>3, OutsideKeeps
<1>4. CASE LoopTest \/ GetTimesOut \/ GatherEnds \/ Execute
  <2>1. /\ UNCHANGED <<queue, stats, futures, submitting, lists, late>> /\ stop' \in BOOLEAN
        /\ \/ worker = "loop" /\ worker' \in {"get", "exited"}
           \/ worker = "get" /\ worker' = "loop"
           \/ worker = "gather" /\ worker' = "filter"
           \/ worker = "execute" /\ worker' \in {"deliver", "fail"}
    BY <1>4 DEF LoopTest, GetTimesOut, GatherEnds, Execute, SchedulerTypeOK
  <2>2. QED  BY <2>1, QuietKeeps
<1>5. CASE Get \/ Gather  BY <1>5, TakeKeeps
<1>6. CASE FilterOne  BY <1>6, FilterKeeps
<1>7. CASE ExpireOne \/ SetOne("deliver", "result") \/ SetOne("fail", "error")
  BY <1>7, SettingSteps, SetKeeps, DyingKeeps DEF Dies
<1>8. CASE CountExpired  BY <1>8, CountExpiredKeeps
<1>9. CASE FilterEnds \/ SetEnds("deliver", "completed") \/ SetEnds("fail", "failed")
  BY <1>9, ListEnds
<1>10. QED
  BY <1>1, <1>2, <1>3, <1>4, <1>5, <1>6, <1>7, <1>8, <1>9 DEF SchedulerNext, WorkerStep, Deliver, Fail

LEMMA SchedulerStarts ==
    ASSUME SchedulerInit
    PROVE  SchedulerInv
<1>0. Cardinality({}) = 0 /\ worker = "loop" /\ \A k \in Counters : stats[k] = 0
  BY FS_EmptySet DEF SchedulerInit
<1> USE DEF SchedulerInit
<1>1. SchedulerTypeOK
  <2>1. stats \in Stats  BY DEF Stats
  <2>2. outcome \in [Requests -> Outcomes \cup {"unsubmitted", "pending"}]  OBVIOUS
  <2>3. \A S : <<>> \in Seq(S)  BY SeqEmpty
  <2>4. index \in Nat \ {0} /\ worker \in Places /\ submitting = {} /\ expired = {}
    BY SMTT(30) DEF Places
  <2>5. /\ queue \in Seq(Requests \cup {Sentinel}) /\ batch \in Seq(Requests)
        /\ valid \in Seq(Requests) /\ stop \in BOOLEAN
    BY <2>3
  <2>6. QED  BY <2>1, <2>2, <2>4, <2>5 DEF SchedulerTypeOK
<1>2. Sorted  BY DEF Sorted
<1>3. FirstUnset = 1 /\ InQueue = {} /\ InBatch = {} /\ InValid = {}
  BY RestNone DEF FirstUnset, InQueue, InBatch, InValid
<1>4. PendingIsHeld /\ HeldIsOpen  BY <1>3, RestNone DEF PendingIsHeld, HeldIsOpen
<1>5. LateIsExpired /\ TimeoutIsTrue /\ LateNeverExecuted
  BY DEF LateIsExpired, TimeoutIsTrue, LateNeverExecuted
<1>6. StatsFollow
  <2>1. /\ Ended({"result"}) = {} /\ Ended({"error", "overflow"}) = {} /\ Ended({"timeout"}) = {}
        /\ Ended(Accepted) = {} /\ submitting = {}
    BY DEF Ended, Accepted
  <2> HIDE DEF SchedulerInit
  <2>2. QED  BY <1>0, <2>1, SMTT(30) DEF StatsFollow, Counters
<1>7. QED  BY <1>1, <1>2, <1>4, <1>5, <1>6 DEF SchedulerInv

LEMMA SchedulerAlways == SchedulerSpec => []SchedulerInv
BY SchedulerStarts, SchedulerInductive, PTL DEF SchedulerSpec

\* StatsFollow is what stats() promises when the worker is between two batches.
LEMMA StatsSettle ==
    ASSUME SchedulerInv
    PROVE  StatsAgree
<1>1. Ended(Accepted) = {r \in Requests : outcome[r] \notin {"unsubmitted", "overflow"}}
  BY DEF SchedulerInv, SchedulerTypeOK, Ended, Accepted, Outcomes
<1>2. \A c \in Counters : stats[c] \in Nat
  BY DEF SchedulerInv, SchedulerTypeOK, Stats
<1>3. ASSUME worker = "loop"
      PROVE  /\ stats["completed"] = Cardinality(Ended({"result"}))
             /\ stats["failed"] = Cardinality(Ended({"error", "overflow"}))
             /\ stats["expired"] = Cardinality(Ended({"timeout"}))
             /\ stats["submitted"] + Cardinality(submitting) = Cardinality(Ended(Accepted))
  BY <1>2, <1>3, SMTT(30) DEF SchedulerInv, StatsFollow, Counters
<1>4. QED  BY <1>1, <1>3 DEF StatsAgree, Ended

\* For any number of requests, submitters, holders that cancel and closers, whatever
\* the model runner does: submit() and _worker() forget nobody and serve nobody twice
\* as long as the thread lives, execute nothing that was late when it was dequeued,
\* and stats() agrees with the futures whenever the worker is between two batches.
THEOREM RequestSchedulerIsCorrect ==
    SchedulerSpec => [](PendingIsHeld /\ LateNeverExecuted /\ StatsAgree)
<1>1. SchedulerInv => PendingIsHeld /\ LateNeverExecuted /\ StatsAgree
  BY StatsSettle DEF SchedulerInv
<1>2. QED  BY <1>1, SchedulerAlways, PTL

-----------------------------------------------------------------------------
(* The ledger of futures *)

\* A step gives one future an outcome that it did not have, or leaves all as they are.
LEMMA SettleOne ==
    ASSUME SchedulerTypeOK, NEW r \in Requests, outcome[r] = "pending", NEW o \in Outcomes,
           Becomes(r, o)
    PROVE  Ledger!Next
<1>1. {r} \in SUBSET {q \in Requests : outcome[q] = "pending"}  OBVIOUS
<1>2. outcome' = [q \in Requests |-> IF q \in {r} THEN o ELSE outcome[q]]
  BY DEF SchedulerTypeOK, Becomes
<1>3. Ledger!Settle  BY <1>1, <1>2 DEF Ledger!Settle
<1>4. QED  BY <1>3 DEF Ledger!Next

LEMMA StepKeepsLedger ==
    ASSUME SchedulerInv, [SchedulerNext]_schedulerVars
    PROVE  [Ledger!Next]_outcome
<1> USE DEF SchedulerInv
<1>1. CASE UNCHANGED schedulerVars  BY <1>1 DEF schedulerVars, futures
<1>2. ASSUME NEW r \in Requests, submit(r) PROVE Ledger!Next
  <2>1. outcome[r] = "unsubmitted" /\ \E o \in Outcomes \cup {"pending"} :
                                          outcome' = [outcome EXCEPT ![r] = o]
    BY <1>2 DEF submit, SubmitFull, SubmitQueued, Becomes, Outcomes
  <2>2. QED  BY <2>1 DEF Ledger!Next, Ledger!Submit
<1>3. ASSUME NEW r \in Requests, CountSubmitted(r) \/ Expire(r) PROVE UNCHANGED outcome
  BY <1>3 DEF CountSubmitted, Expire, futures
<1>4. ASSUME NEW r \in Requests, Cancel(r) PROVE Ledger!Next
  BY <1>4, SettleOne DEF Cancel, Outcomes
<1>5. CASE \E c \in Closers : CloserStep(c)
  BY <1>5 DEF CloserStep, CloseTest, CloseSet, ClosePut, CloseJoin, futures
<1>6. CASE \/ LoopTest \/ GetTimesOut \/ Get \/ Gather \/ GatherEnds \/ FilterOne \/ CountExpired
           \/ FilterEnds \/ Execute \/ SetEnds("deliver", "completed") \/ SetEnds("fail", "failed")
  BY <1>6 DEF LoopTest, GetTimesOut, Get, Gather, GatherEnds, FilterOne, CountExpired,
     FilterEnds,
              Execute, SetEnds, futures
<1>7. ASSUME NEW o \in Outcomes, NEW next, SetStep(o, next) PROVE Ledger!Next
  BY <1>7, TargetIsOpen, SettleOne DEF SetStep
<1>8. CASE ExpireOne \/ SetOne("deliver", "result") \/ SetOne("fail", "error")
  BY <1>7, <1>8, SettingSteps DEF Dies, Outcomes
<1>9. QED
  BY <1>1, <1>2, <1>3, <1>4, <1>5, <1>6, <1>8 DEF SchedulerNext, WorkerStep, Deliver, Fail

\* For any number of requests, submitters and closers: the request scheduler of the
\* Python service implements the ledger of futures: submit() makes a future pending or
\* refuses it, and what set_result, set_exception or cancel() gives it is never changed.
THEOREM FuturesAreSetOnce == SchedulerSpec => LedgerSafe
<1>1. SchedulerInit => Ledger!Init  BY DEF SchedulerInit, Ledger!Init
<1>2. QED  BY <1>1, SchedulerAlways, StepKeepsLedger, PTL DEF SchedulerSpec, LedgerSafe, Ledger!Safe
=============================================================================
