-------------------------- MODULE WaitReadyProofs --------------------------
(***************************************************************************)
(* WaitReady proved for any budget, interval, request timeout and lateness *)
(* of the clock, up to any horizon.                                        *)
(***************************************************************************)
EXTENDS WaitReady, TLAPS

-----------------------------------------------------------------------------
(* The inductive invariant.                                                *)

TypeOK ==
  /\ pc \in {"top", "ready", "readyz", "health", "failed", "done"}
  /\ {now, attempts, readyAt, healthAt} \subseteq 0..Horizon
  /\ result \in {"none", "ready", "timeout", "raw"}

\* No result before the end, no probe outside an attempt, and health after ready.
InAttempt ==
  /\ pc # "done" => result = "none"
  /\ pc \in {"ready", "readyz", "health", "failed"} => attempts > 0
  /\ pc = "health" => readyAt = attempts

\* An attempt begins before the deadline, and each of its requests adds a ProbeTime.
LateByRequests ==
  Timed =>
    /\ pc = "top" => now <= Deadline + Slack /\ (attempts = 0 => now < Deadline)
    /\ pc = "ready"  => now <= Deadline
    /\ pc = "readyz" => now <= Deadline + ProbeTime
    /\ pc = "health" => now <= Deadline + 2 * ProbeTime
    /\ pc = "failed" => now <= Deadline + 3 * ProbeTime

\* Whoever may begin another attempt has slept an interval for each before it.
SleptBefore ==
  now < Horizon /\ pc = "top" /\ ~ (Timed /\ now >= Deadline /\ attempts > 0) =>
    attempts * Interval <= now

\* Inductive: the loop, its probes and late wake-ups keep it.
Inv ==
  /\ TypeOK
  /\ InAttempt
  /\ LateByRequests
  /\ SleptBefore
  /\ TimeoutIsDue
  /\ ReadyIsCurrent
  /\ OvershootIsOneAttempt
  /\ ProbesAreSpaced

-----------------------------------------------------------------------------
LEMMA Constants ==
  /\ TimeoutSec \in Int /\ Interval \in Nat /\ Interval > 0
  /\ ProbeTime \in Nat /\ Slack \in Nat /\ Horizon \in Nat /\ Horizon > 0
  /\ Deadline \in Nat /\ (Timed => Deadline > 0)
  BY WaitAssumption DEF Timed, Deadline

\* What a count that stops at the horizon is.
LEMMA CappedOf ==
  ASSUME NEW n \in Nat
  PROVE  /\ Capped(n) \in 0..Horizon /\ Capped(n) <= n
         /\ Capped(n) < Horizon => Capped(n) = n
         /\ n > 0 => Capped(n) > 0
         /\ Capped(n) = n \/ (Capped(n) = Horizon /\ n > Horizon)
  BY Constants DEF Capped

\* An attempt less, an interval less.
LEMMA OneLess ==
  ASSUME NEW a \in Int, NEW i \in Int
  PROVE  (a - 1) * i = a * i - i
  OBVIOUS

\* The types as a prover likes them.
LEMMA Types ==
  TypeOK <=> /\ pc \in {"top", "ready", "readyz", "health", "failed", "done"}
             /\ now \in 0..Horizon /\ attempts \in 0..Horizon
             /\ readyAt \in 0..Horizon /\ healthAt \in 0..Horizon
             /\ result \in {"none", "ready", "timeout", "raw"}
  BY DEF TypeOK

\* Initially there is all the time, and no attempt was made.
LEMMA InitInv == Init => Inv
  <1> SUFFICES ASSUME Init PROVE Inv
    OBVIOUS
  <1> USE DEF Init
  <1>1. TypeOK
    BY Types, Constants
  <1>2. InAttempt /\ LateByRequests /\ SleptBefore
    BY Constants DEF InAttempt, LateByRequests, SleptBefore
  <1>3. TimeoutIsDue /\ ReadyIsCurrent /\ OvershootIsOneAttempt /\ ProbesAreSpaced
    <2>1. (0 - 1) * Interval = 0 * Interval - Interval
      BY Constants, OneLess
    <2> QED
      BY <2>1, Constants DEF TimeoutIsDue, ReadyIsCurrent, OvershootIsOneAttempt, ProbesAreSpaced
  <1> QED
    BY <1>1, <1>2, <1>3 DEF Inv

\* Giving up, at the head of the loop or behind an attempt, is due.
LEMMA GiveUpInv == ASSUME Inv, GiveUp \/ TimeOut PROVE Inv'
  <1> USE DEF Inv
  <1>1. /\ Timed /\ now >= Deadline /\ attempts > 0
        /\ pc' = "done" /\ result' = "timeout"
        /\ UNCHANGED <<now, attempts, readyAt, healthAt>>
    <2>1. CASE GiveUp
      BY <2>1 DEF GiveUp, End
    <2>2. CASE TimeOut
      BY <2>2 DEF TimeOut, End, InAttempt
    <2> QED
      BY <2>1, <2>2
  <1>2. TypeOK'
    BY <1>1 DEF TypeOK
  <1>3. InAttempt' /\ LateByRequests' /\ SleptBefore'
    BY <1>1 DEF InAttempt, LateByRequests, SleptBefore, Deadline, Timed
  <1>4. TimeoutIsDue' /\ ReadyIsCurrent' /\ OvershootIsOneAttempt' /\ ProbesAreSpaced'
    BY <1>1 DEF TimeoutIsDue, ReadyIsCurrent, OvershootIsOneAttempt, ProbesAreSpaced, Deadline, Timed
  <1> QED
    BY <1>2, <1>3, <1>4

\* Another attempt begins with time left, behind a full interval for every one before.
LEMMA AttemptInv == ASSUME Inv, Attempt PROVE Inv'
  <1> USE DEF Inv
  <1>1. /\ pc = "top" /\ ~ (Timed /\ now >= Deadline /\ attempts > 0)
        /\ attempts' = Capped(attempts + 1) /\ pc' = "ready"
        /\ UNCHANGED <<now, result, readyAt, healthAt>>
    BY DEF Attempt
  <1>2. now \in 0..Horizon /\ attempts \in 0..Horizon /\ result = "none"
    BY <1>1, Types DEF InAttempt
  <1>3. attempts' \in 0..Horizon /\ attempts' > 0 /\ attempts' \in {attempts, attempts + 1}
    BY <1>1, <1>2, CappedOf, Constants
  <1>4. TypeOK'
    BY <1>1, <1>3, Types DEF TypeOK
  <1>5. Timed => now < Deadline
    BY <1>1, <1>2, Constants DEF LateByRequests
  <1>6. InAttempt' /\ LateByRequests' /\ SleptBefore'
    BY <1>1, <1>2, <1>3, <1>5, Constants DEF InAttempt, LateByRequests, SleptBefore, Deadline, Timed
  <1>7. TimeoutIsDue' /\ ReadyIsCurrent' /\ OvershootIsOneAttempt'
    BY <1>1, <1>2 DEF TimeoutIsDue, ReadyIsCurrent, OvershootIsOneAttempt, Deadline, Timed
  <1>8. ProbesAreSpaced'
    <2> SUFFICES ASSUME now < Horizon PROVE (attempts' - 1) * Interval <= now
      BY <1>1 DEF ProbesAreSpaced
    <2>1. attempts * Interval <= now
      BY <1>1 DEF SleptBefore
    <2>2. (attempts - 1) * Interval = attempts * Interval - Interval
      BY <1>2, Constants, OneLess
    <2>3. attempts * Interval \in Int
      BY <1>2, Constants
    <2>4. CASE attempts' = attempts
      <3> DEFINE all == attempts * Interval
      <3>1. all \in Int /\ all <= now /\ now \in Int /\ Interval \in Nat
        BY <1>2, <2>1, <2>3, Constants
      <3> HIDE DEF all
      <3>2. all - Interval <= now
        BY <3>1
      <3> QED
        BY <2>2, <2>4, <3>2 DEF all
    <2>5. CASE attempts' = attempts + 1
      <3>1. attempts' - 1 = attempts
        BY <1>2, <2>5
      <3> QED
        BY <2>1, <3>1
    <2> QED
      BY <1>3, <2>4, <2>5
  <1> QED
    BY <1>4, <1>6, <1>7, <1>8

\* The time a request takes.
LEMMA ElapseOf ==
  ASSUME now \in 0..Horizon, Elapse
  PROVE  /\ now' \in 0..Horizon /\ now' <= now + ProbeTime
         /\ now' < Horizon => now <= now' /\ now < Horizon
  <1>1. PICK d \in 0..ProbeTime : now' = Capped(now + d)
    BY DEF Elapse
  <1>2. now + d \in Nat /\ d \in Nat /\ d <= ProbeTime /\ now \in Nat
    BY Constants
  <1> QED
    BY <1>1, <1>2, CappedOf, Constants

\* A request that ends leaves the attempt in its next place, or wait_ready with a
\* result that holds of this very attempt.
LEMMA ProbeInv ==
  ASSUME Inv, pc \in {"ready", "readyz", "health"}, Elapse, attempts' = attempts,
         readyAt' \in {readyAt, attempts}, healthAt' \in {healthAt, attempts},
         \/ pc' = "done" /\ result' = "raw"
         \/ /\ pc' = "done" /\ result' = "ready"
            /\ readyAt' = attempts /\ (RequireHealth => healthAt' = attempts)
         \/ pc = "ready" /\ pc' = "readyz" /\ result' = result
         \/ pc # "health" /\ pc' = "health" /\ result' = result /\ readyAt' = attempts
         \/ pc' = "failed" /\ result' = result
  PROVE  Inv'
  <1> USE DEF Inv
  <1>1. /\ now \in 0..Horizon /\ attempts \in 0..Horizon /\ attempts > 0 /\ result = "none"
        /\ readyAt \in 0..Horizon /\ healthAt \in 0..Horizon
    BY Types DEF InAttempt
  <1>2. /\ now' \in 0..Horizon /\ now' <= now + ProbeTime
        /\ now' < Horizon => now <= now' /\ now < Horizon
    BY <1>1, ElapseOf
  <1>3. TypeOK'
    BY <1>1, <1>2 DEF TypeOK
  <1>4. InAttempt' /\ SleptBefore'
    BY <1>1 DEF InAttempt, SleptBefore
  <1>5. LateByRequests' /\ OvershootIsOneAttempt'
    <2>1. Timed =>
            /\ pc = "ready" => now <= Deadline
            /\ pc = "readyz" => now <= Deadline + ProbeTime
            /\ pc = "health" => now <= Deadline + 2 * ProbeTime
      BY DEF LateByRequests
    <2>2. Timed =>
            /\ now' <= Deadline + 3 * ProbeTime
            /\ pc' = "readyz" => now' <= Deadline + ProbeTime
            /\ pc' = "health" => now' <= Deadline + 2 * ProbeTime
            /\ pc' \notin {"top", "ready"}
      BY <1>1, <1>2, <2>1, Constants
    <2>3. Timed' = Timed /\ Deadline' = Deadline
      BY DEF Timed, Deadline
    <2> QED
      BY <2>2, <2>3 DEF LateByRequests, OvershootIsOneAttempt
  <1>6. TimeoutIsDue' /\ ReadyIsCurrent'
    BY <1>1 DEF TimeoutIsDue, ReadyIsCurrent
  <1>7. ProbesAreSpaced'
    <2> SUFFICES ASSUME now' < Horizon PROVE (attempts - 1) * Interval <= now'
      BY DEF ProbesAreSpaced
    <2>1. (attempts - 1) * Interval <= now /\ (attempts - 1) * Interval \in Int
      BY <1>1, <1>2, Constants DEF ProbesAreSpaced
    <2> QED
      BY <1>1, <1>2, <2>1
  <1> QED
    BY <1>3, <1>4, <1>5, <1>6, <1>7

\* What ready() comes to.
LEMMA ReadyInv ==
  ASSUME Inv, NEW path \in {"ready", "readyz"}, NEW r \in Replies, ProbeReady(path, r)
  PROVE  Inv'
  <1>1. pc = path /\ Elapse /\ UNCHANGED <<attempts, healthAt>>
    BY DEF ProbeReady
  <1>2. \/ pc' = "done" /\ result' = "raw" /\ readyAt' = readyAt
        \/ path = "ready" /\ pc' = "readyz" /\ UNCHANGED <<result, readyAt>>
        \/ AfterReady(TRUE)
        \/ AfterReady(FALSE)
    <2>1. CASE GetStatus(r) = "raw"
      BY <2>1 DEF ProbeReady, End
    <2>2. CASE GetStatus(r) = "404" /\ path = "ready"
      BY <2>2 DEF ProbeReady
    <2>3. CASE GetStatus(r) # "raw" /\ ~ (GetStatus(r) = "404" /\ path = "ready")
      <3>1. AfterReady(GetStatus(r) = "ok")
        BY <2>3 DEF ProbeReady
      <3> QED
        BY <3>1
    <2> QED
      BY <2>1, <2>2, <2>3
  <1>3. CASE AfterReady(TRUE)
    BY <1>1, <1>3, ProbeInv DEF AfterReady, End
  <1>4. CASE AfterReady(FALSE)
    BY <1>1, <1>4, ProbeInv DEF AfterReady
  <1> QED
    BY <1>1, <1>2, <1>3, <1>4, ProbeInv

\* What health() comes to, behind a ready() of the same attempt.
LEMMA HealthInv == ASSUME Inv, NEW r \in Replies, ProbeHealth(r) PROVE Inv'
  <1>1. /\ pc = "health" /\ Elapse /\ UNCHANGED <<attempts, readyAt>>
        /\ readyAt = attempts
    BY DEF ProbeHealth, Inv, InAttempt
  <1>2. \/ pc' = "done" /\ result' = "raw" /\ healthAt' = healthAt
        \/ pc' = "done" /\ result' = "ready" /\ healthAt' = attempts
        \/ pc' = "failed" /\ UNCHANGED <<result, healthAt>>
    BY DEF ProbeHealth, End
  <1> QED
    BY <1>1, <1>2, ProbeInv

\* The sleep is a full interval unless the deadline ends it, and no more attempts
\* follow it then.
LEMMA SleepInv == ASSUME Inv, Sleep PROVE Inv'
  <1> USE DEF Inv
  <1>1. /\ pc = "failed" /\ ~ (Timed /\ now >= Deadline) /\ pc' = "top"
        /\ UNCHANGED <<attempts, result, readyAt, healthAt>>
    BY DEF Sleep
  <1>2. PICK late \in 0..Slack : now' = Capped(now + SleepFor + late)
    BY DEF Sleep
  <1>3. /\ now \in 0..Horizon /\ attempts \in 0..Horizon /\ attempts > 0 /\ result = "none"
    BY <1>1, Types DEF InAttempt
  <1>4. /\ SleepFor \in Nat /\ SleepFor <= Interval
        /\ SleepFor = Interval \/ (Timed /\ now + SleepFor = Deadline)
        /\ Timed => now + SleepFor <= Deadline
    BY <1>1, <1>3, Constants DEF SleepFor
  <1>5. late \in Nat /\ late <= Slack /\ now + SleepFor + late \in Nat
    BY <1>3, <1>4, Constants
  <1>6. /\ now' \in 0..Horizon /\ now' <= now + SleepFor + late
        /\ now' < Horizon => now' = now + SleepFor + late
    BY <1>2, <1>5, CappedOf
  <1>7. TypeOK'
    BY <1>1, <1>6, Types DEF TypeOK
  <1>8. Timed' = Timed /\ Deadline' = Deadline
    BY DEF Timed, Deadline
  <1>9. Timed => now' <= Deadline + Slack
    BY <1>3, <1>4, <1>5, <1>6, Constants
  <1>10. InAttempt' /\ LateByRequests' /\ OvershootIsOneAttempt'
    BY <1>1, <1>3, <1>8, <1>9 DEF InAttempt, LateByRequests, OvershootIsOneAttempt
  <1>11. TimeoutIsDue' /\ ReadyIsCurrent'
    BY <1>1, <1>3 DEF TimeoutIsDue, ReadyIsCurrent
  <1>12. now' < Horizon => /\ now < Horizon /\ now <= now'
                           /\ (attempts - 1) * Interval <= now
                           /\ attempts * Interval \in Int
                           /\ (attempts - 1) * Interval = attempts * Interval - Interval
    <2>1. now' < Horizon => now < Horizon /\ now <= now'
      BY <1>3, <1>4, <1>5, <1>6, Constants
    <2>2. attempts * Interval \in Int /\ (attempts - 1) * Interval = attempts * Interval - Interval
      BY <1>3, Constants, OneLess
    <2> QED
      BY <2>1, <2>2 DEF ProbesAreSpaced
  <1>13. SleptBefore'
    <2> SUFFICES ASSUME now' < Horizon, ~ (Timed /\ now' >= Deadline)
                 PROVE  attempts * Interval <= now'
      BY <1>1, <1>3, <1>8 DEF SleptBefore
    <2>1. SleepFor = Interval
      BY <1>3, <1>4, <1>5, <1>6, Constants
    <2> QED
      BY <1>3, <1>5, <1>6, <1>12, <2>1, Constants
  <1>14. ProbesAreSpaced'
    BY <1>1, <1>3, <1>6, <1>12, Constants DEF ProbesAreSpaced
  <1> QED
    BY <1>7, <1>10, <1>11, <1>13, <1>14

\* Every step of the loop keeps the invariant.
LEMMA InvStep == Inv /\ [Next]_vars => Inv'
  <1> SUFFICES ASSUME Inv, [Next]_vars PROVE Inv'
    OBVIOUS
  <1>1. CASE UNCHANGED vars
    BY <1>1 DEF vars, Inv, TypeOK, InAttempt, LateByRequests, SleptBefore, TimeoutIsDue,
                ReadyIsCurrent, OvershootIsOneAttempt, ProbesAreSpaced, Deadline, Timed
  <1> QED
    BY <1>1, GiveUpInv, AttemptInv, ReadyInv, HealthInv, SleepInv DEF Next

\* The loop never leaves the invariant.
THEOREM Invariance == Spec => []Inv
  BY InitInv, InvStep, PTL DEF Spec

\* A timeout is raised after an attempt, and when the budget is spent.
THEOREM TimeoutWasDue == Spec => []TimeoutIsDue
  <1>1. Inv => TimeoutIsDue
    BY DEF Inv
  <1> QED
    BY <1>1, Invariance, PTL

\* Ready is of one attempt, the last.
THEOREM ReadyNow == Spec => []ReadyIsCurrent
  <1>1. Inv => ReadyIsCurrent
    BY DEF Inv
  <1> QED
    BY <1>1, Invariance, PTL

\* The caller is kept one attempt, or one late wake-up, past the deadline at most.
THEOREM BoundedOvershoot == Spec => []OvershootIsOneAttempt
  <1>1. Inv => OvershootIsOneAttempt
    BY DEF Inv
  <1> QED
    BY <1>1, Invariance, PTL

\* Between two attempts there is an interval.
THEOREM SpacedProbes == Spec => []ProbesAreSpaced
  <1>1. Inv => ProbesAreSpaced
    BY DEF Inv
  <1> QED
    BY <1>1, Invariance, PTL
=============================================================================
