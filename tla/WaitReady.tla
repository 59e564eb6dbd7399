------------------------------ MODULE WaitReady ------------------------------
(***************************************************************************)
(* Client.wait_ready: the poll loop over ready() (GET /ready, then /readyz *)
(* after a 404) and, when asked, health(), against a broker that may       *)
(* answer anything or nothing.  Time is counted in ticks from the call.    *)
(***************************************************************************)
EXTENDS Integers, Http

CONSTANTS
  TimeoutSec,     \* timeout_sec, possibly zero or negative
  Interval,       \* interval_sec after its default was filled in
  RequireHealth,  \* require_health
  ProbeTime,      \* the client's request timeout: longest request
  Slack,          \* how much longer than asked time.sleep may take
  Horizon         \* bound: the clock and the attempts stop counting here

ASSUME WaitAssumption ==
  /\ TimeoutSec \in Int
  /\ {Interval, Horizon} \subseteq Nat \ {0}
  /\ RequireHealth \in BOOLEAN
  /\ {ProbeTime, Slack} \subseteq Nat

VARIABLES
  pc,         \* "top", "ready", "readyz", "health", "failed", "done"
  now,        \* time.monotonic() - start
  attempts,
  result,     \* "none", "ready", "timeout" or "raw" (an unwrapped exception)
  readyAt,    \* attempt at which ready() last succeeded (history)
  healthAt    \* attempt at which health() last succeeded (history)

vars == <<pc, now, attempts, result, readyAt, healthAt>>

Timed == TimeoutSec > 0

\* Slip: the deadline is counted from now.
Deadline_Sliding == now + TimeoutSec

Deadline == IF Timed THEN TimeoutSec ELSE 0

Capped(n) == IF n > Horizon THEN Horizon ELSE n

Init ==
  /\ pc = "top"
  /\ now = 0
  /\ attempts = 0
  /\ result = "none"
  /\ readyAt = 0
  /\ healthAt = 0

End(r) == pc' = "done" /\ result' = r

\* The head of the loop: too late for another attempt, or the next attempt.
GiveUp ==
  /\ pc = "top"
  /\ Timed /\ now >= Deadline /\ attempts > 0
  /\ End("timeout")
  /\ UNCHANGED <<now, attempts, readyAt, healthAt>>

\* Slip: a broker that was ready once is not asked again.
Attempt_RemembersReady ==
  /\ pc = "top"
  /\ ~ (Timed /\ now >= Deadline /\ attempts > 0)
  /\ attempts' = Capped(attempts + 1)
  /\ pc' = IF readyAt > 0 THEN "health" ELSE "ready"
  /\ UNCHANGED <<now, result, readyAt, healthAt>>

Attempt ==
  /\ pc = "top"
  /\ ~ (Timed /\ now >= Deadline /\ attempts > 0)
  /\ attempts' = Capped(attempts + 1)
  /\ pc' = "ready"
  /\ UNCHANGED <<now, result, readyAt, healthAt>>

\* A request takes a while; the client's timeout bounds it.
Elapse == \E d \in 0..ProbeTime : now' = Capped(now + d)

AfterReady(ok) ==
  IF ok THEN /\ readyAt' = attempts
             /\ IF RequireHealth THEN pc' = "health" /\ UNCHANGED result
                                 ELSE End("ready")
        ELSE pc' = "failed" /\ UNCHANGED <<result, readyAt>>

\* ready(): a 404 of /ready asks /readyz; an APIError or ClientError ends the
\* attempt; what is not wrapped ends wait_ready.
ProbeReady(path, r) ==
  /\ pc = path
  /\ Elapse
  /\ LET o == GetStatus(r)
     IN  CASE o = "raw" -> End("raw") /\ UNCHANGED readyAt
           [] o = "404" /\ path = "ready" -> pc' = "readyz" /\ UNCHANGED <<result, readyAt>>
           [] OTHER -> AfterReady(o = "ok")
  /\ UNCHANGED <<attempts, healthAt>>

ProbeHealth(r) ==
  /\ pc = "health"
  /\ Elapse
  /\ LET o == GetStatus(r)
     IN  CASE o = "raw" -> End("raw") /\ UNCHANGED healthAt
           [] o = "ok"  -> End("ready") /\ healthAt' = attempts
           [] OTHER     -> pc' = "failed" /\ UNCHANGED <<result, healthAt>>
  /\ UNCHANGED <<attempts, readyAt>>

\* Slip: it gives up when there is no time for another interval.
TimeOut_Early ==
  /\ pc = "failed"
  /\ Timed /\ now + Interval >= Deadline
  /\ End("timeout")
  /\ UNCHANGED <<now, attempts, readyAt, healthAt>>

\* After a failed attempt: past the deadline, or sleep and go round.
TimeOut ==
  /\ pc = "failed"
  /\ Timed /\ now >= Deadline
  /\ End("timeout")
  /\ UNCHANGED <<now, attempts, readyAt, healthAt>>

\* Slip: the sleep is not cut at the deadline.
SleepFor_Uncapped == Interval

\* Slip: no sleep after the first attempt.
SleepFor_SkipsFirst == IF attempts = 1 THEN 0 ELSE Interval

SleepFor == IF Timed /\ Deadline - now < Interval THEN Deadline - now ELSE Interval

Sleep ==
  /\ pc = "failed"
  /\ ~ (Timed /\ now >= Deadline)
  /\ \E late \in 0..Slack : now' = Capped(now + SleepFor + late)
  /\ pc' = "top"
  /\ UNCHANGED <<attempts, result, readyAt, healthAt>>

Next ==
  \/ GiveUp \/ Attempt \/ TimeOut \/ Sleep
  \/ \E r \in Replies : ProbeReady("ready", r) \/ ProbeReady("readyz", r) \/ ProbeHealth(r)

Spec == Init /\ [][Next]_vars

\* The thread keeps running, and every request ends by its timeout.
FairSpec == Spec /\ WF_vars(Next)

-----------------------------------------------------------------------------
\* A timeout is raised only once timeout_sec is over, and after a real attempt.
TimeoutIsDue == result = "timeout" => now >= Deadline /\ attempts > 0

\* Ready means ready and, when required, healthy in one and the same attempt,
\* never a success remembered from an earlier one.
ReadyIsCurrent ==
  result = "ready" => /\ readyAt = attempts
                      /\ RequireHealth => healthAt = attempts

\* The caller is held at most one attempt (three requests), or one late wake-up,
\* past the deadline.
OvershootIsOneAttempt ==
  Timed => now <= Deadline + 3 * ProbeTime \/ now <= Deadline + Slack

\* The broker is probed no more often than once per interval, as far as the clock
\* is counted.
ProbesAreSpaced == now < Horizon => (attempts - 1) * Interval <= now

\* wait_ready comes back, whatever the broker does, when it has a timeout.
ComesBack == <>(pc = "done")

\* "Poll until success or timeout_sec elapses" (docstring): no other way out
\* before the deadline.
OnlySuccessIsEarly == pc = "done" /\ now < Deadline => result = "ready"

=============================================================================
