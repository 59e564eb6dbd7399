---------------------------- MODULE KafkaProduce ----------------------------
(***************************************************************************)
(* What one KafkaClient.produce promises to its caller, with no connection,*)
(* no lock and no correlation id: the record is appended to the partition  *)
(* at most once; a call that returns an offset returns the offset of its   *)
(* own record; a call that raises tells nothing, its record may be in the  *)
(* partition already, or arrive later, or never.                           *)
(***************************************************************************)
EXTENDS Naturals, Sequences

CONSTANT Calls          \* the invocations of produce, one element each

VARIABLES log,          \* the partition: the calls whose record it holds
          outcome,      \* "none", "pending", "ok" or "raised", for each call
          offset        \* the offset (1-based) a call returned, 0 before

vars == <<log, outcome, offset>>

Outcomes == {"none", "pending", "ok", "raised"}

Logged == {log[i] : i \in 1..Len(log)}

TypeOK ==
  /\ log \in Seq(Calls)
  /\ outcome \in [Calls -> Outcomes]
  /\ offset \in [Calls -> Nat]

Init ==
  /\ log = << >>
  /\ outcome = [c \in Calls |-> "none"]
  /\ offset = [c \in Calls |-> 0]

Begin(c) ==
  /\ outcome[c] = "none"
  /\ outcome' = [outcome EXCEPT ![c] = "pending"]
  /\ UNCHANGED <<log, offset>>

Land(c) ==
  /\ outcome[c] \in {"pending", "raised"}
  /\ c \notin Logged
  /\ log' = Append(log, c)
  /\ UNCHANGED <<outcome, offset>>

Return(c) ==
  /\ outcome[c] = "pending"
  /\ \E i \in 1..Len(log) :
        /\ log[i] = c
        /\ offset' = [offset EXCEPT ![c] = i]
  /\ outcome' = [outcome EXCEPT ![c] = "ok"]
  /\ UNCHANGED log

Raise(c) ==
  /\ outcome[c] \in {"none", "pending"}
  /\ outcome' = [outcome EXCEPT ![c] = "raised"]
  /\ UNCHANGED <<log, offset>>

Next == \E c \in Calls : Begin(c) \/ Land(c) \/ Return(c) \/ Raise(c)

Spec == Init /\ [][Next]_vars
=============================================================================
