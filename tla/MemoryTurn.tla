----------------------------- MODULE MemoryTurn -----------------------------
(***************************************************************************)
(* memory.py: the requests that try a /v1 path and then a /v5 path of the  *)
(* memory sidecar (ingest, retrieve, related, ops_digest), and             *)
(* dual_write_memory_turn, which publishes the turn to the MEMORY_INGEST   *)
(* stream first and then, when asked, ingests it fail-open.                *)
(*                                                                         *)
(* Every element of Calls is one invocation, from any thread: a Client     *)
(* keeps no state of its own between requests.                             *)
(***************************************************************************)
EXTENDS Naturals, FiniteSets, Http

CONSTANT Calls

\* What a call is: a plain cascade that writes (ingest_memory_turn) or reads (the
\* other three), or a dual write, without and with the synchronous half.
Kinds  == {"ingest", "read", "dual", "dualsync"}
Duals  == {"dual", "dualsync"}
Writes == {"ingest", "dualsync"}
Paths  == {"v1", "v5"}

\* What one request, or a whole call, can come to.
Outcomes == {"none", "value", "ack", "404", "409", "4xx", "5xx", "ClientError", "raw",
             "interrupt"}

VARIABLES
  kind,      \* what each call is
  pc,        \* a request under way ("publish", "v1", "v5"), or "new", "acked" (publish
             \* has returned), "ended" (the synchronous half is over), "done"
  stream,    \* broker: how often each call's turn is in MEMORY_INGEST
  stored,    \* sidecar: the paths through which each call's turn was written
  lastErr,   \* last_err of each call
  answers,   \* what each path answered, "none" before (history)
  ack,       \* dual write: the publish was acknowledged (async_ack)
  half,      \* how the synchronous half ended (out.sync, out.sync_err)
  result     \* what the caller got: a value, its ack, or an exception

vars == <<kind, pc, stream, stored, lastErr, answers, ack, half, result>>

TypeOK ==
  /\ kind \in [Calls -> Kinds]
  /\ pc \in [Calls -> {"new", "publish", "acked", "v1", "v5", "ended", "done"}]
  /\ stream \in [Calls -> 0..1]
  /\ stored \in [Calls -> SUBSET Paths]
  /\ lastErr \in [Calls -> Outcomes]
  /\ half \in [Calls -> Outcomes]
  /\ result \in [Calls -> Outcomes]
  /\ answers \in [Calls -> [Paths -> Outcomes]]
  /\ ack \in [Calls -> BOOLEAN]

Init ==
  /\ kind \in [Calls -> Kinds]
  /\ pc = [c \in Calls |-> "new"]
  /\ stream = [c \in Calls |-> 0]
  /\ stored = [c \in Calls |-> {}]
  /\ lastErr = [c \in Calls |-> "none"]
  /\ answers = [c \in Calls |-> [p \in Paths |-> "none"]]
  /\ ack = [c \in Calls |-> FALSE]
  /\ half = [c \in Calls |-> "none"]
  /\ result = [c \in Calls |-> "none"]

End(c, o) ==
  /\ pc' = [pc EXCEPT ![c] = "done"]
  /\ result' = [result EXCEPT ![c] = o]
  /\ UNCHANGED half

Goto(c, p) == pc' = [pc EXCEPT ![c] = p] /\ UNCHANGED <<half, result>>

HalfOver(c, o) ==
  /\ pc' = [pc EXCEPT ![c] = "ended"]
  /\ half' = [half EXCEPT ![c] = o]
  /\ UNCHANGED result

\* Slip: "except Exception": an interrupt of the synchronous half is raised.
Over_ExceptionOnly(c, o) ==
  IF kind[c] = "dualsync" /\ o # "interrupt" THEN HalfOver(c, o) ELSE End(c, o)

\* The cascade is over, with a value or any exception: dual_write keeps it next to its
\* ack (except BaseException), the other callers get it.
Over(c, o) == IF kind[c] = "dualsync" THEN HalfOver(c, o) ELSE End(c, o)

\* tenant_id, content or query missing: nothing is requested.
Invalid(c) ==
  /\ pc[c] = "new"
  /\ End(c, "ClientError")
  /\ UNCHANGED <<kind, stream, stored, lastErr, answers, ack>>

\* Slip: with the synchronous half asked for, it is all that is done.
Begin_SyncOnly(c) ==
  /\ pc[c] = "new"
  /\ Goto(c, IF kind[c] = "dual" THEN "publish" ELSE "v1")
  /\ UNCHANGED <<kind, stream, stored, lastErr, answers, ack>>

Begin(c) ==
  /\ pc[c] = "new"
  /\ Goto(c, IF kind[c] \in Duals THEN "publish" ELSE "v1")
  /\ UNCHANGED <<kind, stream, stored, lastErr, answers, ack>>

\* The ack is there: the dual write returns it, or enters the try of its second half.
Acked(c) ==
  /\ pc[c] = "acked"
  /\ IF kind[c] = "dual" THEN End(c, "ack") ELSE Goto(c, "v1")
  /\ UNCHANGED <<kind, stream, stored, lastErr, answers, ack>>

\* Its second half is over: it returns both.
Return(c) ==
  /\ pc[c] = "ended"
  /\ End(c, "ack")
  /\ UNCHANGED <<kind, stream, stored, lastErr, answers, ack>>

-----------------------------------------------------------------------------
(* publish_memory_ingest: one POST to the stream.                          *)

\* publish reads fields of the answer: an empty one is an ack (JSON that is false
\* counts as empty), other JSON that is no object has no fields to give, and an
\* object may have a seq that is no number.
Published(r) ==
  CASE DoJson(r) \in {"object", "odd"} -> {"ack", "raw"}
    [] DoJson(r) = "none"             -> {"ack"}
    [] OTHER                          -> {DoJson(r)}

\* Slip: a publish without an answer is sent again.
Publish_Retries(c, r) ==
  /\ pc[c] = "publish"
  /\ \/ MayDone(r) /\ stream' = [stream EXCEPT ![c] = @ + 1]
     \/ ~ Done(r) /\ UNCHANGED stream
  /\ \E o \in Published(r) :
       /\ ack' = [ack EXCEPT ![c] = o = "ack"]
       /\ IF o = "ack" THEN Goto(c, "acked")
          ELSE IF o = "raw" THEN Goto(c, "publish") ELSE End(c, o)
  /\ UNCHANGED <<kind, stored, lastErr, answers>>

Publish(c, r) ==
  /\ pc[c] = "publish"
  /\ \/ MayDone(r) /\ stream' = [stream EXCEPT ![c] = @ + 1]
     \/ ~ Done(r) /\ UNCHANGED stream
  /\ \E o \in Published(r) :
       /\ ack' = [ack EXCEPT ![c] = o = "ack"]
       /\ IF o = "ack" THEN Goto(c, "acked") ELSE End(c, o)
  /\ UNCHANGED <<kind, stored, lastErr, answers>>

-----------------------------------------------------------------------------
(* The cascade.                                                            *)

\* ingest reads fields of the answer; the reading calls take JSON that is no
\* object for an answer without any.  An object may carry a field of the wrong
\* kind (int("x"), float("x")).
Read(k, r) ==
  CASE DoJson(r) = "object" -> {"value", "raw"}
    [] DoJson(r) = "none"   -> {"value"}
    [] DoJson(r) = "odd"    -> IF k = "read" THEN {"value"} ELSE {"value", "raw"}
    [] OTHER                -> {DoJson(r)}

\* Slip: every 4xx goes on to the next path.
Falls_On4xx(o) == o \in {"404", "409", "4xx", "5xx", "ClientError"}

\* Slip: so does every exception.
Falls_OnRaw(o) == o \in {"404", "5xx", "ClientError", "raw"}

\* 404, a 5xx or a ClientError: the next path; every other error ends the call.
Falls(o) == o \in {"404", "5xx", "ClientError"}

Try(c, p, r) ==
  /\ pc[c] = p
  /\ \/ MayDone(r) /\ kind[c] \in Writes /\ stored' = [stored EXCEPT ![c] = @ \cup {p}]
     \/ (~ Done(r) \/ kind[c] \notin Writes) /\ UNCHANGED stored
  /\ \E o \in Read(kind[c], r) :
       /\ answers' = [answers EXCEPT ![c][p] = o]
       /\ lastErr' = IF o \in {"value", "raw"} THEN lastErr ELSE [lastErr EXCEPT ![c] = o]
       /\ IF Falls(o) /\ p = "v1" THEN Goto(c, "v5")
          ELSE Over(c, IF Falls(o) THEN lastErr'[c] ELSE o)
  /\ UNCHANGED <<kind, stream, ack>>

-----------------------------------------------------------------------------
\* KeyboardInterrupt or SystemExit: while a request is under way, before or after the
\* server took it, or before, between and behind the halves of a dual write.  No
\* except clause of the cascade names them.
Interrupt(c) ==
  /\ pc[c] # "done"
  /\ \/ UNCHANGED <<stream, stored>>
     \/ pc[c] = "publish" /\ stream' = [stream EXCEPT ![c] = @ + 1] /\ UNCHANGED stored
     \/ /\ pc[c] \in Paths /\ kind[c] \in Writes
        /\ stored' = [stored EXCEPT ![c] = @ \cup {pc[c]}] /\ UNCHANGED stream
  /\ IF pc[c] \in Paths THEN Over(c, "interrupt") ELSE End(c, "interrupt")
  /\ UNCHANGED <<kind, lastErr, answers, ack>>

Next == \E c \in Calls :
  \/ Invalid(c) \/ Begin(c) \/ Acked(c) \/ Return(c) \/ Interrupt(c)
  \/ \E r \in Replies :
       \/ Publish(c, r)
       \/ \E p \in Paths : Try(c, p, r)

Spec == Init /\ [][Next]_vars

-----------------------------------------------------------------------------
\* dual_write has an ack only of a turn that is in the stream, once, and the sidecar is
\* only ever written for a turn already in it.
StreamComesFirst ==
  \A c \in Calls : kind[c] \in Duals =>
    /\ ack[c] => stream[c] = 1
    /\ stored[c] # {} => ack[c]

\* Of a call that has its ack, no request of the synchronous half has been made yet.
HalfNotBegun(c) == stored[c] = {} /\ \A p \in Paths : answers[c][p] = "none"

\* Nothing that happens to the synchronous half takes the ack away: a caller of
\* dual_write whose turn is acked gets the ack, and how the half ended with it, or an
\* interrupt that came before the half began or when it was over (memory.py 288-293
\* and 300, outside of the try): never an exception from the middle of it.
AckSurvives ==
  \A c \in Calls : pc[c] = "done" /\ ack[c] =>
    \/ result[c] = "ack" /\ (kind[c] = "dualsync" => half[c] # "none")
    \/ result[c] = "interrupt" /\ (half[c] # "none" \/ HalfNotBegun(c))

\* What the cascade of a call ended with.
CascadeResult(c) == IF kind[c] = "dualsync" THEN half[c] ELSE result[c]

\* A refusal (a 4xx that is not 404) is final: no second path is asked to do what
\* the first one forbade, and the cascade ends with the refusal itself.
RefusalIsFinal ==
  \A c \in Calls : pc[c] \in {"ended", "done"} =>
    \A p \in Paths : answers[c][p] \in {"409", "4xx"} =>
      /\ CascadeResult(c) = answers[c][p]
      /\ p = "v1" => answers[c]["v5"] = "none" /\ "v5" \notin stored[c]

\* A turn is written through both paths only when the answer of the first left
\* open whether it had been written; a clear answer is never followed by another
\* write.
TwiceOnlyInDoubt ==
  \A c \in Calls : stored[c] = Paths => answers[c]["v1"] \in {"5xx", "ClientError"}

\* The inductive invariant.  Nothing is sent, written, answered or acked before a call
\* comes to it, and a dual write comes to the sidecar with its ack only ...
BeforeItsTurn ==
  \A c \in Calls :
    /\ pc[c] \in {"new", "publish"} => stream[c] = 0 /\ ~ ack[c]
    /\ pc[c] \in {"new", "publish", "acked", "v1"} =>
         stored[c] = {} /\ answers[c]["v1"] = "none"
    /\ pc[c] \notin {"ended", "done"} => answers[c]["v5"] = "none" /\ "v5" \notin stored[c]
    /\ pc[c] \in {"publish", "acked"} \/ ack[c] => kind[c] \in Duals
    /\ pc[c] \in Paths => kind[c] # "dual"
    /\ pc[c] = "acked" \/ (pc[c] \in Paths /\ kind[c] \in Duals) => ack[c]
    /\ pc[c] = "ended" => kind[c] = "dualsync" /\ ack[c] /\ half[c] # "none"

\* ... and to the second path behind a failure of the first, which has written nothing
\* when it is a 404.
SecondBehindFailure ==
  \A c \in Calls : pc[c] = "v5" =>
    /\ Falls(answers[c]["v1"])
    /\ "v1" \in stored[c] => answers[c]["v1"] # "404"

\* Inductive: every request, refusal and interrupt of every call keeps it.
Inv ==
  /\ TypeOK
  /\ BeforeItsTurn
  /\ SecondBehindFailure
  /\ StreamComesFirst
  /\ AckSurvives
  /\ RefusalIsFinal
  /\ TwiceOnlyInDoubt
=============================================================================
