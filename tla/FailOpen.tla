------------------------------ MODULE FailOpen ------------------------------
(***************************************************************************)
(* The three helpers an agent calls on every turn and that must never stop *)
(* it: evaluate_policy (policy.py), query_context and context_snippet      *)
(* (context.py), connection_status (status.py).  Whatever becomes of their *)
(* requests they return: allow, an empty snippet, "err".                   *)
(*                                                                         *)
(* The calls of a client share no state here, so one call is modelled; the *)
(* server changes under it.                                                *)
(***************************************************************************)
EXTENDS Naturals, Sequences, SequencesExt, Http

CONSTANTS
  Refs,       \* lineage references that carry at least one field
  Blank,      \* a reference without any
  MaxItems,   \* bound: items in a context answer
  MaxRefs     \* references a snippet shows, 12 in the code

ASSUME FailOpenAssumption ==
  /\ Blank \notin Refs
  /\ MaxItems \in Nat
  /\ MaxRefs \in Nat \ {0}

VARIABLES
  server,   \* external: does it allow the action, is it healthy, is it ready
  kind,     \* "policy", "context" or "status"
  mode,     \* normalised policy mode
  pc,       \* "new", the request under way, "done" or "raised"
  saw,      \* external: what the server saw when it served each request
  answer,   \* what each request came to, "none" before (history)
  body,     \* what the answer to a policy or a context request said (history)
  result

vars == <<server, kind, mode, pc, saw, answer, body, result>>

Probes   == {"health", "ready", "readyz"}
Requests == {"policy", "context"} \cup Probes

-----------------------------------------------------------------------------
(* Policy.                                                                 *)

\* normalize_policy_mode: anything but advisory and enforce is off.
Normalize(m) == IF m \in {"advisory", "enforce"} THEN m ELSE "off"

\* A decision states its verdict in any of three fields; null counts as absent, and
\* "text" is any value but a boolean that bool() takes for true, "false" among them (one
\* that it takes for false, as 0 or "", reads like false).
Field   == {"absent", "true", "false", "text"}
Verdict == [allow : Field, allowed : Field, deny : Field]

Yes(f)   == f \in {"true", "text"}
Plain(v) == "text" \notin {v.allow, v.allowed, v.deny}

\* Slip: deny is not read.
Allows_IgnoresDeny(v) ==
  \/ Yes(v.allow)
  \/ v.allow = "absent" /\ v.allowed # "false"

\* _decision_from_body: allow before allowed before deny, and silence allows.
Allows(v) ==
  \/ Yes(v.allow)
  \/ v.allow = "absent" /\ Yes(v.allowed)
  \/ v.allow = "absent" /\ v.allowed = "absent" /\ ~ Yes(v.deny)

\* The broker (external), when it answers in booleans, does not contradict itself, and
\* says so when it denies; what it means by anything else is not known.
Verdicts(allowing) ==
  {v \in Verdict : ~ Plain(v)} \cup
  IF allowing
    THEN {v \in Verdict : v.allow # "false" /\ v.allowed # "false" /\ v.deny # "true"}
    ELSE {v \in Verdict : /\ v.allow # "true" /\ v.allowed # "true" /\ v.deny # "false"
                          /\ \/ "false" \in {v.allow, v.allowed}
                             \/ v.deny = "true"}

Decision(allow, source) == [allow |-> allow, source |-> source]

\* The decision for what the request came to: JSON that is no object, or no body at
\* all, is the empty decision.
Decided(x, v) ==
  CASE x = "object"           -> Decision(Allows(v), "mesh")
    [] x \in {"odd", "none"}  -> Decision(TRUE, "mesh")
    [] x = "404"              -> Decision(TRUE, "unavailable")
    [] OTHER                  -> Decision(TRUE, "fail-open")

ShouldBlockTool(d, m) == m = "enforce" /\ ~ d.allow /\ d.source = "mesh"

-----------------------------------------------------------------------------
(* Context.                                                                *)

Lineage == BoundedSeq(Refs \cup {Blank}, 1)
Items   == [text : {"", "item"}, lineage : Lineage]
Bodies  == [text : {"", "top"}, lineage : Lineage, items : BoundedSeq(Items, MaxItems)]

NoBody == [text |-> "", lineage |-> << >>, items |-> << >>]

\* _result_from_body: without a text of its own the answer is its items.
ResultFromBody(b) ==
  LET items == IF b.text = "" THEN b.items ELSE << >>
  IN  [text |-> ({b.text} \cup {it.text : it \in ToSet(items)}) \ {""},
       lineage |-> b.lineage \o FlattenSeq([i \in 1..Len(items) |-> items[i].lineage])]

\* The references among the first MaxRefs; a blank one counts, unseen.
Shown(lineage) == {lineage[i] : i \in (1..MaxRefs) \cap DOMAIN lineage} \ {Blank}

\* Slip: the cut is not marked.
FormatSnippet_SilentCut(r) == [text |-> r.text, refs |-> Shown(r.lineage), more |-> FALSE]

\* format_context_snippet: what it shows, in which wording left out.
FormatSnippet(r) ==
  [text |-> r.text, refs |-> Shown(r.lineage), more |-> Len(r.lineage) > MaxRefs]

EmptySnippet == [text |-> {}, refs |-> {}, more |-> FALSE]

Queried(x, b) ==
  LET r == ResultFromBody(IF x = "object" THEN b ELSE NoBody)
  IN  [ok |-> x \in {"object", "odd", "none"}, text |-> r.text, lineage |-> r.lineage]

-----------------------------------------------------------------------------
Init ==
  /\ server \in [allows : BOOLEAN, healthy : BOOLEAN, ready : BOOLEAN]
  /\ kind \in {"policy", "context", "status"}
  /\ mode \in {Normalize(m) : m \in {"", "off", "advisory", "enforce", "other"}}
  /\ pc = "new"
  /\ saw = [q \in Requests |-> "unserved"]
  /\ answer = [q \in Requests |-> "none"]
  /\ body = NoBody
  /\ result = << >>

\* The server changes its mind about the action, breaks down, comes back.
Change ==
  /\ \E x \in DOMAIN server : server' = [server EXCEPT ![x] = ~ @]
  /\ UNCHANGED <<kind, mode, pc, saw, answer, body, result>>

Begin ==
  /\ pc = "new"
  /\ IF kind = "policy" /\ mode = "off"
       THEN pc' = "done" /\ result' = Decision(TRUE, "off")
       ELSE /\ pc' = CASE kind = "policy" -> "policy"
                       [] kind = "context" -> "context"
                       [] kind = "status" -> "health"
            /\ UNCHANGED result
  /\ UNCHANGED <<server, kind, mode, saw, answer, body>>

\* The server handles the request (external).
Serve ==
  /\ pc \in Requests
  /\ saw[pc] = "unserved"
  /\ LET yes == CASE pc = "policy"  -> server.allows
                  [] pc = "context" -> TRUE
                  [] pc = "health"  -> server.healthy
                  [] OTHER          -> server.ready
     IN  saw' = [saw EXCEPT ![pc] = IF yes THEN "yes" ELSE "no"]
  /\ UNCHANGED <<server, kind, mode, pc, answer, body, result>>

\* What the request under way may come to (external): a 2xx only of a server that
\* served it, and of a probe only if it found the server well.
Comes(r) ==
  /\ answer' = [answer EXCEPT ![pc] = r]
  /\ r \in Successes => saw[pc] \in (IF pc = "policy" THEN {"yes", "no"} ELSE {"yes"})
  /\ r = "unsent" => saw[pc] = "unserved"

\* What the except clauses of the three helpers name, in their order: APIError,
\* ClientError, and Exception, which is whatever the request helpers do not wrap.
Caught == Statuses \cup {"ClientError"} \cup {"raw"}
Values == {"object", "odd", "none", "ok"}

End(x, res) ==
  IF x \in Values \cup Caught THEN pc' = "done" /\ result' = res
                              ELSE pc' = "raised" /\ UNCHANGED result

EvaluatePolicy(r) ==
  /\ pc = "policy"
  /\ Comes(r)
  /\ body' \in (IF DoJson(r) = "object" THEN Verdicts(saw["policy"] = "yes") ELSE {NoBody})
  /\ End(DoJson(r), Decided(DoJson(r), body'))
  /\ UNCHANGED <<server, kind, mode, saw>>

QueryContext(r) ==
  /\ pc = "context"
  /\ Comes(r)
  /\ body' \in (IF DoJson(r) = "object" THEN Bodies ELSE {NoBody})
  /\ End(DoJson(r), Queried(DoJson(r), body'))
  /\ UNCHANGED <<server, kind, mode, saw>>

\* connection_status: both probes run, whatever the first one comes to.
ProbeHealth(r) ==
  /\ pc = "health"
  /\ Comes(r)
  /\ IF GetStatus(r) \in Values \cup Caught
       THEN pc' = "ready" /\ result' = [health |-> GetStatus(r) = "ok", ready |-> FALSE]
       ELSE pc' = "raised" /\ UNCHANGED result
  /\ UNCHANGED <<server, kind, mode, saw, body>>

\* Slip: two paths that do not exist are not told from one that answers.
ProbeReady_NoPathIsReady(r) ==
  /\ pc \in {"ready", "readyz"}
  /\ Comes(r)
  /\ IF pc = "ready" /\ GetStatus(r) = "404"
       THEN pc' = "readyz" /\ UNCHANGED result
       ELSE End(GetStatus(r), [result EXCEPT !.ready = GetStatus(r) \in {"ok", "404"}])
  /\ UNCHANGED <<server, kind, mode, saw, body>>

\* ready asks /ready, and /readyz when there is no such path.
ProbeReady(r) ==
  /\ pc \in {"ready", "readyz"}
  /\ Comes(r)
  /\ IF pc = "ready" /\ GetStatus(r) = "404"
       THEN pc' = "readyz" /\ UNCHANGED result
       ELSE End(GetStatus(r), [result EXCEPT !.ready = GetStatus(r) = "ok"])
  /\ UNCHANGED <<server, kind, mode, saw, body>>

Next ==
  \/ Change
  \/ Begin
  \/ Serve
  \/ \E r \in Replies :
       EvaluatePolicy(r) \/ QueryContext(r) \/ ProbeHealth(r) \/ ProbeReady(r)

Spec == Init /\ [][Next]_vars

-----------------------------------------------------------------------------
Ended(k) == pc \in {"done", "raised"} /\ kind = k

\* An agent is stopped, by a block or by an exception of the helper, only where it asked
\* for enforce and an answer came through whole; and where that answer is in booleans,
\* in whichever of its three fields, exactly when the broker denied.  Cut bodies, bytes
\* that are not UTF-8, refusals and timeouts stop nobody.
BlocksIffMeshDenies ==
  Ended("policy") =>
    LET stopped == pc = "raised" \/ ShouldBlockTool(result, mode)
        heard   == mode = "enforce" /\ answer["policy"] = "object"
    IN  /\ stopped => heard
        /\ heard /\ Plain(body) => (stopped <=> saw["policy"] = "no")

\* What a snippet shows is one intact answer of the context plane: its text, or the
\* texts of its items where it has none, and of the lineage of these very parts all,
\* or, where the snippet says that it was cut, some, and no reference from elsewhere.
\* Of a request that failed it shows nothing.
Used(b) == IF b.text # "" THEN {b} ELSE {b} \cup ToSet(b.items)

SnippetIsTraced ==
  Ended("context") =>
    /\ pc = "done"
    /\ LET s    == FormatSnippet(result)
           refs == (UNION {ToSet(part.lineage) : part \in Used(body)}) \ {Blank}
       IN  IF answer["context"] # "object" THEN s = EmptySnippet
           ELSE /\ s.text = {part.text : part \in Used(body)} \ {""}
                /\ s.refs \subseteq refs
                /\ s.more \/ s.refs = refs

\* "ok" means that probes of this call found the server healthy and ready; each probe
\* is made and told of whatever the other one came to.
StatusIsTrue ==
  Ended("status") =>
    /\ pc = "done"
    /\ result.health <=> answer["health"] \in Successes /\ saw["health"] = "yes"
    /\ result.ready <=> \E q \in {"ready", "readyz"} : answer[q] \in Successes /\ saw[q] = "yes"
    /\ "none" \notin {answer["health"], answer["ready"]}

=============================================================================
