------------------------------ MODULE Resources ------------------------------
(***************************************************************************)
(* What the client says of a named thing at the broker: a stream           *)
(* (client.py), a KV bucket or a key of one (kv.py), a processor or a live *)
(* view of the registry (liveview.py).  Any number of calls on one name    *)
(* run at once, from this library, and other programs make and drop the    *)
(* thing as well (a live view only they do).                               *)
(* create_stream is the one call that takes two requests: a 409 of its     *)
(* POST makes it ask for the stream with a GET.                            *)
(*                                                                         *)
(* The broker is external: a request takes effect at one instant between   *)
(* its send and its answer, if it takes effect at all.                     *)
(***************************************************************************)
EXTENDS Naturals, Http

CONSTANTS
  Calls,    \* invocations, each of one method
  Other,    \* a write of another program
  None      \* no such thing

ASSUME ResourcesAssumption == Other # None /\ {Other, None} \cap Calls = {}

Planes == {"stream", "bucket", "key", "processor", "view"}

\* create is also ensure_stream, ensure_bucket and register_processor; replay is
\* list_stream_messages.
Methods(p) ==
  CASE p = "stream" -> {"create", "get", "list", "replay", "delete"}
    [] p = "key"    -> {"put", "get", "list", "delete"}
    [] p = "view"   -> {"list"}
    [] OTHER        -> {"create"}

Request(m) == IF m = "create" THEN "post" ELSE m

VARIABLES
  plane,    \* what kind of thing the calls share
  method,   \* which method each call is
  pc,       \* "new", the request to be served, "answer" or "done"
  at,       \* the request a call in "answer" has out
  thing,    \* broker: whose write the thing is (with its configuration, or its
            \* value and revision), or None
  reply,    \* what comes back of the request of a call in "answer"; it stays (history)
  body,     \* the thing described by that reply, or None
  ended,    \* "none", "info", "nothing" (None returned), "listed" or "raised"
  info,     \* the write a call told its caller of, or None (no more than the name, or
            \* a list without the thing)
  seen      \* what the thing was at the instants of the call (history)

vars == <<plane, method, pc, at, thing, reply, body, ended, info, seen>>

Requests == {"post", "put", "get", "list", "replay", "delete"}
Writes   == Calls \cup {Other}

TypeOK ==
  /\ plane \in Planes
  /\ method \in [Calls -> Methods(plane)]
  /\ pc \in [Calls -> Requests \cup {"new", "answer", "done"}]
  /\ at \in [Calls -> Requests \cup {"none"}]
  /\ thing \in Writes \cup {None}
  /\ reply \in [Calls -> Replies \cup {"none"}]
  /\ body \in [Calls -> Writes \cup {None}]
  /\ info \in [Calls -> Writes \cup {None}]
  /\ ended \in [Calls -> {"none", "info", "nothing", "listed", "raised"}]
  /\ seen \in [Calls -> SUBSET (Writes \cup {None})]

Init ==
  /\ plane \in Planes
  /\ method \in [Calls -> Methods(plane)]
  /\ pc = [c \in Calls |-> "new"]
  /\ at = [c \in Calls |-> "none"]
  /\ thing = None
  /\ reply = [c \in Calls |-> "none"]
  /\ body = [c \in Calls |-> None]
  /\ ended = [c \in Calls |-> "none"]
  /\ info = [c \in Calls |-> None]
  /\ seen = [c \in Calls |-> {}]

-----------------------------------------------------------------------------
(* The client.                                                             *)

Goto(c, p) == pc' = [pc EXCEPT ![c] = p] /\ UNCHANGED <<ended, info>>

End(c, e, s) ==
  /\ pc' = [pc EXCEPT ![c] = "done"]
  /\ ended' = [ended EXCEPT ![c] = e]
  /\ info' = [info EXCEPT ![c] = s]

Raise(c) == End(c, "raised", None)

\* An org that is required and missing, no name, no key: nothing is sent.
Invalid(c) ==
  /\ pc[c] = "new"
  /\ Raise(c)
  /\ UNCHANGED <<plane, method, at, thing, reply, body, seen>>

Begin(c) ==
  /\ pc[c] = "new"
  /\ Goto(c, Request(method[c]))
  /\ seen' = [seen EXCEPT ![c] = {thing}]
  /\ UNCHANGED <<plane, method, at, thing, reply, body>>

\* Slip: a ClientError of the POST is swallowed as well.
StreamCreated_Swallows(c, o) ==
  \/ o = "object"      /\ End(c, "info", body[c])
  \/ o = "none"        /\ End(c, "info", c)
  \/ o = "ClientError" /\ End(c, "nothing", None)
  \/ o = "409"         /\ Goto(c, "get")
  \/ o \notin {"object", "none", "409", "ClientError"} /\ Raise(c)

\* Slip: any refusal is taken for a stream that is there.
StreamCreated_AsksOn4xx(c, o) ==
  \/ o = "object"          /\ End(c, "info", body[c])
  \/ o \in {"none", "odd"} /\ End(c, "info", c)
  \/ o \in Refusals        /\ Goto(c, "get")
  \/ o \notin {"object", "none", "odd"} \cup Refusals /\ Raise(c)

\* create_stream.  An empty or falsy body counts as the stream asked for; of other
\* JSON that is no object nothing but the name is told.
StreamCreated(c, o) ==
  \/ o = "object"          /\ End(c, "info", body[c])
  \/ o \in {"none", "odd"} /\ End(c, "info", c)
  \/ o = "odd"             /\ End(c, "info", None)
  \/ o = "409"             /\ Goto(c, "get")
  \/ o \notin {"object", "none", "odd", "409"} /\ Raise(c)

\* Slip: a conflict is answered with the configuration asked for.
BucketCreated_OwnOnConflict(c, o) ==
  \/ o = "object"                 /\ End(c, "info", body[c])
  \/ o \in {"none", "odd", "409"} /\ End(c, "info", c)
  \/ o \notin {"object", "none", "odd", "409"} /\ Raise(c)

\* create_bucket.  Whatever is no object, and a conflict, tells the name only.
BucketCreated(c, o) ==
  \/ o = "object"                 /\ End(c, "info", body[c])
  \/ o \in {"none", "odd", "409"} /\ End(c, "info", None)
  \/ o \notin {"object", "none", "odd", "409"} /\ Raise(c)

\* register_processor.
ProcessorRegistered(c, o) ==
  IF o \in {"object", "none", "odd", "409"} THEN End(c, "nothing", None) ELSE Raise(c)

PostAnswer(c, o) ==
  CASE plane = "stream"    -> StreamCreated(c, o)
    [] plane = "bucket"    -> BucketCreated(c, o)
    [] plane = "processor" -> ProcessorRegistered(c, o)

\* Slip: a revision that the answer leaves out is asked for.
PutAnswer_Asks(c, o) ==
  \/ o = "object"           /\ End(c, "info", body[c])
  \/ o \in {"none", "odd"}  /\ Goto(c, "get")
  \/ o \notin {"object", "none"} /\ Raise(c)

\* put.  No body, or a falsy one, leaves the revision 0 (not known); other JSON that
\* is no object breaks the reading of it, behind a write that is done.
PutAnswer(c, o) ==
  \/ o = "object"           /\ End(c, "info", body[c])
  \/ o \in {"none", "odd"}  /\ End(c, "info", None)
  \/ o \notin {"object", "none"} /\ Raise(c)

\* get_stream raises for an empty or falsy body, get for all that is no object;
\* behind a 409 create_stream swallows APIError and ClientError and returns None.
GetRaises(c, o) ==
  End(c, IF method[c] = "create" /\ o # "raw" THEN "nothing" ELSE "raised", None)

GetAnswer(c, o) ==
  \/ o = "object" /\ End(c, "info", body[c])
  \/ o = "odd" /\ plane = "stream" /\ End(c, "info", None)
  \/ o # "object" /\ GetRaises(c, o)

\* Slip: a list fails open.
ListAnswer_FailsOpen(c, o) ==
  IF o \in {"object", "odd"} THEN End(c, "listed", body[c]) ELSE End(c, "listed", None)

\* list_streams takes an array or an object around one, list_keys only an object,
\* list_live_views only an array.  No body is an empty list, for list_keys an object
\* without the keys too (it counts as odd here).
ListAnswer(c, o) ==
  \/ o = "none"   /\ End(c, "listed", None)
  \/ o = "object" /\ plane # "view" /\ End(c, "listed", body[c])
  \/ o = "odd" /\ plane \in {"stream", "view"} /\ End(c, "listed", body[c])
  \/ o = "odd" /\ plane = "key" /\ End(c, "listed", None)
  \/ o # "none" /\ Raise(c)

\* list_stream_messages takes all that is no object with messages for an empty list.
ReplayAnswer(c, o) ==
  CASE o \in {"none", "odd"} -> End(c, "listed", None)
    [] o = "object"          -> End(c, "listed", body[c])
    [] OTHER                 -> Raise(c)

DeleteAnswer(c, o) ==
  IF o \in {"object", "odd", "none"} THEN End(c, "nothing", None) ELSE Raise(c)

Answer(c) ==
  /\ pc[c] = "answer"
  /\ LET o == DoJson(reply[c])
     IN  CASE at[c] = "post"   -> PostAnswer(c, o)
           [] at[c] = "put"    -> PutAnswer(c, o)
           [] at[c] = "get"    -> GetAnswer(c, o)
           [] at[c] = "list"   -> ListAnswer(c, o)
           [] at[c] = "replay" -> ReplayAnswer(c, o)
           [] at[c] = "delete" -> DeleteAnswer(c, o)
  /\ body' = [body EXCEPT ![c] = None]
  /\ UNCHANGED <<plane, method, at, thing, reply, seen>>

-----------------------------------------------------------------------------
(* The broker.                                                             *)

Running(c) == pc[c] \notin {"new", "done"}

Becomes(s) ==
  /\ thing' = s
  /\ seen' = [c \in Calls |-> IF Running(c) THEN seen[c] \cup {s} ELSE seen[c]]

\* Another program makes the thing, writes it or drops it.
Elsewhere ==
  /\ \E s \in {Other, None} \ {thing} : Becomes(s)
  /\ UNCHANGED <<plane, method, pc, at, reply, body, ended, info>>

Replied(c, r, s) ==
  /\ at' = [at EXCEPT ![c] = pc[c]]
  /\ pc' = [pc EXCEPT ![c] = "answer"]
  /\ reply' = [reply EXCEPT ![c] = r]
  /\ body' = [body EXCEPT ![c] =
                IF r = "object" \/ (r = "odd" /\ pc[c] = "list") THEN s ELSE None]

\* The request is done, and its answer may still be lost on the way back.
Served(c, s) == \E r \in Replies : MayDone(r) /\ Replied(c, r, s)

\* It is refused for cause, or it, or the broker, fails before anything is done.
Failed(c, causes) ==
  /\ \E r \in causes \cup {"4xx", "5xx", "unread", "unsent", "lost"} : Replied(c, r, None)
  /\ UNCHANGED <<thing, seen>>

PostServed(c) ==
  /\ pc[c] = "post"
  /\ \/ thing = None /\ Becomes(c) /\ Served(c, c)
     \/ Failed(c, IF thing = None THEN {} ELSE {"409"})
  /\ UNCHANGED <<plane, method, ended, info>>

\* A put overwrites: it carries no revision it expects.
PutServed(c) ==
  /\ pc[c] = "put"
  /\ \/ Becomes(c) /\ Served(c, c)
     \/ Failed(c, {"404"})
  /\ UNCHANGED <<plane, method, ended, info>>

ReadServed(c) ==
  /\ pc[c] \in {"get", "list", "replay"}
  /\ \/ /\ thing # None \/ pc[c] = "list"
        /\ Served(c, thing)
        /\ UNCHANGED <<thing, seen>>
     \/ Failed(c, IF thing = None THEN {"404"} ELSE {})
  /\ UNCHANGED <<plane, method, ended, info>>

DeleteServed(c) ==
  /\ pc[c] = "delete"
  /\ \/ thing # None /\ Becomes(None) /\ Served(c, None)
     \/ Failed(c, IF thing = None THEN {"404"} ELSE {})
  /\ UNCHANGED <<plane, method, ended, info>>

-----------------------------------------------------------------------------
Next ==
  \/ \E c \in Calls :
       \/ Invalid(c) \/ Begin(c) \/ Answer(c)
       \/ PostServed(c) \/ PutServed(c) \/ ReadServed(c) \/ DeleteServed(c)
  \/ Elsewhere

Spec == Init /\ [][Next]_vars

-----------------------------------------------------------------------------
\* Whatever create, ensure, get, put or a list tells of the thing was true at some
\* instant of that very call: a 409 is not answered with the caller's own wishes,
\* and nothing of the past is described.
InfoWasTrue == \A c \in Calls : info[c] # None => info[c] \in seen[c]

\* When create, ensure or register returns at all, the thing existed at some instant
\* of the call (it may be gone again by then).
EnsureSawIt ==
  \A c \in Calls : method[c] = "create" /\ ended[c] \in {"info", "nothing"} =>
    seen[c] \ {None} # {}

\* A put that returns has written its own value, and a revision it tells is that of
\* its own write, whoever has overwritten it since.
PutIsOwn ==
  \A c \in Calls : method[c] = "put" /\ ended[c] = "info" =>
    c \in seen[c] /\ info[c] \in {c, None}

\* A thing that a list leaves out was really gone at some instant of the call, or the
\* server's 2xx brought no list at all, which the caller cannot tell from an empty one:
\* a refusal, a failure or a body that cannot be read never looks like an empty list.
\* A delete returns only when the thing was gone.
Success == {"object", "odd", "none"}

BroughtNoList(c) ==
  LET o == DoJson(reply[c])
  IN  o = "none" \/ (o = "odd" /\ (plane = "key" \/ method[c] = "replay"))

AbsenceWasTrue ==
  \A c \in Calls :
    /\ ended[c] = "listed" =>
         /\ DoJson(reply[c]) \in Success
         /\ info[c] = None => None \in seen[c] \/ BroughtNoList(c)
    /\ method[c] = "delete" /\ ended[c] = "nothing" => None \in seen[c]

\* The inductive invariant.  A call asks only what its method does, has told nothing
\* before it ends, and has seen what the thing is now while it runs ...
Asking(c) == IF pc[c] = "answer" THEN at[c] ELSE pc[c]

AsksItsOwn ==
  \A c \in Calls :
    \/ Asking(c) \in {"new", "done", Request(method[c])}
    \/ method[c] = "create" /\ Asking(c) = "get"

SilentUntilDone == \A c \in Calls : pc[c] # "done" => ended[c] = "none" /\ info[c] = None

RunningSees == \A c \in Calls : Running(c) => thing \in seen[c]

\* ... create asks again only about a thing it was told exists ...
ConflictSawIt ==
  \A c \in Calls : method[c] = "create" /\ Asking(c) = "get" => seen[c] \ {None} # {}

\* ... and what is on its way back to a call is of an instant of that call.
AnswersAreTrue ==
  \A c \in Calls : pc[c] = "answer" =>
    LET o == DoJson(reply[c])
    IN  /\ reply[c] # "none"
        /\ body[c] \in seen[c] \cup {None}
        /\ o = "object" \/ (o = "odd" /\ at[c] = "list") => body[c] \in seen[c]
        /\ at[c] \in {"post", "put"} /\ o \in Success => c \in seen[c]
        /\ at[c] = "put" /\ o = "object" => body[c] = c
        /\ at[c] = "post" /\ o = "409" => seen[c] \ {None} # {}
        /\ at[c] = "delete" /\ o \in Success => None \in seen[c]

\* Inductive: any number of calls, the broker and other programs keep it, whichever
\* of their steps comes next.
Inv ==
  /\ TypeOK
  /\ AsksItsOwn
  /\ SilentUntilDone
  /\ RunningSees
  /\ ConflictSawIt
  /\ AnswersAreTrue
  /\ InfoWasTrue
  /\ EnsureSawIt
  /\ PutIsOwn
  /\ AbsenceWasTrue
=============================================================================
