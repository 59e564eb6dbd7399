--------------------------- MODULE ResourcesProofs ---------------------------
(***************************************************************************)
(* Resources proved for any number of calls and of writes of others.       *)
(***************************************************************************)
EXTENDS Resources, TLAPS

\* What the request helper makes of a reply: only three replies are values, and a
\* status is passed on as it is.
LEMMA DoJsonOf ==
  ASSUME NEW r \in Replies
  PROVE  /\ DoJson(r) = "object" <=> r = "object"
         /\ DoJson(r) = "odd" <=> r = "odd"
         /\ DoJson(r) = "none" <=> r = "empty"
         /\ DoJson(r) = "409" <=> r = "409"
  BY DEF DoJson, Replies, Statuses, Successes, Refusals

\* The plane of a call that creates is one that can be created.
LEMMA CreatePlane ==
  ASSUME TypeOK, NEW c \in Calls, method[c] = "create"
  PROVE  plane \in {"stream", "bucket", "processor"}
  BY DEF TypeOK, Methods, Planes

\* Initially no call has begun.
LEMMA InitInv == Init => Inv
  <1> SUFFICES ASSUME Init PROVE Inv
    OBVIOUS
  <1> USE DEF Init
  <1>1. TypeOK
    BY DEF TypeOK, Writes
  <1>2. AsksItsOwn /\ SilentUntilDone /\ RunningSees /\ ConflictSawIt /\ AnswersAreTrue
    BY DEF AsksItsOwn, SilentUntilDone, RunningSees, ConflictSawIt, AnswersAreTrue, Asking, Running
  <1>3. InfoWasTrue /\ EnsureSawIt /\ PutIsOwn /\ AbsenceWasTrue
    BY DEF InfoWasTrue, EnsureSawIt, PutIsOwn, AbsenceWasTrue
  <1> QED
    BY <1>1, <1>2, <1>3 DEF Inv

-----------------------------------------------------------------------------
(* The client.                                                             *)

\* How a call may end: what it tells was so at some instant of it.
Tells(c, e, s) ==
  /\ e \in {"info", "nothing", "listed", "raised"}
  /\ s \in Writes \cup {None}
  /\ s # None => s \in seen[c]
  /\ method[c] = "create" /\ e \in {"info", "nothing"} => seen[c] \ {None} # {}
  /\ method[c] = "put" /\ e = "info" => c \in seen[c] /\ s \in {c, None}
  /\ e = "listed" => /\ DoJson(reply[c]) \in Success
                     /\ s = None => None \in seen[c] \/ BroughtNoList(c)
  /\ method[c] = "delete" /\ e = "nothing" => None \in seen[c]

\* A call that ends telling the truth keeps the invariant.
LEMMA EndInv ==
  ASSUME Inv, NEW c \in Calls, NEW e, NEW s, End(c, e, s), Tells(c, e, s),
         UNCHANGED <<plane, method, at, thing, reply, seen>>,
         body' \in {body, [body EXCEPT ![c] = None]}
  PROVE  Inv'
  <1> USE DEF Inv
  <1>1. TypeOK'
    <2>1. body' \in [Calls -> Writes \cup {None}] /\ info' \in [Calls -> Writes \cup {None}]
      BY DEF TypeOK, End, Tells
    <2>2. reply' \in [Calls -> Replies \cup {"none"}]
      BY DEF TypeOK
    <2>3. /\ pc' \in [Calls -> Requests \cup {"new", "answer", "done"}]
          /\ ended' \in [Calls -> {"none", "info", "nothing", "listed", "raised"}]
      BY DEF TypeOK, End, Tells
    <2> QED
      BY <2>1, <2>2, <2>3 DEF TypeOK
  <1>2. /\ pc'[c] = "done" /\ ended'[c] = e /\ info'[c] = s
        /\ \A d \in Calls \ {c} : /\ pc'[d] = pc[d] /\ ended'[d] = ended[d] /\ info'[d] = info[d]
                                  /\ body'[d] = body[d]
    BY DEF TypeOK, End
  <1>3. AsksItsOwn' /\ SilentUntilDone' /\ RunningSees' /\ ConflictSawIt'
    BY <1>2 DEF AsksItsOwn, SilentUntilDone, RunningSees, ConflictSawIt, Asking, Running
  <1>4. AnswersAreTrue'
    BY <1>2 DEF AnswersAreTrue
  <1>5. InfoWasTrue' /\ EnsureSawIt' /\ PutIsOwn' /\ AbsenceWasTrue'
    BY <1>2 DEF InfoWasTrue, EnsureSawIt, PutIsOwn, AbsenceWasTrue, BroughtNoList, Tells
  <1> QED
    BY <1>1, <1>3, <1>4, <1>5

\* An exception tells nothing.
LEMMA RaisingTells == ASSUME NEW c \in Calls PROVE Tells(c, "raised", None)
  BY DEF Tells

\* A call with nothing to ask about raises.
LEMMA InvalidInv == ASSUME Inv, NEW c \in Calls, Invalid(c) PROVE Inv'
  BY EndInv, RaisingTells DEF Invalid, Raise

\* A call begins with what the thing is now.
LEMMA BeginInv == ASSUME Inv, NEW c \in Calls, Begin(c) PROVE Inv'
  <1> USE DEF Inv
  <1>1. /\ pc[c] = "new" /\ UNCHANGED <<plane, method, at, thing, reply, body, ended, info>>
        /\ pc' = [pc EXCEPT ![c] = Request(method[c])]
        /\ seen' = [seen EXCEPT ![c] = {thing}]
    BY DEF Begin, Goto
  <1>2. method[c] \in {"create", "get", "list", "replay", "delete", "put"}
    BY DEF TypeOK, Methods, Planes
  <1>3. Request(method[c]) \in Requests /\ Request(method[c]) \notin {"new", "answer", "done"}
    BY <1>2 DEF Request, Requests
  <1>4. TypeOK'
    BY <1>1, <1>3 DEF TypeOK
  <1>5. /\ pc'[c] = Request(method[c]) /\ seen'[c] = {thing}
        /\ \A d \in Calls \ {c} : pc'[d] = pc[d] /\ seen'[d] = seen[d]
    BY <1>1 DEF TypeOK
  <1>6. AsksItsOwn' /\ SilentUntilDone' /\ RunningSees'
    BY <1>1, <1>3, <1>5 DEF AsksItsOwn, SilentUntilDone, RunningSees, Asking, Running
  <1>7. ConflictSawIt' /\ AnswersAreTrue'
    BY <1>1, <1>3, <1>5 DEF ConflictSawIt, AnswersAreTrue, Asking, Request
  <1>8. ended[c] = "none" /\ info[c] = None
    BY <1>1 DEF SilentUntilDone
  <1>9. InfoWasTrue' /\ EnsureSawIt' /\ PutIsOwn' /\ AbsenceWasTrue'
    BY <1>1, <1>5, <1>8 DEF InfoWasTrue, EnsureSawIt, PutIsOwn, AbsenceWasTrue, BroughtNoList
  <1> QED
    BY <1>4, <1>6, <1>7, <1>9

\* An answer as the invariant has it.
LEMMA AnswerAt ==
  ASSUME Inv, NEW c \in Calls, pc[c] = "answer"
  PROVE  /\ reply[c] \in Replies /\ body[c] \in Writes \cup {None}
         /\ body[c] # None => body[c] \in seen[c]
         /\ at[c] = Request(method[c]) \/ (method[c] = "create" /\ at[c] = "get")
         /\ at[c] \in Requests
  <1>1. reply[c] \in Replies /\ body[c] \in Writes \cup {None} /\ (body[c] # None => body[c] \in seen[c])
    BY DEF Inv, TypeOK, AnswersAreTrue
  <1>2. at[c] \in {"new", "done", Request(method[c])} \/ (method[c] = "create" /\ at[c] = "get")
    BY DEF Inv, AsksItsOwn, Asking
  <1>3. method[c] \in {"create", "get", "list", "replay", "delete", "put"}
    BY DEF Inv, TypeOK, Methods, Planes
  <1>4. at[c] \in Requests \cup {"none"}
    BY DEF Inv, TypeOK
  <1> QED
    BY <1>1, <1>2, <1>3, <1>4 DEF Request, Requests

\* The answer to a POST: the call asks again after the 409 of a stream, or tells of
\* what it has made or seen.
LEMMA PostTells ==
  ASSUME Inv, NEW c \in Calls, pc[c] = "answer", at[c] = "post",
         PostAnswer(c, DoJson(reply[c]))
  PROVE  \/ DoJson(reply[c]) = "409" /\ Goto(c, "get")
         \/ \E e, s : End(c, e, s) /\ Tells(c, e, s)
  <1> DEFINE o == DoJson(reply[c])
  <1>1. method[c] = "create"
    BY AnswerAt DEF Inv, TypeOK, Methods, Planes, Request
  <1>2. /\ o \in Success => c \in seen[c]
        /\ o = "409" => seen[c] \ {None} # {}
        /\ body[c] \in Writes \cup {None} /\ (body[c] # None => body[c] \in seen[c])
    BY AnswerAt DEF Inv, AnswersAreTrue, Success
  <1>3. c \in Writes /\ c # None
    BY ResourcesAssumption DEF Writes
  <1> HIDE DEF o
  <1>4. o \in Success \cup {"409"} =>
          /\ Tells(c, "info", None) /\ Tells(c, "nothing", None) /\ Tells(c, "info", body[c])
          /\ o # "409" => Tells(c, "info", c)
    BY <1>1, <1>2, <1>3 DEF Tells, Success
  <1>5. \/ o = "409" /\ Goto(c, "get")
        \/ \E e \in {"info", "nothing", "raised"}, s \in {c, None, body[c]} :
             End(c, e, s) /\ Tells(c, e, s)
    <2>1. CASE StreamCreated(c, o)
      BY <1>4, <2>1, RaisingTells DEF StreamCreated, Success, Raise
    <2>2. CASE BucketCreated(c, o)
      BY <1>4, <2>2, RaisingTells DEF BucketCreated, Success, Raise
    <2>3. CASE ProcessorRegistered(c, o)
      BY <1>4, <2>3, RaisingTells DEF ProcessorRegistered, Success, Raise
    <2>4. PostAnswer(c, o)
      BY DEF o
    <2> QED
      BY <1>1, <2>1, <2>2, <2>3, <2>4, CreatePlane DEF PostAnswer, Inv
  <1> QED
    BY <1>5 DEF o

\* Any other answer ends its call with what was so.
LEMMA OtherTells ==
  ASSUME Inv, NEW c \in Calls, pc[c] = "answer", NEW o, o = DoJson(reply[c]),
         \/ at[c] = "put" /\ PutAnswer(c, o)
         \/ at[c] = "get" /\ GetAnswer(c, o)
         \/ at[c] = "list" /\ ListAnswer(c, o)
         \/ at[c] = "replay" /\ ReplayAnswer(c, o)
         \/ at[c] = "delete" /\ DeleteAnswer(c, o)
  PROVE  \E e, s : End(c, e, s) /\ Tells(c, e, s)
  <1>1. /\ at[c] = Request(method[c]) \/ (method[c] = "create" /\ at[c] = "get")
        /\ body[c] \in Writes \cup {None} /\ (body[c] # None => body[c] \in seen[c])
    BY AnswerAt
  <1>2. method[c] \in {"create", "get", "list", "replay", "delete", "put"}
    BY DEF Inv, TypeOK, Methods, Planes
  <1>3. /\ o = "object" \/ (o = "odd" /\ at[c] = "list") => body[c] \in seen[c]
        /\ at[c] = "put" /\ o \in Success => c \in seen[c]
        /\ at[c] = "put" /\ o = "object" => body[c] = c
        /\ at[c] = "delete" /\ o \in Success => None \in seen[c]
    BY DEF Inv, AnswersAreTrue
  <1>4. method[c] = "create" => seen[c] \ {None} # {} \/ at[c] = "post"
    BY <1>1, <1>2 DEF Inv, ConflictSawIt, Asking, Request
  <1>5. CASE at[c] = "put" /\ PutAnswer(c, o)
    <2>1. method[c] = "put"
      BY <1>1, <1>2, <1>5 DEF Request
    <2>2. /\ o = "object" => Tells(c, "info", body[c])
          /\ o \in {"none", "odd"} => Tells(c, "info", None)
      BY <1>1, <1>3, <1>5, <2>1 DEF Tells, Success
    <2> QED
      BY <1>5, <2>2, RaisingTells DEF PutAnswer, Raise
  <1>6. CASE at[c] = "get" /\ GetAnswer(c, o)
    <2>1. method[c] \in {"get", "create"} /\ (method[c] = "create" => seen[c] \ {None} # {})
      BY <1>1, <1>2, <1>4, <1>6 DEF Request
    <2>2. /\ o = "object" => Tells(c, "info", body[c])
          /\ Tells(c, "info", None) /\ Tells(c, "nothing", None)
      BY <1>1, <2>1 DEF Tells
    <2> QED
      BY <1>6, <2>2, RaisingTells DEF GetAnswer, GetRaises
  <1>7. CASE at[c] = "list" /\ ListAnswer(c, o)
    <2>1. method[c] = "list"
      BY <1>1, <1>2, <1>7 DEF Request
    <2>2. /\ o \in {"object", "odd"} => Tells(c, "listed", body[c])
          /\ o = "none" \/ (o = "odd" /\ plane = "key") => Tells(c, "listed", None)
      BY <1>1, <1>3, <1>7, <2>1 DEF Tells, Success, BroughtNoList
    <2> QED
      BY <1>7, <2>2, RaisingTells DEF ListAnswer, Raise
  <1>8. CASE at[c] = "replay" /\ ReplayAnswer(c, o)
    <2>1. method[c] = "replay"
      BY <1>1, <1>2, <1>8 DEF Request
    <2>2. /\ o = "object" => Tells(c, "listed", body[c])
          /\ o \in {"none", "odd"} => Tells(c, "listed", None)
      BY <1>1, <1>3, <2>1 DEF Tells, Success, BroughtNoList
    <2> QED
      BY <1>8, <2>2, RaisingTells DEF ReplayAnswer, Raise
  <1>9. CASE at[c] = "delete" /\ DeleteAnswer(c, o)
    <2>1. method[c] = "delete"
      BY <1>1, <1>2, <1>9 DEF Request
    <2>2. o \in {"object", "odd", "none"} => Tells(c, "nothing", None)
      BY <1>1, <1>3, <1>9, <2>1 DEF Tells, Success
    <2> QED
      BY <1>9, <2>2, RaisingTells DEF DeleteAnswer, Raise
  <1> QED
    BY <1>5, <1>6, <1>7, <1>8, <1>9

\* An answer ends its call with the truth, or is the 409 behind which create asks again.
LEMMA AnswerInv == ASSUME Inv, NEW c \in Calls, Answer(c) PROVE Inv'
  <1> DEFINE o == DoJson(reply[c])
  <1>1. /\ pc[c] = "answer" /\ UNCHANGED <<plane, method, at, thing, reply, seen>>
        /\ body' = [body EXCEPT ![c] = None]
    BY DEF Answer
  <1>2. \/ at[c] = "post" /\ PostAnswer(c, o)
        \/ at[c] = "put" /\ PutAnswer(c, o)
        \/ at[c] = "get" /\ GetAnswer(c, o)
        \/ at[c] = "list" /\ ListAnswer(c, o)
        \/ at[c] = "replay" /\ ReplayAnswer(c, o)
        \/ at[c] = "delete" /\ DeleteAnswer(c, o)
    BY <1>1, AnswerAt DEF Answer, Requests
  <1>3. \/ at[c] = "post" /\ o = "409" /\ Goto(c, "get")
        \/ \E e, s : End(c, e, s) /\ Tells(c, e, s)
    BY <1>1, <1>2, PostTells, OtherTells
  <1>4. CASE \E e, s : End(c, e, s) /\ Tells(c, e, s)
    BY <1>1, <1>4, EndInv
  <1>5. CASE at[c] = "post" /\ o = "409" /\ Goto(c, "get")
    <2> USE DEF Inv
    <2>1. method[c] = "create"
      BY <1>1, <1>5, AnswerAt DEF TypeOK, Methods, Planes, Request
    <2>2. seen[c] \ {None} # {}
      BY <1>1, <1>5 DEF AnswersAreTrue
    <2>3. /\ pc'[c] = "get" /\ UNCHANGED <<ended, info>>
          /\ \A d \in Calls \ {c} : pc'[d] = pc[d] /\ body'[d] = body[d]
      BY <1>1, <1>5 DEF Goto, TypeOK
    <2>4. TypeOK'
      BY <1>1, <1>5 DEF TypeOK, Goto, Requests
    <2>5. AsksItsOwn' /\ SilentUntilDone' /\ RunningSees' /\ ConflictSawIt'
      BY <1>1, <2>1, <2>2, <2>3 DEF AsksItsOwn, SilentUntilDone, RunningSees, ConflictSawIt, Asking, Running
    <2>6. AnswersAreTrue'
      BY <1>1, <2>3 DEF AnswersAreTrue
    <2>7. InfoWasTrue' /\ EnsureSawIt' /\ PutIsOwn' /\ AbsenceWasTrue'
      BY <1>1, <2>3 DEF InfoWasTrue, EnsureSawIt, PutIsOwn, AbsenceWasTrue, BroughtNoList
    <2> QED
      BY <2>4, <2>5, <2>6, <2>7
  <1> QED
    BY <1>3, <1>4, <1>5

-----------------------------------------------------------------------------
(* The broker.                                                             *)

\* What the thing is now: every running call sees it, and nothing seen is forgotten.
SeesThing ==
  /\ thing' \in Writes \cup {None}
  /\ seen' \in [Calls -> SUBSET (Writes \cup {None})]
  /\ \A d \in Calls : /\ seen[d] \subseteq seen'[d]
                      /\ Running(d) => thing' \in seen'[d]

\* A write and a step that leaves the thing alone are seen.
LEMMA WriteIsSeen ==
  ASSUME Inv
  PROVE  /\ \A s \in Writes \cup {None} : Becomes(s) => SeesThing /\ thing' = s
         /\ UNCHANGED <<thing, seen>> => SeesThing
  <1>1. TypeOK /\ RunningSees
    BY DEF Inv
  <1>2. ASSUME NEW s \in Writes \cup {None}, Becomes(s) PROVE SeesThing /\ thing' = s
    BY <1>1, <1>2 DEF Becomes, SeesThing, TypeOK
  <1>3. UNCHANGED <<thing, seen>> => SeesThing
    BY <1>1 DEF SeesThing, TypeOK, RunningSees
  <1> QED
    BY <1>2, <1>3

\* Another program's write disturbs no call.
LEMMA ElsewhereInv == ASSUME Inv, Elsewhere PROVE Inv'
  <1> USE DEF Inv
  <1>1. UNCHANGED <<plane, method, pc, at, reply, body, ended, info>>
    BY DEF Elsewhere
  <1>2. SeesThing
    BY WriteIsSeen DEF Elsewhere, Writes
  <1>3. TypeOK' /\ AsksItsOwn' /\ SilentUntilDone' /\ RunningSees' /\ ConflictSawIt'
    BY <1>1, <1>2 DEF TypeOK, AsksItsOwn, SilentUntilDone, RunningSees, ConflictSawIt, SeesThing,
                      Asking, Running
  <1>4. AnswersAreTrue'
    BY <1>1, <1>2 DEF AnswersAreTrue, SeesThing
  <1>5. InfoWasTrue' /\ EnsureSawIt' /\ PutIsOwn' /\ AbsenceWasTrue'
    BY <1>1, <1>2 DEF InfoWasTrue, EnsureSawIt, PutIsOwn, AbsenceWasTrue, BroughtNoList, SeesThing
  <1> QED
    BY <1>3, <1>4, <1>5

\* A request that is replied to with the truth keeps the invariant.
LEMMA RepliedInv ==
  ASSUME Inv, NEW c \in Calls, pc[c] \in Requests, NEW r \in Replies, NEW s \in Writes \cup {None},
         Replied(c, r, s), SeesThing, UNCHANGED <<plane, method, ended, info>>,
         s # None \/ r \in Successes => s \in seen'[c],
         pc[c] \in {"post", "put"} /\ r \in Successes => s = c,
         pc[c] = "post" /\ r = "409" => thing' # None,
         pc[c] = "delete" /\ r \in Successes => None \in seen'[c]
  PROVE  Inv'
  <1> USE DEF Inv
  <1>0. Running(c) /\ pc[c] # "answer"
    BY DEF Running, Requests
  <1>1. /\ pc'[c] = "answer" /\ at'[c] = pc[c] /\ reply'[c] = r /\ reply'[c] # "none"
        /\ body'[c] = IF r = "object" \/ (r = "odd" /\ pc[c] = "list") THEN s ELSE None
    BY DEF Replied, TypeOK, Replies, Statuses, Refusals, Successes
  <1>2. \A d \in Calls \ {c} : /\ pc'[d] = pc[d] /\ at'[d] = at[d]
                               /\ reply'[d] = reply[d] /\ body'[d] = body[d]
    BY DEF Replied, TypeOK
  <1>3. TypeOK'
    <2>1. body' \in [Calls -> Writes \cup {None}]
      BY DEF Replied, TypeOK
    <2>2. at' \in [Calls -> Requests \cup {"none"}] /\ reply' \in [Calls -> Replies \cup {"none"}]
      BY DEF Replied, TypeOK
    <2>3. pc' \in [Calls -> Requests \cup {"new", "answer", "done"}]
      BY DEF Replied, TypeOK
    <2> QED
      BY <2>1, <2>2, <2>3 DEF TypeOK, SeesThing
  <1>4. AsksItsOwn'
    <2>1. \A d \in Calls : Asking(d)' = Asking(d)
      BY <1>0, <1>1, <1>2 DEF Asking
    <2> QED
      BY <2>1 DEF AsksItsOwn
  <1>5. ConflictSawIt'
    <2>1. \A d \in Calls : Asking(d)' = Asking(d)
      BY <1>0, <1>1, <1>2 DEF Asking
    <2> QED
      BY <2>1 DEF ConflictSawIt, SeesThing
  <1>6. SilentUntilDone' /\ RunningSees'
    BY <1>0, <1>1, <1>2 DEF SilentUntilDone, RunningSees, Running, SeesThing
  <1>7. AnswersAreTrue'
    <2> SUFFICES ASSUME NEW d \in Calls, pc'[d] = "answer"
                 PROVE  LET p == DoJson(reply'[d])
                        IN  /\ reply'[d] # "none"
                            /\ body'[d] \in seen'[d] \cup {None}
                            /\ p = "object" \/ (p = "odd" /\ at'[d] = "list") => body'[d] \in seen'[d]
                            /\ at'[d] \in {"post", "put"} /\ p \in Success => d \in seen'[d]
                            /\ at'[d] = "put" /\ p = "object" => body'[d] = d
                            /\ at'[d] = "post" /\ p = "409" => seen'[d] \ {None} # {}
                            /\ at'[d] = "delete" /\ p \in Success => None \in seen'[d]
      BY DEF AnswersAreTrue
    <2>1. CASE d = c
      <3>1. /\ DoJson(r) \in Success => r \in Successes
            /\ DoJson(r) = "object" <=> r = "object"
            /\ DoJson(r) = "odd" <=> r = "odd"
            /\ DoJson(r) = "409" <=> r = "409"
        BY DoJsonOf DEF Success, Successes
      <3>2. "object" \in Successes /\ "odd" \in Successes
        BY DEF Successes
      <3>3. thing' \in seen'[c]
        BY <1>0 DEF SeesThing
      <3> QED
        BY <1>1, <2>1, <3>1, <3>2, <3>3
    <2>2. CASE d # c
      BY <1>2, <2>2 DEF AnswersAreTrue, SeesThing
    <2> QED
      BY <2>1, <2>2
  <1>8. ended[c] = "none"
    BY <1>0 DEF SilentUntilDone, Running
  <1>9. InfoWasTrue' /\ EnsureSawIt' /\ PutIsOwn' /\ AbsenceWasTrue'
    BY <1>2, <1>8 DEF InfoWasTrue, EnsureSawIt, PutIsOwn, AbsenceWasTrue, BroughtNoList, SeesThing
  <1> QED
    BY <1>3, <1>4, <1>5, <1>6, <1>7, <1>9

\* A request that fails, with a 409 only for a thing that is there.
LEMMA FailedInv ==
  ASSUME Inv, NEW c \in Calls, pc[c] \in Requests, NEW causes \in SUBSET {"404", "409"},
         Failed(c, causes), UNCHANGED <<plane, method, ended, info>>,
         pc[c] = "post" /\ "409" \in causes => thing # None
  PROVE  Inv'
  <1>1. PICK r \in causes \cup {"4xx", "5xx", "unread", "unsent", "lost"} : Replied(c, r, None)
    BY DEF Failed
  <1>2. UNCHANGED <<thing, seen>> /\ SeesThing
    BY WriteIsSeen DEF Failed
  <1>3. r \in Replies /\ r \notin Successes
    BY DEF Replies, Statuses, Refusals, Successes
  <1>4. r = "409" => "409" \in causes
    OBVIOUS
  <1>5. None \in Writes \cup {None}
    OBVIOUS
  <1> QED
    BY <1>1, <1>2, <1>3, <1>4, <1>5, RepliedInv

\* A request that is served leaves the thing as s, or tells that it is s.
LEMMA ServedInv ==
  ASSUME Inv, NEW c \in Calls, pc[c] \in Requests, NEW s \in Writes \cup {None}, Served(c, s),
         SeesThing, thing' = s, UNCHANGED <<plane, method, ended, info>>,
         pc[c] \in {"post", "put"} => s = c,
         pc[c] = "delete" => s = None
  PROVE  Inv'
  <1>1. PICK r \in Replies : MayDone(r) /\ Replied(c, r, s)
    BY DEF Served
  <1>2. Running(c)
    BY DEF Running, Requests
  <1>3. s \in seen'[c]
    BY <1>2 DEF SeesThing
  <1>4. r # "409"
    BY <1>1 DEF MayDone, Refusals
  <1> QED
    BY <1>1, <1>3, <1>4, RepliedInv

\* What the broker does with the four kinds of request.
LEMMA BrokerInv ==
  ASSUME Inv, NEW c \in Calls,
         PostServed(c) \/ PutServed(c) \/ ReadServed(c) \/ DeleteServed(c)
  PROVE  Inv'
  <1>0. c \in Writes \cup {None} /\ None \in Writes \cup {None} /\ thing \in Writes \cup {None}
    BY DEF Inv, TypeOK, Writes
  <1>1. CASE PostServed(c)
    <2>1. pc[c] = "post" /\ pc[c] \in Requests /\ UNCHANGED <<plane, method, ended, info>>
      BY <1>1 DEF PostServed, Requests
    <2>2. CASE Becomes(c) /\ Served(c, c)
      BY <1>0, <2>1, <2>2, WriteIsSeen, ServedInv
    <2>3. CASE Failed(c, IF thing = None THEN {} ELSE {"409"})
      <3>1. CASE thing = None
        BY <2>1, <2>3, <3>1, FailedInv
      <3>2. CASE thing # None
        BY <2>1, <2>3, <3>2, FailedInv
      <3> QED
        BY <3>1, <3>2
    <2> QED
      BY <1>1, <2>2, <2>3 DEF PostServed
  <1>2. CASE PutServed(c)
    <2>1. pc[c] = "put" /\ pc[c] \in Requests /\ UNCHANGED <<plane, method, ended, info>>
      BY <1>2 DEF PutServed, Requests
    <2>2. CASE Becomes(c) /\ Served(c, c)
      BY <1>0, <2>1, <2>2, WriteIsSeen, ServedInv
    <2>3. CASE Failed(c, {"404"})
      BY <2>1, <2>3, FailedInv
    <2> QED
      BY <1>2, <2>2, <2>3 DEF PutServed
  <1>3. CASE ReadServed(c)
    <2>1. /\ pc[c] \in {"get", "list", "replay"} /\ pc[c] \in Requests
          /\ UNCHANGED <<plane, method, ended, info>>
      BY <1>3 DEF ReadServed, Requests
    <2>2. CASE Served(c, thing) /\ UNCHANGED <<thing, seen>>
      BY <1>0, <2>1, <2>2, WriteIsSeen, ServedInv
    <2>3. CASE Failed(c, IF thing = None THEN {"404"} ELSE {})
      <3>1. CASE thing = None
        BY <2>1, <2>3, <3>1, FailedInv
      <3>2. CASE thing # None
        BY <2>1, <2>3, <3>2, FailedInv
      <3> QED
        BY <3>1, <3>2
    <2> QED
      BY <1>3, <2>2, <2>3 DEF ReadServed
  <1>4. CASE DeleteServed(c)
    <2>1. pc[c] = "delete" /\ pc[c] \in Requests /\ UNCHANGED <<plane, method, ended, info>>
      BY <1>4 DEF DeleteServed, Requests
    <2>2. CASE Becomes(None) /\ Served(c, None)
      BY <1>0, <2>1, <2>2, WriteIsSeen, ServedInv
    <2>3. CASE Failed(c, IF thing = None THEN {"404"} ELSE {})
      <3>1. CASE thing = None
        BY <2>1, <2>3, <3>1, FailedInv
      <3>2. CASE thing # None
        BY <2>1, <2>3, <3>2, FailedInv
      <3> QED
        BY <3>1, <3>2
    <2> QED
      BY <1>4, <2>2, <2>3 DEF DeleteServed
  <1> QED
    BY <1>1, <1>2, <1>3, <1>4

-----------------------------------------------------------------------------
\* Every step of a call, of the broker or of another program keeps the invariant.
LEMMA InvStep == Inv /\ [Next]_vars => Inv'
  <1> SUFFICES ASSUME Inv, [Next]_vars PROVE Inv'
    OBVIOUS
  <1>1. CASE UNCHANGED vars
    BY <1>1 DEF vars, Inv, TypeOK, AsksItsOwn, Asking, SilentUntilDone, RunningSees, Running,
                ConflictSawIt, AnswersAreTrue, InfoWasTrue, EnsureSawIt, PutIsOwn, AbsenceWasTrue,
                BroughtNoList
  <1> QED
    BY <1>1, InvalidInv, BeginInv, AnswerInv, BrokerInv, ElsewhereInv DEF Next

\* Calls, broker and other programs never leave the invariant.
THEOREM Invariance == Spec => []Inv
  BY InitInv, InvStep, PTL DEF Spec

\* What a call tells of the thing was so at some instant of that call.
THEOREM ToldTheTruth == Spec => []InfoWasTrue
  <1>1. Inv => InfoWasTrue
    BY DEF Inv
  <1> QED
    BY <1>1, Invariance, PTL

\* create, ensure and register return only when the thing was there.
THEOREM EnsuredThing == Spec => []EnsureSawIt
  <1>1. Inv => EnsureSawIt
    BY DEF Inv
  <1> QED
    BY <1>1, Invariance, PTL

\* A put that returns has written, and tells no revision but its own.
THEOREM OwnPut == Spec => []PutIsOwn
  <1>1. Inv => PutIsOwn
    BY DEF Inv
  <1> QED
    BY <1>1, Invariance, PTL

\* A deleted thing was gone at some instant of the call, and so was one that a list
\* leaves out, unless the server's 2xx brought no list: no failed request looks like one.
THEOREM TrulyAbsent == Spec => []AbsenceWasTrue
  <1>1. Inv => AbsenceWasTrue
    BY DEF Inv
  <1> QED
    BY <1>1, Invariance, PTL
=============================================================================
