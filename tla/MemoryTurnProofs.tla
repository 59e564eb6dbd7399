-------------------------- MODULE MemoryTurnProofs --------------------------
(***************************************************************************)
(* MemoryTurn proved for any number of calls.                              *)
(***************************************************************************)
EXTENDS MemoryTurn, TLAPS

\* What a reply comes to is an outcome, and the refusals of a request are not done.
LEMMA DoJsonOf ==
  ASSUME NEW r \in Replies
  PROVE  /\ DoJson(r) \in {"object", "odd", "none", "404", "409", "4xx", "5xx", "ClientError", "raw"}
         /\ DoJson(r) = "404" => ~ MayDone(r)
         /\ DoJson(r) \in {"object", "odd", "none"} => Done(r)
  BY DEF DoJson, Replies, Statuses, Successes, Refusals, MayDone, Done

\* What publish makes of a reply: an ack only of a request that is done.
LEMMA PublishedOf ==
  ASSUME NEW r \in Replies
  PROVE  /\ Published(r) \subseteq Outcomes \ {"none", "value", "interrupt"}
         /\ "ack" \in Published(r) => Done(r)
  BY DoJsonOf DEF Published, Outcomes

\* What a path makes of a reply: a 404 only of a request that is not done.
LEMMA ReadOf ==
  ASSUME NEW k \in Kinds, NEW r \in Replies, NEW o \in Read(k, r)
  PROVE  /\ o \in {"value", "404", "409", "4xx", "5xx", "ClientError", "raw"}
         /\ o = "404" => ~ MayDone(r)
  BY DoJsonOf DEF Read

\* Initially no call has begun.
LEMMA InitInv == Init => Inv
  <1> SUFFICES ASSUME Init PROVE Inv
    OBVIOUS
  <1> USE DEF Init
  <1>1. TypeOK
    <2>1. stored \in [Calls -> SUBSET Paths] /\ stream \in [Calls -> 0..1]
      OBVIOUS
    <2>2. /\ lastErr \in [Calls -> Outcomes] /\ half \in [Calls -> Outcomes]
          /\ result \in [Calls -> Outcomes]
      BY DEF Outcomes
    <2>3. answers \in [Calls -> [Paths -> Outcomes]]
      BY DEF Outcomes
    <2> QED
      BY <2>1, <2>2, <2>3 DEF TypeOK
  <1>2. BeforeItsTurn /\ SecondBehindFailure
    BY DEF BeforeItsTurn, SecondBehindFailure, Paths
  <1>3. StreamComesFirst /\ AckSurvives /\ RefusalIsFinal /\ TwiceOnlyInDoubt
    BY DEF StreamComesFirst, AckSurvives, RefusalIsFinal, TwiceOnlyInDoubt, Paths
  <1> QED
    BY <1>1, <1>2, <1>3 DEF Inv

\* What the invariant says of one call.
CallInv(c) ==
  /\ pc[c] \in {"new", "publish"} => stream[c] = 0 /\ ~ ack[c]
  /\ pc[c] \in {"new", "publish", "acked", "v1"} => stored[c] = {} /\ answers[c]["v1"] = "none"
  /\ pc[c] \notin {"ended", "done"} => answers[c]["v5"] = "none" /\ "v5" \notin stored[c]
  /\ pc[c] \in {"publish", "acked"} \/ ack[c] => kind[c] \in Duals
  /\ pc[c] \in Paths => kind[c] # "dual"
  /\ pc[c] = "acked" \/ (pc[c] \in Paths /\ kind[c] \in Duals) => ack[c]
  /\ pc[c] = "ended" => kind[c] = "dualsync" /\ ack[c] /\ half[c] # "none"
  /\ pc[c] = "v5" => /\ Falls(answers[c]["v1"])
                     /\ "v1" \in stored[c] => answers[c]["v1"] # "404"
  /\ kind[c] \in Duals => (ack[c] => stream[c] = 1) /\ (stored[c] # {} => ack[c])
  /\ pc[c] = "done" /\ ack[c] =>
       \/ result[c] = "ack" /\ (kind[c] = "dualsync" => half[c] # "none")
       \/ result[c] = "interrupt" /\ (half[c] # "none" \/ HalfNotBegun(c))
  /\ pc[c] \in {"ended", "done"} =>
       \A p \in Paths : answers[c][p] \in {"409", "4xx"} =>
         /\ CascadeResult(c) = answers[c][p]
         /\ p = "v1" => answers[c]["v5"] = "none" /\ "v5" \notin stored[c]
  /\ stored[c] = Paths => answers[c]["v1"] \in {"5xx", "ClientError"}

\* The invariant is the types and what it says of every call.
LEMMA InvOfCalls == Inv <=> TypeOK /\ \A c \in Calls : CallInv(c)
  BY DEF Inv, CallInv, BeforeItsTurn, SecondBehindFailure, StreamComesFirst, AckSurvives,
         RefusalIsFinal, TwiceOnlyInDoubt

\* A step is of one call: what the others have is as it was.
LEMMA OneCall ==
  ASSUME Inv, TypeOK', NEW c \in Calls, CallInv(c)',
         \A d \in Calls \ {c} :
           /\ kind'[d] = kind[d] /\ pc'[d] = pc[d] /\ stream'[d] = stream[d]
           /\ stored'[d] = stored[d] /\ answers'[d] = answers[d] /\ ack'[d] = ack[d]
           /\ half'[d] = half[d] /\ result'[d] = result[d]
  PROVE  Inv'
  <1>1. \A d \in Calls \ {c} : CallInv(d)'
    <2> SUFFICES ASSUME NEW d \in Calls \ {c} PROVE CallInv(d)'
      OBVIOUS
    <2>1. CallInv(d)
      BY InvOfCalls
    <2> QED
      BY <2>1 DEF CallInv, CascadeResult, HalfNotBegun
  <1>2. \A d \in Calls : CallInv(d)'
    BY <1>1
  <1> QED
    BY <1>2 DEF Inv, CallInv, BeforeItsTurn, SecondBehindFailure, StreamComesFirst, AckSurvives,
                RefusalIsFinal, TwiceOnlyInDoubt

\* Ending, going on, and the end of the synchronous half touch one call.
LEMMA EndOf ==
  ASSUME TypeOK, NEW c \in Calls, NEW o \in Outcomes, End(c, o)
  PROVE  /\ pc' \in [Calls -> {"new", "publish", "acked", "v1", "v5", "ended", "done"}]
         /\ result' \in [Calls -> Outcomes] /\ half' \in [Calls -> Outcomes]
         /\ pc'[c] = "done" /\ result'[c] = o /\ half'[c] = half[c]
         /\ \A d \in Calls \ {c} : /\ pc'[d] = pc[d] /\ result'[d] = result[d]
                                   /\ half'[d] = half[d]
  BY DEF TypeOK, End

LEMMA GotoOf ==
  ASSUME TypeOK, NEW c \in Calls, NEW p \in {"publish", "acked", "v1", "v5"}, Goto(c, p)
  PROVE  /\ pc' \in [Calls -> {"new", "publish", "acked", "v1", "v5", "ended", "done"}]
         /\ UNCHANGED <<half, result>> /\ pc'[c] = p
         /\ \A d \in Calls \ {c} : pc'[d] = pc[d]
  BY DEF TypeOK, Goto

LEMMA HalfOverOf ==
  ASSUME TypeOK, NEW c \in Calls, NEW o \in Outcomes, HalfOver(c, o)
  PROVE  /\ pc' \in [Calls -> {"new", "publish", "acked", "v1", "v5", "ended", "done"}]
         /\ half' \in [Calls -> Outcomes] /\ UNCHANGED result
         /\ pc'[c] = "ended" /\ half'[c] = o
         /\ \A d \in Calls \ {c} : pc'[d] = pc[d] /\ half'[d] = half[d]
  BY DEF TypeOK, HalfOver

\* A cascade that is over leaves its outcome where its caller finds it.
LEMMA OverOf ==
  ASSUME TypeOK, NEW c \in Calls, NEW o \in Outcomes \ {"none"}, Over(c, o),
         kind[c] \in {"ingest", "read", "dualsync"}
  PROVE  /\ pc' \in [Calls -> {"new", "publish", "acked", "v1", "v5", "ended", "done"}]
         /\ result' \in [Calls -> Outcomes] /\ half' \in [Calls -> Outcomes]
         /\ \/ /\ kind[c] = "dualsync" /\ pc'[c] = "ended" /\ half'[c] = o
            \/ kind[c] \in {"ingest", "read"} /\ pc'[c] = "done" /\ result'[c] = o
         /\ \A d \in Calls \ {c} : /\ pc'[d] = pc[d] /\ result'[d] = result[d]
                                   /\ half'[d] = half[d]
  <1>1. CASE kind[c] = "dualsync"
    <2>1. HalfOver(c, o)
      BY <1>1 DEF Over
    <2> QED
      BY <1>1, <2>1, HalfOverOf DEF TypeOK
  <1>2. CASE kind[c] # "dualsync"
    <2>1. End(c, o)
      BY <1>2 DEF Over
    <2> QED
      BY <1>2, <2>1, EndOf
  <1> QED
    BY <1>1, <1>2

\* Nothing to ask about: the call ends where it began.
LEMMA InvalidInv == ASSUME Inv, NEW c \in Calls, Invalid(c) PROVE Inv'
  <1>1. TypeOK /\ CallInv(c)
    BY InvOfCalls
  <1>2. /\ pc[c] = "new" /\ End(c, "ClientError") /\ "ClientError" \in Outcomes
        /\ UNCHANGED <<kind, stream, stored, lastErr, answers, ack>>
    BY DEF Invalid, Outcomes
  <1>3. TypeOK'
    BY <1>1, <1>2, EndOf DEF TypeOK
  <1>4. CallInv(c)'
    BY <1>1, <1>2, EndOf DEF CallInv, Paths
  <1> QED
    BY <1>1, <1>2, <1>3, <1>4, EndOf, OneCall

\* A call begins with the stream, if it is a dual write, or with the first path.
LEMMA BeginInv == ASSUME Inv, NEW c \in Calls, Begin(c) PROVE Inv'
  <1>1. TypeOK /\ CallInv(c)
    BY InvOfCalls
  <1>2. pc[c] = "new" /\ UNCHANGED <<kind, stream, stored, lastErr, answers, ack>>
    BY DEF Begin
  <1>3. PICK p \in {"publish", "acked", "v1", "v5"} :
          Goto(c, p) /\ p = IF kind[c] \in Duals THEN "publish" ELSE "v1"
    BY DEF Begin
  <1>4. TypeOK'
    BY <1>1, <1>2, <1>3, GotoOf DEF TypeOK
  <1>5. CallInv(c)'
    BY <1>1, <1>2, <1>3, GotoOf DEF CallInv, Paths, Duals
  <1> QED
    BY <1>1, <1>2, <1>3, <1>4, <1>5, GotoOf, OneCall

\* A dual write with its ack returns it or goes on to the first path.
LEMMA AckedInv == ASSUME Inv, NEW c \in Calls, Acked(c) PROVE Inv'
  <1>1. TypeOK /\ CallInv(c)
    BY InvOfCalls
  <1>2. /\ pc[c] = "acked" /\ kind[c] \in Duals /\ ack[c] /\ "ack" \in Outcomes
        /\ UNCHANGED <<kind, stream, stored, lastErr, answers, ack>>
    BY <1>1 DEF Acked, CallInv, Outcomes
  <1>3. CASE kind[c] = "dual"
    <2>1. End(c, "ack")
      BY <1>3 DEF Acked
    <2>2. TypeOK'
      BY <1>1, <1>2, <2>1, EndOf DEF TypeOK
    <2>3. CallInv(c)'
      BY <1>1, <1>2, <1>3, <2>1, EndOf DEF CallInv, Paths
    <2> QED
      BY <1>1, <1>2, <2>1, <2>2, <2>3, EndOf, OneCall
  <1>4. CASE kind[c] # "dual"
    <2>1. Goto(c, "v1")
      BY <1>4 DEF Acked
    <2>2. TypeOK'
      BY <1>1, <1>2, <2>1, GotoOf DEF TypeOK
    <2>3. CallInv(c)'
      BY <1>1, <1>2, <1>4, <2>1, GotoOf DEF CallInv, Paths
    <2> QED
      BY <1>1, <1>2, <2>1, <2>2, <2>3, GotoOf, OneCall
  <1> QED
    BY <1>3, <1>4

\* Behind its second half a dual write returns the ack.
LEMMA ReturnInv == ASSUME Inv, NEW c \in Calls, Return(c) PROVE Inv'
  <1>1. TypeOK /\ CallInv(c)
    BY InvOfCalls
  <1>2. /\ pc[c] = "ended" /\ End(c, "ack") /\ "ack" \in Outcomes
        /\ kind[c] = "dualsync" /\ ack[c] /\ half[c] # "none"
        /\ UNCHANGED <<kind, stream, stored, lastErr, answers, ack>>
    BY <1>1 DEF Return, CallInv, Outcomes
  <1>3. TypeOK'
    BY <1>1, <1>2, EndOf DEF TypeOK
  <1>4. CallInv(c)'
    BY <1>1, <1>2, EndOf DEF CallInv, Paths, CascadeResult
  <1> QED
    BY <1>1, <1>2, <1>3, <1>4, EndOf, OneCall

\* publish: the turn is in the stream when it is acknowledged.
LEMMA PublishInv == ASSUME Inv, NEW c \in Calls, NEW r \in Replies, Publish(c, r) PROVE Inv'
  <1>1. TypeOK /\ CallInv(c)
    BY InvOfCalls
  <1>2. pc[c] = "publish" /\ UNCHANGED <<kind, stored, lastErr, answers>>
    BY DEF Publish
  <1>3. /\ stream[c] = 0 /\ ~ ack[c] /\ stored[c] = {} /\ kind[c] \in Duals
        /\ answers[c]["v1"] = "none" /\ answers[c]["v5"] = "none"
    BY <1>1, <1>2 DEF CallInv
  <1>4. \/ stream' = [stream EXCEPT ![c] = @ + 1]
        \/ stream' = stream /\ ~ Done(r)
    BY DEF Publish
  <1>5. /\ stream' \in [Calls -> 0..1]
        /\ Done(r) => stream'[c] = 1
        /\ \A d \in Calls \ {c} : stream'[d] = stream[d]
    BY <1>1, <1>3, <1>4 DEF TypeOK
  <1>6. PICK o \in Published(r) :
          /\ ack' = [ack EXCEPT ![c] = o = "ack"]
          /\ IF o = "ack" THEN Goto(c, "acked") ELSE End(c, o)
    BY DEF Publish
  <1>7. o \in Outcomes /\ (o = "ack" => Done(r))
    BY PublishedOf
  <1>8. /\ ack' \in [Calls -> BOOLEAN] /\ (ack'[c] <=> o = "ack")
        /\ \A d \in Calls \ {c} : ack'[d] = ack[d]
    <2>1. (o = "ack") \in BOOLEAN
      OBVIOUS
    <2> QED
      BY <1>1, <1>6, <2>1, Zenon DEF TypeOK
  <1>9. CASE o = "ack"
    <2>1. Goto(c, "acked") /\ stream'[c] = 1 /\ ack'[c]
      BY <1>5, <1>6, <1>7, <1>8, <1>9
    <2>2. TypeOK'
      BY <1>1, <1>2, <1>5, <1>8, <2>1, GotoOf DEF TypeOK
    <2>3. CallInv(c)'
      BY <1>1, <1>2, <1>3, <2>1, GotoOf DEF CallInv, Paths
    <2> QED
      BY <1>1, <1>2, <1>5, <1>8, <2>1, <2>2, <2>3, GotoOf, OneCall
  <1>10. CASE o # "ack"
    <2>1. End(c, o) /\ ~ ack'[c]
      BY <1>6, <1>8, <1>10
    <2>2. TypeOK'
      BY <1>1, <1>2, <1>5, <1>7, <1>8, <2>1, EndOf DEF TypeOK
    <2>3. CallInv(c)'
      BY <1>1, <1>2, <1>3, <1>7, <2>1, EndOf DEF CallInv, Paths
    <2> QED
      BY <1>1, <1>2, <1>5, <1>7, <1>8, <2>1, <2>2, <2>3, EndOf, OneCall
  <1> QED
    BY <1>9, <1>10

\* What a write of the sidecar adds is the path it came by.
LEMMA StoredOf ==
  ASSUME TypeOK, NEW c \in Calls, NEW p \in Paths,
         stored' \in {stored, [stored EXCEPT ![c] = @ \cup {p}]}
  PROVE  /\ stored' \in [Calls -> SUBSET Paths]
         /\ stored[c] \subseteq stored'[c] /\ stored'[c] \subseteq stored[c] \cup {p}
         /\ \A d \in Calls \ {c} : stored'[d] = stored[d]
  BY SMTT(60) DEF TypeOK

\* A path that answers ends its call, or sends it to the other path for a failure.
LEMMA TryInv ==
  ASSUME Inv, NEW c \in Calls, NEW p \in Paths, NEW r \in Replies, Try(c, p, r)
  PROVE  Inv'
  <1>1. TypeOK /\ CallInv(c)
    BY InvOfCalls
  <1>2. pc[c] = p /\ UNCHANGED <<kind, stream, ack>>
    BY DEF Try
  <1>3. /\ stored' \in {stored, [stored EXCEPT ![c] = @ \cup {p}]}
        /\ ~ MayDone(r) => stored' = stored
    BY DEF Try
  <1>4. PICK o \in Read(kind[c], r) :
          /\ answers' = [answers EXCEPT ![c][p] = o]
          /\ lastErr' = IF o \in {"value", "raw"} THEN lastErr ELSE [lastErr EXCEPT ![c] = o]
          /\ IF Falls(o) /\ p = "v1" THEN Goto(c, "v5")
             ELSE Over(c, IF Falls(o) THEN lastErr'[c] ELSE o)
    BY DEF Try
  <1>5. /\ o \in {"value", "404", "409", "4xx", "5xx", "ClientError", "raw"}
        /\ o \in Outcomes \ {"none"}
        /\ o = "404" => ~ MayDone(r)
    BY <1>1, ReadOf DEF TypeOK, Outcomes
  <1>6. /\ stored' \in [Calls -> SUBSET Paths]
        /\ stored[c] \subseteq stored'[c] /\ stored'[c] \subseteq stored[c] \cup {p}
        /\ o = "404" => stored'[c] = stored[c]
        /\ \A d \in Calls \ {c} : stored'[d] = stored[d]
    BY <1>1, <1>3, <1>5, StoredOf
  <1>7. lastErr' \in [Calls -> Outcomes] /\ (Falls(o) => lastErr'[c] = o)
    BY <1>1, <1>4, <1>5 DEF TypeOK, Falls
  <1>8. /\ answers' \in [Calls -> [Paths -> Outcomes]]
        /\ answers'[c][p] = o
        /\ \A q \in Paths \ {p} : answers'[c][q] = answers[c][q]
        /\ \A d \in Calls \ {c} : answers'[d] = answers[d]
    BY <1>1, <1>4, <1>5 DEF TypeOK
  <1>9. p = "v1" \/ p = "v5"
    BY DEF Paths
  <1>10. /\ "v1" \in Paths /\ "v5" \in Paths
         /\ kind[c] \in {"ingest", "read", "dualsync"}
         /\ kind[c] \in Duals => ack[c] /\ stream[c] = 1
         /\ ack[c] => kind[c] \in Duals
    BY <1>1, <1>2 DEF Paths, TypeOK, Kinds, CallInv
  <1>11. CASE Falls(o) /\ p = "v1"
    <2>1. Goto(c, "v5")
      BY <1>4, <1>11
    <2>2. TypeOK'
      BY <1>1, <1>2, <1>6, <1>7, <1>8, <2>1, GotoOf DEF TypeOK
    <2>3. /\ pc'[c] = "v5" /\ answers'[c]["v1"] = o /\ answers'[c]["v5"] = "none"
          /\ stored'[c] \subseteq {"v1"} /\ (o = "404" => stored'[c] = {})
      BY <1>1, <1>2, <1>6, <1>8, <1>10, <1>11, <2>1, GotoOf DEF CallInv
    <2>4. CallInv(c)'
      BY <1>2, <1>10, <1>11, <2>3 DEF CallInv, Falls, Paths
    <2> QED
      BY <1>1, <1>2, <1>6, <1>8, <2>1, <2>2, <2>4, GotoOf, OneCall
  <1>12. CASE ~ (Falls(o) /\ p = "v1")
    <2>1. Over(c, o)
      BY <1>4, <1>7, <1>12
    <2>2. TypeOK'
      BY <1>1, <1>2, <1>5, <1>6, <1>7, <1>8, <1>10, <2>1, OverOf DEF TypeOK
    <2>3. \/ kind[c] = "dualsync" /\ pc'[c] = "ended" /\ half'[c] = o
          \/ kind[c] \in {"ingest", "read"} /\ pc'[c] = "done" /\ result'[c] = o
      BY <1>1, <1>5, <1>10, <2>1, OverOf
    <2>4. pc'[c] \in {"ended", "done"} /\ CascadeResult(c)' = o
      BY <1>2, <2>3 DEF CascadeResult
    <2>5. (pc'[c] = "done" => ~ ack[c]) /\ (pc'[c] = "ended" => half'[c] # "none")
      BY <1>5, <1>10, <2>3 DEF Duals
    <2>6. ASSUME p = "v1" PROVE CallInv(c)'
      <3>1. /\ answers'[c]["v1"] = o /\ answers'[c]["v5"] = "none"
            /\ stored'[c] \subseteq {"v1"}
        BY <1>1, <1>2, <1>6, <1>8, <1>10, <2>6 DEF CallInv
      <3> QED
        BY <1>2, <1>10, <2>3, <2>4, <2>5, <3>1 DEF CallInv, Paths, Duals
    <2>7. ASSUME p = "v5" PROVE CallInv(c)'
      <3>1. /\ answers'[c]["v5"] = o /\ answers'[c]["v1"] = answers[c]["v1"]
            /\ answers[c]["v1"] \in {"404", "5xx", "ClientError"}
            /\ "v1" \in stored'[c] => answers[c]["v1"] \in {"5xx", "ClientError"}
        BY <1>1, <1>2, <1>6, <1>8, <1>10, <2>7 DEF CallInv, Falls
      <3> QED
        BY <1>2, <1>10, <2>3, <2>4, <2>5, <3>1 DEF CallInv, Paths, Duals
    <2> QED
      BY <1>1, <1>2, <1>5, <1>6, <1>8, <1>9, <1>10, <2>1, <2>2, <2>6, <2>7, OverOf, OneCall
  <1> QED
    BY <1>11, <1>12

\* An interrupt ends the call, or its second half: before that half an ack is lost with
\* nothing begun, behind it with the half over.
LEMMA InterruptInv == ASSUME Inv, NEW c \in Calls, Interrupt(c) PROVE Inv'
  <1>1. TypeOK /\ CallInv(c)
    BY InvOfCalls
  <1>2. /\ pc[c] # "done" /\ "interrupt" \in Outcomes \ {"none"}
        /\ IF pc[c] \in Paths THEN Over(c, "interrupt") ELSE End(c, "interrupt")
        /\ UNCHANGED <<kind, lastErr, answers, ack>>
    BY DEF Interrupt, Outcomes
  <1>3. CASE pc[c] \notin {"publish"} \cup Paths
    <2>1. End(c, "interrupt") /\ UNCHANGED <<stream, stored>>
      BY <1>2, <1>3 DEF Interrupt
    <2>2. TypeOK'
      BY <1>1, <1>2, <2>1, EndOf DEF TypeOK
    <2>3. pc[c] \in {"new", "acked", "ended"}
      BY <1>1, <1>2, <1>3 DEF TypeOK, Paths
    <2>4. CallInv(c)'
      <3>1. CASE pc[c] = "ended"
        BY <1>1, <1>2, <2>1, <3>1, EndOf DEF CallInv, Paths, CascadeResult
      <3>2. CASE pc[c] \in {"new", "acked"}
        <4>1. /\ stored'[c] = {} /\ \A p \in Paths : answers'[c][p] = "none"
              /\ pc'[c] = "done" /\ result'[c] = "interrupt"
          BY <1>1, <1>2, <2>1, <3>2, EndOf DEF CallInv, Paths
        <4>2. HalfNotBegun(c)'
          BY <4>1 DEF HalfNotBegun
        <4> QED
          BY <1>1, <1>2, <2>1, <3>2, <4>1, <4>2 DEF CallInv, Paths
      <3> QED
        BY <2>3, <3>1, <3>2
    <2> QED
      BY <1>1, <1>2, <2>1, <2>2, <2>4, EndOf, OneCall
  <1>4. CASE pc[c] = "publish"
    <2>1. /\ stored' = stored /\ End(c, "interrupt")
          /\ stream' \in {stream, [stream EXCEPT ![c] = @ + 1]}
      BY <1>2, <1>4 DEF Interrupt, Paths
    <2>2. /\ stream[c] = 0 /\ ~ ack[c] /\ stored[c] = {}
          /\ answers[c]["v1"] = "none" /\ answers[c]["v5"] = "none"
      BY <1>1, <1>4 DEF CallInv
    <2>3. stream' \in [Calls -> 0..1] /\ \A d \in Calls \ {c} : stream'[d] = stream[d]
      BY <1>1, <2>1, <2>2 DEF TypeOK
    <2>4. TypeOK'
      BY <1>1, <1>2, <2>1, <2>3, EndOf DEF TypeOK
    <2>5. CallInv(c)'
      BY <1>1, <1>2, <2>1, <2>2, EndOf DEF CallInv, Paths
    <2> QED
      BY <1>1, <1>2, <2>1, <2>3, <2>4, <2>5, EndOf, OneCall
  <1>5. CASE pc[c] \in Paths
    <2>1. /\ stream' = stream /\ stored' \in {stored, [stored EXCEPT ![c] = @ \cup {pc[c]}]}
          /\ Over(c, "interrupt")
      BY <1>2, <1>5 DEF Interrupt, Paths
    <2>2. /\ stored' \in [Calls -> SUBSET Paths]
          /\ stored'[c] \subseteq stored[c] \cup {pc[c]}
          /\ \A d \in Calls \ {c} : stored'[d] = stored[d]
      BY <1>1, <1>5, <2>1, StoredOf
    <2>3. /\ kind[c] \in {"ingest", "read", "dualsync"} /\ answers[c]["v5"] = "none"
          /\ kind[c] \in Duals => ack[c] /\ stream[c] = 1
          /\ ack[c] => kind[c] \in Duals
      BY <1>1, <1>5 DEF CallInv, TypeOK, Kinds, Paths
    <2>4. TypeOK'
      BY <1>1, <1>2, <2>1, <2>2, <2>3, OverOf DEF TypeOK
    <2>5. \/ kind[c] = "dualsync" /\ pc'[c] = "ended" /\ half'[c] = "interrupt"
          \/ kind[c] \in {"ingest", "read"} /\ pc'[c] = "done"
      BY <1>1, <1>2, <2>1, <2>3, OverOf
    <2>6. CallInv(c)'
      <3>1. pc[c] = "v1" => answers[c]["v1"] = "none" /\ stored'[c] \subseteq {"v1"}
        BY <1>1, <2>2 DEF CallInv
      <3>2. pc[c] = "v5" =>
              /\ answers[c]["v1"] \in {"404", "5xx", "ClientError"}
              /\ "v1" \in stored'[c] => answers[c]["v1"] \in {"5xx", "ClientError"}
        BY <1>1, <2>2 DEF CallInv, Falls
      <3> QED
        BY <1>2, <1>5, <2>1, <2>3, <2>5, <3>1, <3>2 DEF CallInv, Paths, Duals
    <2> QED
      BY <1>1, <1>2, <2>1, <2>2, <2>3, <2>4, <2>6, OverOf, OneCall
  <1> QED
    BY <1>3, <1>4, <1>5

\* Every step of a call keeps the invariant.
LEMMA InvStep == Inv /\ [Next]_vars => Inv'
  <1> SUFFICES ASSUME Inv, [Next]_vars PROVE Inv'
    OBVIOUS
  <1>1. CASE UNCHANGED vars
    BY <1>1 DEF vars, Inv, TypeOK, BeforeItsTurn, SecondBehindFailure, StreamComesFirst,
                AckSurvives, HalfNotBegun, RefusalIsFinal, CascadeResult, TwiceOnlyInDoubt
  <1> QED
    BY <1>1, InvalidInv, BeginInv, AckedInv, ReturnInv, InterruptInv, PublishInv, TryInv DEF Next

\* No call ever leaves the invariant.
THEOREM Invariance == Spec => []Inv
  BY InitInv, InvStep, PTL DEF Spec

\* A dual write holds an ack only of a turn in the stream, and writes the sidecar after it.
THEOREM StreamFirst == Spec => []StreamComesFirst
  <1>1. Inv => StreamComesFirst
    BY DEF Inv
  <1> QED
    BY <1>1, Invariance, PTL

\* Nothing that happens to the synchronous half takes the ack away, but an interrupt
\* before it has begun or when it is over.
THEOREM AckIsKept == Spec => []AckSurvives
  <1>1. Inv => AckSurvives
    BY DEF Inv
  <1> QED
    BY <1>1, Invariance, PTL

\* What a path refuses is asked of no other path, and the caller sees the refusal.
THEOREM RefusalStands == Spec => []RefusalIsFinal
  <1>1. Inv => RefusalIsFinal
    BY DEF Inv
  <1> QED
    BY <1>1, Invariance, PTL

\* A turn is written by both paths only when the first left it in doubt.
THEOREM NoIdleSecondWrite == Spec => []TwiceOnlyInDoubt
  <1>1. Inv => TwiceOnlyInDoubt
    BY DEF Inv
  <1> QED
    BY <1>1, Invariance, PTL
=============================================================================
