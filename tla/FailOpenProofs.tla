--------------------------- MODULE FailOpenProofs ---------------------------
(***************************************************************************)
(* The decision, the snippet and the status of FailOpen proved whatever    *)
(* the server does between the requests and however long a context answer  *)
(* is; and a turn, which calls a helper of FailOpen or of Catalog: what is *)
(* proved of each of the two holds in every turn.                          *)
(***************************************************************************)
EXTENDS MCFailOpen, WellFoundedInduction, TLAPS

-----------------------------------------------------------------------------
(* The inductive invariant.                                                *)

TypeOK ==
  /\ kind \in {"policy", "context", "status"}
  /\ mode \in {"off", "advisory", "enforce"}
  /\ pc \in Requests \cup {"new", "done"}
  /\ saw \in [Requests -> {"unserved", "yes", "no"}]
  /\ answer \in [Requests -> Replies \cup {"none"}]

\* Each helper makes its own requests, each of them once and in their order; the
\* answer to a request is the last that is heard of it.
AsksInOrder ==
  /\ pc \in {"policy", "context"} => kind = pc
  /\ pc \in Probes => kind = "status"
  /\ pc \in {"new", "health"} => answer["health"] = "none"
  /\ pc \in {"new", "health", "ready"} => answer["ready"] = "none"
  /\ pc \in {"new", "health", "ready", "readyz"} => answer["readyz"] = "none"
  /\ pc = "readyz" => answer["ready"] = "404"

\* The half of the status that is known is true.
HealthIsTrue ==
  pc \in {"ready", "readyz"} =>
    /\ \E h \in BOOLEAN : result = [health |-> h, ready |-> FALSE]
    /\ result.health <=> answer["health"] \in Successes /\ saw["health"] = "yes"
    /\ answer["health"] # "none"

\* A context call that has returned holds what its answer decodes to.
SnippetIsAnswer ==
  Ended("context") =>
    /\ body \in Bodies
    /\ answer["context"] # "object" => body = NoBody
    /\ result.text = ResultFromBody(body).text
    /\ result.lineage = ResultFromBody(body).lineage

\* Inductive: every reply, and every change of the server before and after it, keeps it.
Inv ==
  /\ TypeOK
  /\ AsksInOrder
  /\ HealthIsTrue
  /\ BlocksIffMeshDenies
  /\ SnippetIsAnswer
  /\ StatusIsTrue

-----------------------------------------------------------------------------
(* Lemmas about the operators.                                             *)

\* Induction over the naturals, as a fact about a set.
LEMMA SetInduction ==
  ASSUME NEW S, 0 \in S, \A n \in Nat : n \in S => n + 1 \in S
  PROVE  Nat \subseteq S
  <1> DEFINE T == Nat \ S
             R == OpToRel(<, Nat)
  <1>1. \A x, y \in Nat : y < x => <<y, x>> \in R
    BY DEF OpToRel
  <1>2. IsWellFoundedOn(R, Nat)
    BY NatLessThanWellFounded
  <1> HIDE DEF R
  <1>3. SUFFICES ASSUME T # {} PROVE FALSE
    OBVIOUS
  <1>4. T \subseteq Nat
    OBVIOUS
  <1> HIDE DEF T
  <1>5. PICK x \in T : \A y \in T : ~ (<<y, x>> \in R)
    BY <1>2, <1>3, <1>4, WFMin
  <1> USE DEF T
  <1>6. x # 0 /\ x \in Nat
    OBVIOUS
  <1>7. x - 1 \in Nat /\ x - 1 < x /\ (x - 1) + 1 = x
    BY <1>6
  <1>8. x - 1 \notin T
    BY <1>1, <1>5, <1>6, <1>7
  <1> QED
    BY <1>7, <1>8

\* f is the recursion of FlattenSeq up to k.
Flattens(f, k, seqs) ==
  \A i \in 1..k : f[i] = IF i = 1 THEN seqs[i] ELSE f[i - 1] \o seqs[i]

\* There is such a function,
LEMMA FlattensExists ==
  ASSUME NEW E, NEW n \in Nat, NEW seqs \in [1..n -> Seq(E)]
  PROVE  \E f \in [1..n -> Seq(E)] : Flattens(f, n, seqs)
  <1> DEFINE S == {k \in Nat : k <= n => \E f \in [1..k -> Seq(E)] : Flattens(f, k, seqs)}
  <1>1. 0 \in S
    <2> DEFINE f == [i \in 1..0 |-> << >>]
    <2>1. f \in [1..0 -> Seq(E)] /\ Flattens(f, 0, seqs)
      BY DEF Flattens
    <2> QED
      BY <2>1
  <1>2. ASSUME NEW k \in Nat, k \in S PROVE k + 1 \in S
    <2> SUFFICES ASSUME k + 1 <= n PROVE \E f \in [1..k+1 -> Seq(E)] : Flattens(f, k + 1, seqs)
      OBVIOUS
    <2>1. PICK g \in [1..k -> Seq(E)] : Flattens(g, k, seqs)
      BY <1>2
    <2> DEFINE last == IF k = 0 THEN seqs[1] ELSE g[k] \o seqs[k + 1]
               f == [i \in 1..k+1 |-> IF i = k + 1 THEN last ELSE g[i]]
    <2>2. last \in Seq(E)
      OBVIOUS
    <2> HIDE DEF last
    <2>3. f \in [1..k+1 -> Seq(E)]
      BY <2>2
    <2>4. ASSUME NEW i \in 1..k+1 PROVE f[i] = IF i = 1 THEN seqs[i] ELSE f[i - 1] \o seqs[i]
      <3>1. CASE i = k + 1
        BY <3>1 DEF last
      <3>2. CASE i \in 1..k
        <4>1. g[i] = IF i = 1 THEN seqs[i] ELSE g[i - 1] \o seqs[i]
          BY <2>1, <3>2 DEF Flattens
        <4>2. f[i] = g[i]
          BY <3>2
        <4>3. CASE i = 1
          BY <4>1, <4>2, <4>3
        <4>4. CASE i # 1
          <5>1. i - 1 \in 1..k+1 /\ i - 1 # k + 1
            BY <3>2, <4>4
          <5>2. f[i - 1] = g[i - 1]
            BY <5>1
          <5> QED
            BY <4>1, <4>2, <4>4, <5>2
        <4> QED
          BY <4>3, <4>4
      <3> QED
        BY <3>1, <3>2
    <2>5. Flattens(f, k + 1, seqs)
      BY <2>4 DEF Flattens
    <2> QED
      BY <2>3, <2>5
  <1>3. n \in S
    <2> HIDE DEF S
    <2> QED
      BY <1>1, <1>2, SetInduction
  <1> QED
    BY <1>3

\* so that FlattenSeq is what its recursion says,
LEMMA FlattenSeqIs ==
  ASSUME NEW E, NEW seqs \in Seq(Seq(E)), seqs # << >>
  PROVE  \E f : Flattens(f, Len(seqs), seqs) /\ FlattenSeq(seqs) = f[Len(seqs)]
  <1> DEFINE n == Len(seqs)
             f[i \in 1..n] == IF i = 1 THEN seqs[i] ELSE f[i - 1] \o seqs[i]
  <1>1. PICK g \in [1..n -> Seq(E)] : g = [i \in 1..n |-> IF i = 1 THEN seqs[i]
          ELSE g[i - 1] \o seqs[i]]
    <2>1. n \in Nat /\ seqs \in [1..n -> Seq(E)]
      OBVIOUS
    <2>2. PICK g \in [1..n -> Seq(E)] : Flattens(g, n, seqs)
      BY <2>1, FlattensExists
    <2>3. g = [i \in 1..n |-> IF i = 1 THEN seqs[i] ELSE g[i - 1] \o seqs[i]]
      BY <2>2 DEF Flattens
    <2> QED
      BY <2>3
  <1>2. f = [i \in 1..n |-> IF i = 1 THEN seqs[i] ELSE f[i - 1] \o seqs[i]]
    BY <1>1
  <1>3. FlattenSeq(seqs) = f[n]
    BY DEF FlattenSeq
  <1> QED
    BY <1>2, <1>3 DEF Flattens

\* A concatenation holds the elements of both its parts and no others.
LEMMA ConcatKeeps ==
  ASSUME NEW E, NEW s \in Seq(E), NEW t \in Seq(E)
  PROVE  ToSet(s \o t) = ToSet(s) \cup ToSet(t)
  <1>1. \A i \in 1..Len(s) : i \in 1..Len(s \o t) /\ (s \o t)[i] = s[i]
    OBVIOUS
  <1>2. \A i \in 1..Len(t) : Len(s) + i \in 1..Len(s \o t) /\ (s \o t)[Len(s) + i] = t[i]
    OBVIOUS
  <1>3. DOMAIN s = 1..Len(s) /\ DOMAIN t = 1..Len(t) /\ DOMAIN (s \o t) = 1..Len(s \o t)
    OBVIOUS
  <1>4. ASSUME NEW e \in ToSet(s) PROVE e \in ToSet(s \o t)
    <2>1. PICK i \in 1..Len(s) : e = s[i]
      BY <1>3 DEF ToSet
    <2>2. i \in DOMAIN (s \o t) /\ e = (s \o t)[i]
      BY <1>1, <1>3, <2>1
    <2> QED
      BY <2>2 DEF ToSet
  <1>5. ASSUME NEW e \in ToSet(t) PROVE e \in ToSet(s \o t)
    <2>1. PICK i \in 1..Len(t) : e = t[i]
      BY <1>3 DEF ToSet
    <2>2. Len(s) + i \in DOMAIN (s \o t) /\ e = (s \o t)[Len(s) + i]
      BY <1>2, <1>3, <2>1
    <2> QED
      BY <2>2 DEF ToSet
  <1>6. ASSUME NEW e \in ToSet(s \o t) PROVE e \in ToSet(s) \cup ToSet(t)
    <2>1. PICK i \in 1..Len(s \o t) : e = (s \o t)[i]
      BY <1>3 DEF ToSet
    <2>2. CASE i \in 1..Len(s)
      <3>1. i \in DOMAIN s /\ e = s[i]
        BY <1>1, <1>3, <2>1, <2>2
      <3> QED
        BY <3>1 DEF ToSet
    <2>3. CASE i \notin 1..Len(s)
      <3>1. i - Len(s) \in 1..Len(t) /\ i = Len(s) + (i - Len(s))
        BY <2>3
      <3>2. i - Len(s) \in DOMAIN t /\ e = t[i - Len(s)]
        BY <1>2, <1>3, <2>1, <3>1
      <3> QED
        BY <3>2 DEF ToSet
    <2> QED
      BY <2>2, <2>3
  <1> QED
    BY <1>4, <1>5, <1>6

\* and a flattened sequence those of all of its sequences and no others.
LEMMA FlattenSeqKeeps ==
  ASSUME NEW E, NEW seqs \in Seq(Seq(E)), seqs # << >>
  PROVE  /\ FlattenSeq(seqs) \in Seq(E)
         /\ ToSet(FlattenSeq(seqs)) = UNION {ToSet(seqs[i]) : i \in 1..Len(seqs)}
  <1>1. PICK f : Flattens(f, Len(seqs), seqs) /\ FlattenSeq(seqs) = f[Len(seqs)]
    BY FlattenSeqIs
  <1> DEFINE Holds(k) == /\ f[k] \in Seq(E)
                         /\ ToSet(f[k]) = UNION {ToSet(seqs[i]) : i \in 1..k}
             S == {k \in Nat : k + 1 <= Len(seqs) => Holds(k + 1)}
  <1>2. 0 \in S
    <2> SUFFICES ASSUME 1 <= Len(seqs) PROVE Holds(1)
      OBVIOUS
    <2>1. f[1] = seqs[1]
      BY <1>1 DEF Flattens
    <2>2. 1..1 = {1}
      OBVIOUS
    <2> QED
      BY <2>1, <2>2
  <1>3. ASSUME NEW k \in Nat, k \in S PROVE k + 1 \in S
    <2>0. (k + 1) + 1 = k + 2
      OBVIOUS
    <2> SUFFICES ASSUME k + 2 <= Len(seqs) PROVE Holds(k + 2)
      BY <2>0
    <2>1. Holds(k + 1)
      BY <1>3
    <2>2. f[k + 2] = f[k + 1] \o seqs[k + 2]
      <3>1. k + 2 \in 1..Len(seqs) /\ k + 2 # 1 /\ (k + 2) - 1 = k + 1
        OBVIOUS
      <3> QED
        BY <1>1, <3>1 DEF Flattens
    <2>3. f[k + 1] \in Seq(E) /\ seqs[k + 2] \in Seq(E)
      BY <2>1
    <2>4. ToSet(f[k + 2]) = ToSet(f[k + 1]) \cup ToSet(seqs[k + 2])
      BY <2>2, <2>3, ConcatKeeps
    <2>5. 1..(k + 2) = 1..(k + 1) \cup {k + 2}
      OBVIOUS
    <2>6. ToSet(f[k + 2]) = UNION {ToSet(seqs[i]) : i \in 1..(k + 2)}
      BY <2>1, <2>4, <2>5
    <2> QED
      BY <2>2, <2>3, <2>6
  <1>4. Len(seqs) - 1 \in S
    <2>1. Len(seqs) - 1 \in Nat
      OBVIOUS
    <2> HIDE DEF S
    <2> QED
      BY <1>2, <1>3, <2>1, SetInduction
  <1> QED
    BY <1>1, <1>4

\* An answer that is no object reads as one that says nothing.
LEMMA NoBodyIsBody == NoBody \in Bodies
  <1>1. \A S : \A n \in Nat : << >> \in BoundedSeq(S, n)
    BY DEF BoundedSeq, SeqOf
  <1> QED
    BY <1>1, FailOpenAssumption DEF NoBody, Bodies, Lineage

\* A sequence of bounded length is a sequence.
LEMMA BoundedSeqIsSeq ==
  ASSUME NEW S, NEW n \in Nat, NEW s \in BoundedSeq(S, n)
  PROVE  s \in Seq(S)
  BY DEF BoundedSeq, SeqOf

\* The lineage of a decoded answer is that of the parts whose text it takes.
LEMMA LineageIsWhole ==
  ASSUME NEW b \in Bodies
  PROVE  /\ ResultFromBody(b).lineage \in Seq(Refs \cup {Blank})
         /\ ToSet(ResultFromBody(b).lineage) = UNION {ToSet(part.lineage) : part \in Used(b)}
  <1> DEFINE E == Refs \cup {Blank}
             items == IF b.text = "" THEN b.items ELSE << >>
             seqs == [i \in 1..Len(items) |-> items[i].lineage]
             flat == FlattenSeq(seqs)
  <1>1. b.items \in Seq(Items) /\ b.lineage \in Seq(E)
    BY BoundedSeqIsSeq, FailOpenAssumption DEF Bodies, Lineage
  <1>2. \A it \in Items : it.lineage \in Seq(E)
    BY BoundedSeqIsSeq DEF Items, Lineage
  <1>3. ResultFromBody(b).lineage = b.lineage \o flat
    BY DEF ResultFromBody
  <1>4. items \in Seq(Items)
    <2>1. CASE b.text = ""
      <3>1. items = b.items
        BY <2>1
      <3> QED
        BY <1>1, <3>1
    <2>2. CASE b.text # ""
      <3>1. items = << >>
        BY <2>2
      <3>2. << >> \in Seq(Items)
        OBVIOUS
      <3> QED
        BY <2>2, <3>1, <3>2
    <2> QED
      BY <2>1, <2>2
  <1>5. b.text = "" => items = b.items
    OBVIOUS
  <1> HIDE DEF E, items
  <1>6. /\ flat \in Seq(E)
        /\ ToSet(flat) = UNION {ToSet(items[i].lineage) : i \in 1..Len(items)}
    <2>1. seqs \in Seq(Seq(E)) /\ Len(seqs) = Len(items)
      <3>1. Len(items) \in Nat /\ \A i \in 1..Len(items) : items[i].lineage \in Seq(E)
        <4>1. Len(items) \in Nat /\ \A i \in 1..Len(items) : items[i] \in Items
          BY <1>4
        <4> QED
          BY <1>2, <4>1
      <3>2. seqs \in [1..Len(items) -> Seq(E)]
        BY <3>1
      <3> QED
        BY <3>1, <3>2
    <2>2. \A i \in 1..Len(items) : seqs[i] = items[i].lineage
      OBVIOUS
    <2> HIDE DEF seqs
    <2>3. CASE seqs = << >>
      <3>1. flat = << >> /\ Len(items) = 0
        BY <2>1, <2>3 DEF FlattenSeq
      <3>2. ToSet(<< >>) = {} /\ 1..0 = {}
        BY DEF ToSet
      <3> QED
        BY <3>1, <3>2
    <2>4. CASE seqs # << >>
      <3>1. ToSet(flat) = UNION {ToSet(seqs[i]) : i \in 1..Len(seqs)} /\ flat \in Seq(E)
        BY <2>1, <2>4, FlattenSeqKeeps
      <3> QED
        BY <2>1, <2>2, <3>1
    <2> QED
      BY <2>3, <2>4
  <1> HIDE DEF flat
  <1>7. /\ ToSet(b.lineage \o flat) = ToSet(b.lineage) \cup ToSet(flat)
        /\ b.lineage \o flat \in Seq(E)
    BY <1>1, <1>6, ConcatKeeps
  <1>8. ToSet(b.lineage) \cup ToSet(flat) = UNION {ToSet(part.lineage) : part \in Used(b)}
    <2>1. CASE b.text # ""
      <3>1. Used(b) = {b} /\ items = << >>
        BY <2>1 DEF Used, items
      <3>2. Len(items) = 0 /\ 1..0 = {}
        BY <3>1
      <3>3. ToSet(flat) = {}
        BY <1>6, <3>2
      <3> QED
        BY <3>1, <3>3
    <2>2. CASE b.text = ""
      <3>1. Used(b) = {b} \cup ToSet(b.items) /\ items = b.items
        BY <1>5, <2>2 DEF Used
      <3>2. DOMAIN items = 1..Len(items)
        BY <1>4
      <3>3. ToSet(b.items) = {items[i] : i \in 1..Len(items)}
        <4>1. ToSet(b.items) = {b.items[i] : i \in DOMAIN b.items}
          BY DEF ToSet
        <4> QED
          BY <3>1, <3>2, <4>1
      <3> QED
        BY <1>6, <3>1, <3>3
    <2> QED
      BY <2>1, <2>2
  <1> QED
    BY <1>3, <1>7, <1>8 DEF E

\* The texts of a decoded answer are those of the same parts.
LEMMA TextIsWhole ==
  ASSUME NEW b \in Bodies
  PROVE  ResultFromBody(b).text = {part.text : part \in Used(b)} \ {""}
  <1>1. CASE b.text = ""
    <2>1. ResultFromBody(b).text = ({b.text} \cup {it.text : it \in ToSet(b.items)}) \ {""}
      BY <1>1 DEF ResultFromBody
    <2>2. Used(b) = {b} \cup ToSet(b.items)
      BY <1>1 DEF Used
    <2> QED
      BY <2>1, <2>2
  <1>2. CASE b.text # ""
    <2>1. ResultFromBody(b).text = ({b.text} \cup {it.text : it \in ToSet(<< >>)}) \ {""}
      BY <1>2 DEF ResultFromBody
    <2>2. ToSet(<< >>) = {}
      BY DEF ToSet
    <2>3. Used(b) = {b}
      BY <1>2 DEF Used
    <2> QED
      BY <2>1, <2>2, <2>3
  <1> QED
    BY <1>1, <1>2

\* Of no answer nothing is shown.
LEMMA EmptyShowsNothing == FormatSnippet(ResultFromBody(NoBody)) = EmptySnippet
  <1> DEFINE seqs == [i \in 1..Len(<< >>) |-> << >>[i].lineage]
  <1>1. NoBody.text = "" /\ NoBody.items = << >> /\ NoBody.lineage = << >>
    BY DEF NoBody
  <1>2. ResultFromBody(NoBody) = [text |-> ({""} \cup {it.text : it \in ToSet(<< >>)}) \ {""},
                                  lineage |-> << >> \o FlattenSeq(seqs)]
    BY <1>1 DEF ResultFromBody
  <1>3. ToSet(<< >>) = {}
    BY DEF ToSet
  <1>4. seqs = << >>
    OBVIOUS
  <1> HIDE DEF seqs
  <1>5. FlattenSeq(seqs) = << >>
    BY <1>4 DEF FlattenSeq
  <1>6. ({""} \cup {it.text : it \in ToSet(<< >>)}) \ {""} = {}
    BY <1>3
  <1>7. << >> \o << >> = << >>
    OBVIOUS
  <1>8. ResultFromBody(NoBody) = [text |-> {}, lineage |-> << >>]
    BY <1>2, <1>5, <1>6, <1>7
  <1>9. Shown(<< >>) = {} /\ (Len(<< >>) > MaxRefs) = FALSE
    BY FailOpenAssumption DEF Shown
  <1>10. FormatSnippet(ResultFromBody(NoBody))
           = [text |-> {}, refs |-> Shown(<< >>), more |-> Len(<< >>) > MaxRefs]
    BY <1>8 DEF FormatSnippet
  <1> QED
    BY <1>9, <1>10, Zenon DEF EmptySnippet

\* A snippet shows no reference that its lineage does not have, and, unless it is marked
\* as cut, all that it has.
LEMMA ShownIsWhole ==
  ASSUME NEW E, NEW lineage \in Seq(E)
  PROVE  /\ Shown(lineage) \subseteq ToSet(lineage) \ {Blank}
         /\ ~ (Len(lineage) > MaxRefs) => Shown(lineage) = ToSet(lineage) \ {Blank}
  <1>1. DOMAIN lineage = 1..Len(lineage) /\ Len(lineage) \in Nat
    OBVIOUS
  <1>2. ~ (Len(lineage) > MaxRefs) => (1..MaxRefs) \cap DOMAIN lineage = DOMAIN lineage
    BY <1>1, FailOpenAssumption
  <1> QED
    BY <1>2 DEF ToSet, Shown

\* What the two request helpers make of a reply.
LEMMA ReplyOf ==
  ASSUME NEW r \in Replies
  PROVE  /\ DoJson(r) = "object" <=> r = "object"
         /\ GetStatus(r) = "ok" <=> r \in Successes
         /\ GetStatus(r) = "404" <=> r = "404"
  BY DEF DoJson, GetStatus, Replies, Statuses, Successes, Refusals

\* Whichever fields the broker states its verdict in, the client reads what it means, if
\* it is stated in booleans.
LEMMA VerdictIsHeard ==
  ASSUME NEW allowing \in BOOLEAN, NEW v \in Verdicts(allowing), Plain(v)
  PROVE  Allows(v) <=> allowing
  <1>1. /\ v.allow \in {"absent", "true", "false"} /\ v.allowed \in {"absent", "true", "false"}
        /\ v.deny \in {"absent", "true", "false"}
    BY DEF Verdicts, Verdict, Field, Plain
  <1>2. CASE allowing
    <2>1. v.allow # "false" /\ v.allowed # "false" /\ v.deny # "true"
      BY <1>2 DEF Verdicts
    <2> QED
      BY <1>1, <1>2, <2>1 DEF Allows, Yes
  <1>3. CASE ~ allowing
    <2>1. /\ v.allow # "true" /\ v.allowed # "true"
          /\ v.allow = "false" \/ v.allowed = "false" \/ v.deny = "true"
      BY <1>3 DEF Verdicts
    <2> QED
      BY <1>1, <1>3, <2>1 DEF Allows, Yes
  <1> QED
    BY <1>2, <1>3

\* Only a verdict that came through whole can block, and only where it is enforced.
LEMMA BlocksOf ==
  ASSUME NEW x, NEW v, NEW m
  PROVE  ShouldBlockTool(Decided(x, v), m) <=> m = "enforce" /\ x = "object" /\ ~ Allows(v)
  BY DEF ShouldBlockTool, Decided, Decision

\* Every exception of a request is caught.
LEMMA EndsIn ==
  ASSUME NEW r \in Replies
  PROVE  /\ \A res : End(DoJson(r), res) => pc' = "done" /\ result' = res
         /\ \A res : End(GetStatus(r), res) => pc' = "done" /\ result' = res
         /\ GetStatus(r) \in Values \cup Caught
  <1>1. DoJson(r) \in Values \cup Caught /\ GetStatus(r) \in Values \cup Caught
    BY DEF DoJson, GetStatus, Values, Caught, Replies, Successes, Statuses, Refusals
  <1> QED
    BY <1>1 DEF End

\* The answer to the request under way joins those heard before.
LEMMA ComesTo ==
  ASSUME TypeOK, pc \in Requests, NEW r \in Replies, Comes(r)
  PROVE  /\ answer' \in [Requests -> Replies \cup {"none"}]
         /\ answer'[pc] = r
         /\ \A q \in Requests \ {pc} : answer'[q] = answer[q]
         /\ r \in Successes /\ pc # "policy" => saw[pc] = "yes"
         /\ r \in Successes => saw[pc] \in {"yes", "no"}
         /\ r # "none"
  BY DEF TypeOK, Comes, Replies, Statuses, Successes, Refusals

\* A probe is a request of its own.
LEMMA ProbesAre ==
  /\ {"health", "ready", "readyz"} \subseteq Requests
  /\ Requests = {"policy", "context", "health", "ready", "readyz"}
  BY DEF Requests, Probes

-----------------------------------------------------------------------------
\* Initially nothing was asked.
LEMMA InitInv == Init => Inv
  <1> SUFFICES ASSUME Init PROVE Inv
    OBVIOUS
  <1> USE DEF Init
  <1>1. TypeOK
    BY DEF TypeOK, Normalize
  <1>2. AsksInOrder
    BY ProbesAre DEF AsksInOrder, Probes
  <1>3. HealthIsTrue /\ BlocksIffMeshDenies /\ SnippetIsAnswer /\ StatusIsTrue
    BY DEF HealthIsTrue, BlocksIffMeshDenies, StatusIsTrue, SnippetIsAnswer, Ended
  <1> QED
    BY <1>1, <1>2, <1>3 DEF Inv

\* The server's changes are seen by the requests it serves and by nothing else.
LEMMA ChangeInv == ASSUME Inv, Change PROVE Inv'
  BY DEF Inv, Change, TypeOK, AsksInOrder, HealthIsTrue, BlocksIffMeshDenies, StatusIsTrue,
         SnippetIsAnswer, Ended

\* A call that asks nothing allows; the others send their first request.
LEMMA BeginInv == ASSUME Inv, Begin PROVE Inv'
  <1> USE DEF Inv
  <1>1. pc = "new" /\ UNCHANGED <<kind, mode, saw, answer>>
    BY DEF Begin
  <1>2. CASE kind = "policy" /\ mode = "off"
    <2>1. pc' = "done" /\ result' = Decision(TRUE, "off")
      BY <1>2 DEF Begin
    <2>2. BlocksIffMeshDenies'
      BY <1>1, <1>2, <2>1 DEF BlocksIffMeshDenies, ShouldBlockTool, Decision
    <2> QED
      BY <1>1, <1>2, <2>1, <2>2 DEF TypeOK, AsksInOrder, HealthIsTrue, StatusIsTrue,
              SnippetIsAnswer, Ended, Probes
  <1>3. CASE ~ (kind = "policy" /\ mode = "off")
    <2>1. \/ kind = "policy" /\ pc' = "policy"
          \/ kind = "context" /\ pc' = "context"
          \/ kind = "status" /\ pc' = "health"
      BY <1>3 DEF Begin, TypeOK
    <2>2. TypeOK'
      BY <1>1, <2>1, ProbesAre DEF TypeOK
    <2>3. AsksInOrder'
      BY <1>1, <2>1 DEF AsksInOrder, Probes
    <2> QED
      BY <2>1, <2>2, <2>3 DEF HealthIsTrue, BlocksIffMeshDenies, StatusIsTrue, SnippetIsAnswer,
              Ended
  <1> QED
    BY <1>2, <1>3

\* The server sees a request once, so what it saw of the others stands.
LEMMA ServeInv == ASSUME Inv, Serve PROVE Inv'
  <1> USE DEF Inv
  <1>1. /\ pc \in Requests /\ saw[pc] = "unserved" /\ UNCHANGED <<kind, mode, pc, answer, result>>
        /\ \E s \in {"yes", "no"} : saw' = [saw EXCEPT ![pc] = s]
    BY DEF Serve
  <1>2. TypeOK'
    BY <1>1 DEF TypeOK
  <1>3. \A q \in Requests \ {pc} : saw'[q] = saw[q]
    BY <1>1 DEF TypeOK
  <1>4. AsksInOrder'
    BY <1>1 DEF AsksInOrder
  <1>5. HealthIsTrue'
    BY <1>1, <1>3, ProbesAre DEF HealthIsTrue
  <1>6. pc' \notin {"done", "raised"}
    BY <1>1, ProbesAre
  <1> QED
    BY <1>2, <1>4, <1>5, <1>6 DEF BlocksIffMeshDenies, StatusIsTrue, SnippetIsAnswer, Ended

\* The decision of a policy request is what the broker that served it meant, or allows.
LEMMA PolicyInv == ASSUME Inv, NEW r \in Replies, EvaluatePolicy(r) PROVE Inv'
  <1> USE DEF Inv
  <1>1. /\ pc = "policy" /\ pc \in Requests /\ kind = "policy" /\ Comes(r)
        /\ UNCHANGED <<kind, mode, saw>>
    BY ProbesAre DEF EvaluatePolicy, AsksInOrder
  <1>2. /\ End(DoJson(r), Decided(DoJson(r), body'))
        /\ r = "object" => body' \in Verdicts(saw["policy"] = "yes")
    BY ReplyOf DEF EvaluatePolicy
  <1>3. pc' = "done" /\ result' = Decided(DoJson(r), body')
    BY <1>2, EndsIn
  <1>4. /\ answer' \in [Requests -> Replies \cup {"none"}] /\ answer'["policy"] = r
        /\ r \in Successes => saw["policy"] \in {"yes", "no"}
    BY <1>1, ComesTo
  <1>5. r = "object" /\ Plain(body') => (Allows(body') <=> saw["policy"] = "yes")
    BY <1>2, VerdictIsHeard
  <1>6. ShouldBlockTool(result', mode) <=> mode = "enforce" /\ r = "object" /\ ~ Allows(body')
    BY <1>3, BlocksOf, ReplyOf
  <1>7. r = "object" /\ Plain(body') => (saw["policy"] = "no" <=> ~ Allows(body'))
    BY <1>4, <1>5 DEF Successes
  <1>8. BlocksIffMeshDenies'
    BY <1>1, <1>3, <1>4, <1>6, <1>7 DEF BlocksIffMeshDenies
  <1> QED
    BY <1>1, <1>3, <1>4, <1>8 DEF TypeOK, AsksInOrder, HealthIsTrue, StatusIsTrue,
            SnippetIsAnswer, Ended, Probes

\* A context query ends in what its answer decodes to.
LEMMA ContextInv == ASSUME Inv, NEW r \in Replies, QueryContext(r) PROVE Inv'
  <1> USE DEF Inv
  <1>1. /\ pc = "context" /\ pc \in Requests /\ kind = "context" /\ Comes(r)
        /\ UNCHANGED <<kind, mode, saw>>
    BY ProbesAre DEF QueryContext, AsksInOrder
  <1>2. pc' = "done" /\ result' = Queried(DoJson(r), body')
    BY EndsIn DEF QueryContext
  <1>3. answer' \in [Requests -> Replies \cup {"none"}] /\ answer'["context"] = r
    BY <1>1, ComesTo
  <1>4. body' \in Bodies /\ (r # "object" => body' = NoBody)
    BY NoBodyIsBody, ReplyOf DEF QueryContext
  <1>5. result'.text = ResultFromBody(body').text /\ result'.lineage = ResultFromBody(body').lineage
    BY <1>2, <1>4, ReplyOf DEF Queried
  <1>6. SnippetIsAnswer'
    BY <1>3, <1>4, <1>5 DEF SnippetIsAnswer
  <1> QED
    BY <1>1, <1>2, <1>3, <1>6
    DEF TypeOK, AsksInOrder, HealthIsTrue, BlocksIffMeshDenies, StatusIsTrue, Ended, Probes

\* The first probe tells one half of the status.
LEMMA HealthInv == ASSUME Inv, NEW r \in Replies, ProbeHealth(r) PROVE Inv'
  <1> USE DEF Inv
  <1>1. /\ pc = "health" /\ pc \in Requests /\ kind = "status" /\ Comes(r)
        /\ UNCHANGED <<kind, mode, saw>>
        /\ answer["ready"] = "none" /\ answer["readyz"] = "none"
    BY ProbesAre DEF ProbeHealth, AsksInOrder, Probes
  <1>2. pc' = "ready" /\ result' = [health |-> GetStatus(r) = "ok", ready |-> FALSE]
    BY EndsIn DEF ProbeHealth
  <1>3. /\ answer' \in [Requests -> Replies \cup {"none"}] /\ answer'["health"] = r
        /\ answer'["ready"] = "none" /\ answer'["readyz"] = "none" /\ r # "none"
        /\ r \in Successes => saw["health"] = "yes"
    BY <1>1, ComesTo, ProbesAre
  <1>4. TypeOK'
    BY <1>1, <1>2, <1>3, ProbesAre DEF TypeOK
  <1>5. AsksInOrder'
    BY <1>1, <1>2, <1>3 DEF AsksInOrder
  <1>6. (GetStatus(r) = "ok") \in BOOLEAN /\ (GetStatus(r) = "ok" <=> r \in Successes)
    BY ReplyOf
  <1>7. HealthIsTrue'
    BY <1>1, <1>2, <1>3, <1>6 DEF HealthIsTrue
  <1> QED
    BY <1>2, <1>4, <1>5, <1>7 DEF BlocksIffMeshDenies, StatusIsTrue, SnippetIsAnswer, Ended

\* The second probe, over one path or two, tells the other half, and the first stands.
LEMMA ReadyInv == ASSUME Inv, NEW r \in Replies, ProbeReady(r) PROVE Inv'
  <1> USE DEF Inv
  <1>1. /\ pc \in {"ready", "readyz"} /\ pc \in Requests /\ kind = "status" /\ Comes(r)
        /\ UNCHANGED <<kind, mode, saw>>
        /\ answer["readyz"] = "none"
        /\ pc = "ready" => answer["ready"] = "none"
        /\ pc = "readyz" => answer["ready"] = "404"
    BY ProbesAre DEF ProbeReady, AsksInOrder, Probes
  <1>2. /\ answer' \in [Requests -> Replies \cup {"none"}] /\ answer'[pc] = r /\ r # "none"
        /\ \A q \in Requests \ {pc} : answer'[q] = answer[q]
        /\ r \in Successes => saw[pc] = "yes"
    BY <1>1, ComesTo
  <1>3. answer'["health"] = answer["health"]
    BY <1>1, <1>2, ProbesAre
  <1>4. PICK h \in BOOLEAN : result = [health |-> h, ready |-> FALSE]
    BY <1>1 DEF HealthIsTrue
  <1>5. /\ h <=> answer["health"] \in Successes /\ saw["health"] = "yes"
        /\ answer["health"] # "none"
    BY <1>1, <1>4 DEF HealthIsTrue
  <1>6. CASE pc = "ready" /\ GetStatus(r) = "404"
    <2>1. pc' = "readyz" /\ result' = result
      BY <1>6 DEF ProbeReady
    <2>2. answer'["ready"] = "404" /\ answer'["readyz"] = "none"
      BY <1>1, <1>2, <1>6, ReplyOf, ProbesAre
    <2>3. TypeOK'
      BY <1>1, <1>2, <2>1, ProbesAre DEF TypeOK
    <2>4. AsksInOrder'
      BY <1>1, <2>1, <2>2 DEF AsksInOrder
    <2>5. HealthIsTrue'
      BY <1>1, <1>3, <1>4, <1>5, <2>1 DEF HealthIsTrue
    <2> QED
      BY <2>1, <2>3, <2>4, <2>5 DEF BlocksIffMeshDenies, StatusIsTrue, SnippetIsAnswer, Ended
  <1>7. CASE ~ (pc = "ready" /\ GetStatus(r) = "404")
    <2>1. pc' = "done" /\ result' = [result EXCEPT !.ready = GetStatus(r) = "ok"]
      BY <1>7, EndsIn DEF ProbeReady
    <2>2. result'.health = h /\ result'.ready = (GetStatus(r) = "ok")
      BY <1>4, <2>1
    <2>3. /\ GetStatus(r) = "ok" <=>
               \E q \in {"ready", "readyz"} : answer'[q] \in Successes /\ saw[q] = "yes"
          /\ answer'["ready"] # "none"
      <3>1. "404" \notin Successes /\ "none" \notin Successes
        BY DEF Successes
      <3>2. CASE pc = "ready"
        <4>1. answer'["ready"] = r /\ answer'["readyz"] = "none"
          BY <1>1, <1>2, <3>2, ProbesAre
        <4> QED
          BY <1>2, <3>1, <3>2, <4>1, ReplyOf
      <3>3. CASE pc = "readyz"
        <4>1. answer'["ready"] = "404" /\ answer'["readyz"] = r
          BY <1>1, <1>2, <3>3, ProbesAre
        <4> QED
          BY <1>2, <3>1, <3>3, <4>1, ReplyOf
      <3> QED
        BY <1>1, <3>2, <3>3
    <2>4. StatusIsTrue'
      BY <1>1, <1>3, <1>5, <2>1, <2>2, <2>3 DEF StatusIsTrue
    <2>5. TypeOK'
      BY <1>1, <1>2, <2>1 DEF TypeOK
    <2> QED
      BY <1>1, <2>1, <2>4, <2>5 DEF AsksInOrder, HealthIsTrue, BlocksIffMeshDenies, SnippetIsAnswer,
             Ended, Probes
  <1> QED
    BY <1>6, <1>7

\* Every step of the client and of the server keeps the invariant.
LEMMA InvStep == Inv /\ [Next]_vars => Inv'
  <1> SUFFICES ASSUME Inv, [Next]_vars PROVE Inv'
    OBVIOUS
  <1>1. CASE UNCHANGED vars
    BY <1>1 DEF vars, Inv, TypeOK, AsksInOrder, HealthIsTrue, BlocksIffMeshDenies, StatusIsTrue,
                SnippetIsAnswer, Ended
  <1> QED
    BY <1>1, ChangeInv, BeginInv, ServeInv, PolicyInv, ContextInv, HealthInv, ReadyInv DEF Next

-----------------------------------------------------------------------------
\* A helper never leaves the invariant.
THEOREM Invariance == Spec => []Inv
  BY InitInv, InvStep, PTL DEF Spec

\* An intact answer is shown with the lineage of its text and no other, or is marked as cut.
LEMMA InvTraces == Inv => SnippetIsTraced
  <1> SUFFICES ASSUME Inv, Ended("context") PROVE SnippetIsTraced
    BY DEF SnippetIsTraced
  <1>1. /\ body \in Bodies
        /\ answer["context"] # "object" => body = NoBody
        /\ result.text = ResultFromBody(body).text
        /\ result.lineage = ResultFromBody(body).lineage
    BY DEF Inv, SnippetIsAnswer
  <1> DEFINE s    == FormatSnippet(result)
             refs == (UNION {ToSet(part.lineage) : part \in Used(body)}) \ {Blank}
  <1>2. ASSUME answer["context"] # "object" PROVE s = EmptySnippet
    BY <1>1, <1>2, EmptyShowsNothing DEF FormatSnippet
  <1>3. s.text = {part.text : part \in Used(body)} \ {""}
    BY <1>1, TextIsWhole DEF FormatSnippet
  <1>4. s.refs \subseteq refs /\ (s.more \/ s.refs = refs)
    <2>1. s.refs = Shown(result.lineage) /\ s.more = (Len(result.lineage) > MaxRefs)
      BY DEF FormatSnippet
    <2>2. /\ result.lineage \in Seq(Refs \cup {Blank})
          /\ ToSet(result.lineage) \ {Blank} = refs
      BY <1>1, LineageIsWhole
    <2>3. /\ Shown(result.lineage) \subseteq refs
          /\ ~ (Len(result.lineage) > MaxRefs) => Shown(result.lineage) = refs
      BY <2>2, ShownIsWhole
    <2> QED
      BY <2>1, <2>3
  <1>5. pc = "done"
    BY ProbesAre DEF Inv, TypeOK, Ended
  <1> QED
    BY <1>2, <1>3, <1>4, <1>5 DEF SnippetIsTraced

\* The invariant is what the helpers promise.
LEMMA InvPromises == Inv => BlocksIffMeshDenies /\ SnippetIsTraced /\ StatusIsTrue
  BY InvTraces DEF Inv

\* An agent is stopped only where it asked for enforce and an answer came through, and by
\* an answer in booleans exactly when the broker denied.
THEOREM BlocksOnDenial == Spec => []BlocksIffMeshDenies
  BY InvPromises, Invariance, PTL

\* A snippet is one intact answer with the lineage of its text and no other, all of it
\* unless it says that it was cut.
THEOREM TracedSnippet == Spec => []SnippetIsTraced
  BY InvPromises, Invariance, PTL

\* "ok" is what the probes of this call found.
THEOREM TrueStatus == Spec => []StatusIsTrue
  BY InvPromises, Invariance, PTL

-----------------------------------------------------------------------------
(* The catalog, whose variables are those of the turn.                     *)

\* The paths are asked in their order, and one is asked only behind paths that had
\* nothing to give.
AskedBefore(seq) == {seq[i] : i \in 1..(next - 1)}

AskedInOrder ==
  /\ at = "id" => op = "get nothing"
  /\ at = "detail" =>
       /\ op = "get" /\ next \in 1..Len(Cat!DetailPaths)
       /\ DOMAIN answers = AskedBefore(Cat!DetailPaths)
  /\ at = "list" =>
       /\ op \in {"list", "get"} /\ next \in 1..Len(Cat!ListPaths)
       /\ DOMAIN answers = AskedBefore(Cat!ListPaths) \cup
                            (IF op = "get" THEN Cat!ToSet(Cat!DetailPaths) ELSE {})
       /\ \A p \in AskedBefore(Cat!ListPaths) : answers[p] = Cat!Failed
  /\ at \in {"detail", "list"} =>
       \A p \in DOMAIN answers : answers[p].got = << >>

\* Inductive: every answer of every path keeps it.
CatInv ==
  /\ AskedInOrder
  /\ Cat!ListIsHonest
  /\ Cat!GetIsHonest

\* The paths, told one by one.
LEMMA PathsAre ==
  /\ Len(Cat!DetailPaths) = 2 /\ Len(Cat!ListPaths) = 4
  /\ Cat!DetailPaths[1] = "portal detail" /\ Cat!DetailPaths[2] = "mesh detail"
  /\ Cat!ListPaths[1] = "mesh data-products" /\ Cat!ListPaths[2] = "mesh products"
  /\ Cat!ListPaths[3] = "portal v17" /\ Cat!ListPaths[4] = "portal v16"
  /\ Cat!ToSet(Cat!DetailPaths) = {"portal detail", "mesh detail"}
  /\ Cat!ToSet(Cat!ListPaths) = {"mesh data-products", "mesh products", "portal v17", "portal v16"}
  <1>1. /\ Len(Cat!DetailPaths) = 2 /\ Len(Cat!ListPaths) = 4
        /\ Cat!DetailPaths[1] = "portal detail" /\ Cat!DetailPaths[2] = "mesh detail"
        /\ Cat!ListPaths[1] = "mesh data-products" /\ Cat!ListPaths[2] = "mesh products"
        /\ Cat!ListPaths[3] = "portal v17" /\ Cat!ListPaths[4] = "portal v16"
    BY DEF Cat!DetailPaths, Cat!ListPaths
  <1>2. /\ DOMAIN Cat!DetailPaths = {1, 2} /\ DOMAIN Cat!ListPaths = {1, 2, 3, 4}
    BY DEF Cat!DetailPaths, Cat!ListPaths
  <1>3. Cat!ToSet(Cat!DetailPaths) = {"portal detail", "mesh detail"}
    BY <1>1, <1>2 DEF Cat!ToSet
  <1>4. Cat!ToSet(Cat!ListPaths) = {"mesh data-products", "mesh products", "portal v17",
          "portal v16"}
    BY <1>1, <1>2 DEF Cat!ToSet
  <1> QED
    BY <1>1, <1>3, <1>4

\* A path that is asked joins those asked before it.
LEMMA OneMoreAsked ==
  ASSUME NEW seq, next \in 1..Len(seq), Len(seq) \in Nat, next' = next + 1
  PROVE  AskedBefore(seq)' = AskedBefore(seq) \cup {seq[next]}
  <1>1. 1..(next' - 1) = 1..(next - 1) \cup {next}
    OBVIOUS
  <1> QED
    BY <1>1 DEF AskedBefore

\* At the last path of a sequence, it and those before it are all.
LEMMA AllAsked ==
  ASSUME next \in Nat
  PROVE  /\ next = 2 =>
           Cat!ToSet(Cat!DetailPaths) = AskedBefore(Cat!DetailPaths) \cup {Cat!DetailPaths[next]}
         /\ next = 4 => Cat!ToSet(Cat!ListPaths) = AskedBefore(Cat!ListPaths) \cup {Cat!ListPaths[next]}
         /\ next = 1 => AskedBefore(Cat!DetailPaths) = {} /\ AskedBefore(Cat!ListPaths) = {}
         /\ next \in 1..4 =>
              AskedBefore(Cat!ListPaths) \cup {Cat!ListPaths[next]} \subseteq Cat!ToSet(Cat!ListPaths)
         /\ next \in 1..2 =>
              AskedBefore(Cat!DetailPaths) \cup {Cat!DetailPaths[next]} \subseteq Cat!ToSet(Cat!DetailPaths)
  <1>1. next = 2 => 1..(next - 1) = {1}
    OBVIOUS
  <1>2. next = 4 => 1..(next - 1) = {1, 2, 3}
    OBVIOUS
  <1>3. next = 1 => 1..(next - 1) = {}
    OBVIOUS
  <1>4. next \in 1..4 => \A i \in 1..(next - 1) \cup {next} : i \in {1, 2, 3, 4}
    OBVIOUS
  <1>5. next \in 1..2 => \A i \in 1..(next - 1) \cup {next} : i \in {1, 2}
    OBVIOUS
  <1>6. next = 2 => Cat!ToSet(Cat!DetailPaths) = AskedBefore(Cat!DetailPaths) \cup {Cat!DetailPaths[next]}
    BY <1>1, PathsAre DEF AskedBefore
  <1>7. next = 4 => Cat!ToSet(Cat!ListPaths) = AskedBefore(Cat!ListPaths) \cup {Cat!ListPaths[next]}
    BY <1>2, PathsAre DEF AskedBefore
  <1>8. next = 1 => AskedBefore(Cat!DetailPaths) = {} /\ AskedBefore(Cat!ListPaths) = {}
    BY <1>3 DEF AskedBefore
  <1>9. next \in 1..4 =>
          AskedBefore(Cat!ListPaths) \cup {Cat!ListPaths[next]} \subseteq Cat!ToSet(Cat!ListPaths)
    BY <1>4, PathsAre DEF AskedBefore
  <1>10. next \in 1..2 =>
           AskedBefore(Cat!DetailPaths) \cup {Cat!DetailPaths[next]} \subseteq Cat!ToSet(Cat!DetailPaths)
    BY <1>5, PathsAre DEF AskedBefore
  <1> QED
    BY <1>6, <1>7, <1>8, <1>9, <1>10

\* An answer is kept with those before it.
LEMMA AnsweredOf ==
  ASSUME NEW p, NEW a, Cat!Answered(p, a)
  PROVE  /\ DOMAIN answers' = DOMAIN answers \cup {p}
         /\ answers'[p] = a
         /\ \A q \in DOMAIN answers \ {p} : answers'[q] = answers[q]
  BY DEF Cat!Answered

\* Initially no path was asked.
LEMMA CatInitInv == Cat!Init => CatInv
  <1> SUFFICES ASSUME Cat!Init PROVE CatInv
    OBVIOUS
  <1>1. /\ DOMAIN answers = {} /\ next = 1
        /\ \/ op = "list" /\ at = "list"
           \/ op = "get" /\ at = "detail"
           \/ op = "get nothing" /\ at = "id"
    <2>1. answers = << >> /\ next = 1
      BY DEF Cat!Init
    <2>2. \/ op = "list" /\ at = "list"
          \/ op = "get" /\ at = "detail"
          \/ op = "get nothing" /\ at = "id"
      BY Zenon DEF Cat!Init
    <2>3. DOMAIN answers = {}
      BY <2>1
    <2> QED
      BY <2>1, <2>2, <2>3, Zenon
  <1>2. /\ AskedBefore(Cat!DetailPaths) = {} /\ AskedBefore(Cat!ListPaths) = {}
        /\ next \in 1..Len(Cat!DetailPaths) /\ next \in 1..Len(Cat!ListPaths)
    <2>1. next \in Nat /\ next = 1
      BY <1>1
    <2>2. Len(Cat!DetailPaths) = 2 /\ Len(Cat!ListPaths) = 4
      BY PathsAre
    <2>3. next \in 1..Len(Cat!DetailPaths) /\ next \in 1..Len(Cat!ListPaths)
      BY <2>1, <2>2
    <2>4. AskedBefore(Cat!DetailPaths) = {} /\ AskedBefore(Cat!ListPaths) = {}
      BY <2>1, AllAsked
    <2> QED
      BY <2>3, <2>4
  <1>3. AskedInOrder
    BY <1>1, <1>2 DEF AskedInOrder
  <1> QED
    BY <1>1, <1>3 DEF CatInv, Cat!ListIsHonest, Cat!GetIsHonest

\* Of an empty product id no path is asked.
LEMMA EmptyIdInv == ASSUME CatInv, Cat!EmptyId PROVE CatInv'
  <1>1. op = "get nothing" /\ op' = op /\ at' = "done"
    BY DEF CatInv, AskedInOrder, Cat!EmptyId, Cat!Return
  <1> QED
    BY <1>1 DEF CatInv, AskedInOrder, Cat!ListIsHonest, Cat!GetIsHonest

\* An exception leaves nothing to be honest about.
LEMMA CatRaiseInv == ASSUME CatInv, Cat!Raise PROVE CatInv'
  BY DEF CatInv, Cat!Raise, AskedInOrder, Cat!ListIsHonest, Cat!GetIsHonest

\* A detail path with nothing to give is followed by the next, or by the list.
LEMMA NothingInDetail ==
  ASSUME CatInv, at = "detail", NEW a, a.got = << >>, Cat!Answered(Cat!DetailPaths[next], a),
         IF Cat!AtLast(Cat!DetailPaths) THEN at' = "list" /\ next' = 1
           ELSE next' = next + 1 /\ at' = at,
         UNCHANGED <<op, orgMissing, products, source>>
  PROVE  CatInv'
  <1> DEFINE p == Cat!DetailPaths[next]
  <1>1. /\ op = "get" /\ op' = "get" /\ next \in 1..2
        /\ DOMAIN answers = AskedBefore(Cat!DetailPaths)
        /\ \A q \in DOMAIN answers : answers[q].got = << >>
    BY PathsAre DEF CatInv, AskedInOrder
  <1>2. /\ DOMAIN answers' = DOMAIN answers \cup {p} /\ answers'[p] = a
        /\ \A q \in DOMAIN answers \ {p} : answers'[q] = answers[q]
    BY DEF Cat!Answered
  <1>3. \A q \in DOMAIN answers' : answers'[q].got = << >>
    BY <1>1, <1>2
  <1>4. at' # "done"
    BY DEF Cat!AtLast
  <1>5. AskedInOrder'
    <2>1. CASE next = 2
      <3>1. at' = "list" /\ next' = 1
        BY <2>1, PathsAre DEF Cat!AtLast
      <3>2. 1..(next' - 1) = {} /\ next' \in 1..Len(Cat!ListPaths)
        <4>1. Len(Cat!ListPaths) = 4
          BY PathsAre
        <4> QED
          BY <3>1, <4>1
      <3>3. AskedBefore(Cat!ListPaths)' = {}
        BY <3>2 DEF AskedBefore
      <3>4. DOMAIN answers' = Cat!ToSet(Cat!DetailPaths)
        BY <1>1, <1>2, <2>1, AllAsked
      <3> QED
        BY <1>1, <1>3, <3>1, <3>2, <3>3, <3>4 DEF AskedInOrder
    <2>2. CASE next # 2
      <3>1. at' = "detail" /\ next' = next + 1
        BY <1>1, <2>2, PathsAre DEF Cat!AtLast
      <3>2. Len(Cat!DetailPaths) = 2
        BY PathsAre
      <3>3. next \in 1..Len(Cat!DetailPaths) /\ next' \in 1..Len(Cat!DetailPaths)
        BY <1>1, <2>2, <3>1, <3>2
      <3>4. AskedBefore(Cat!DetailPaths)' = AskedBefore(Cat!DetailPaths) \cup {p}
        BY <3>1, <3>2, <3>3, OneMoreAsked
      <3> QED
        BY <1>1, <1>2, <1>3, <3>1, <3>3, <3>4 DEF AskedInOrder
    <2> QED
      BY <2>1, <2>2
  <1> QED
    BY <1>4, <1>5 DEF CatInv, Cat!ListIsHonest, Cat!GetIsHonest

\* A detail path that answers is returned before any list path is asked.
LEMMA DetailInv == ASSUME CatInv, NEW r \in Cat!Replies, Cat!Detail(r) PROVE CatInv'
  <1> DEFINE p == Cat!DetailPaths[next]
  <1>1. at = "detail"
    BY DEF Cat!Detail
  <1>2. \/ Cat!Raise
        \/ /\ \E a : /\ a.got = << >> /\ Cat!Answered(p, a)
           /\ IF Cat!AtLast(Cat!DetailPaths) THEN at' = "list" /\ next' = 1
                ELSE next' = next + 1 /\ at' = at
           /\ UNCHANGED <<op, orgMissing, products, source>>
        \/ /\ \E b : b # << >> /\ Cat!Answered(p, Cat!Ok(b)) /\ Cat!Return(b, Cat!Source(p))
           /\ UNCHANGED <<op, orgMissing>>
    <2>1. Cat!Failed.got = << >> /\ \A b : Cat!Ok(b).got = b
      BY DEF Cat!Failed, Cat!Ok
    <2> QED
      BY <2>1 DEF Cat!Detail
  <1>3. CASE \E b : b # << >> /\ Cat!Answered(p, Cat!Ok(b)) /\ Cat!Return(b, Cat!Source(p))
    <2>1. PICK b : Cat!Answered(p, Cat!Ok(b)) /\ Cat!Return(b, Cat!Source(p))
      BY <1>3
    <2>2. /\ op = "get" /\ op' = op /\ next \in 1..2
          /\ DOMAIN answers = AskedBefore(Cat!DetailPaths)
      BY <1>1, <1>2, PathsAre DEF CatInv, AskedInOrder, Cat!Raise
    <2>3. DOMAIN answers' \subseteq Cat!ToSet(Cat!DetailPaths)
      <3>1. DOMAIN answers' = DOMAIN answers \cup {p}
        BY <2>1 DEF Cat!Answered
      <3>2. AskedBefore(Cat!DetailPaths) \cup {p} \subseteq Cat!ToSet(Cat!DetailPaths)
        BY <2>2, AllAsked
      <3> QED
        BY <2>2, <3>1, <3>2
    <2>4. Cat!Asking(Cat!ListPaths)' = {}
      BY <2>3, PathsAre DEF Cat!Asking
    <2>5. at' = "done" /\ source' # "fail-open"
      BY <2>1 DEF Cat!Return, Cat!Source
    <2> QED
      BY <2>2, <2>4, <2>5 DEF CatInv, AskedInOrder, Cat!ListIsHonest, Cat!GetIsHonest
  <1> QED
    BY <1>1, <1>2, <1>3, CatRaiseInv, NothingInDetail

-----------------------------------------------------------------------------
\* What the paths before the list path under way have come to.
LEMMA AtList ==
  ASSUME CatInv, at = "list"
  PROVE  /\ next \in 1..4 /\ op \in {"list", "get"}
         /\ DOMAIN answers = AskedBefore(Cat!ListPaths) \cup
                             (IF op = "get" THEN Cat!ToSet(Cat!DetailPaths) ELSE {})
         /\ \A p \in AskedBefore(Cat!ListPaths) : answers[p] = Cat!Failed
         /\ \A p \in DOMAIN answers : answers[p].got = << >>
         /\ Cat!ListPaths[next] \notin DOMAIN answers
  <1>1. /\ next \in 1..4 /\ op \in {"list", "get"}
        /\ DOMAIN answers = AskedBefore(Cat!ListPaths) \cup
                            (IF op = "get" THEN Cat!ToSet(Cat!DetailPaths) ELSE {})
        /\ \A p \in AskedBefore(Cat!ListPaths) : answers[p] = Cat!Failed
        /\ \A p \in DOMAIN answers : answers[p].got = << >>
    BY PathsAre DEF CatInv, AskedInOrder
  <1>2. \A i \in 1..(next - 1) : i \in {1, 2, 3, 4} /\ i # next
    BY <1>1
  <1>3. next \in {1, 2, 3, 4}
    BY <1>1
  <1>4. Cat!ListPaths[next] \notin AskedBefore(Cat!ListPaths)
    BY <1>2, <1>3, PathsAre DEF AskedBefore
  <1>5. Cat!ListPaths[next] \notin Cat!ToSet(Cat!DetailPaths)
    BY <1>3, PathsAre
  <1> QED
    BY <1>1, <1>4, <1>5

\* A list path that fails is followed by the next.
LEMMA FailedListInv ==
  ASSUME CatInv, at = "list", ~ Cat!AtLast(Cat!ListPaths),
         Cat!Answered(Cat!ListPaths[next], Cat!Failed),
         next' = next + 1, UNCHANGED <<op, orgMissing, at, products, source>>
  PROVE  CatInv'
  <1> DEFINE p == Cat!ListPaths[next]
  <1>1. Len(Cat!ListPaths) = 4
    BY PathsAre
  <1>2. next \in 1..4 /\ next # 4
    BY <1>1, AtList DEF Cat!AtLast
  <1>3. next \in 1..Len(Cat!ListPaths) /\ next' \in 1..Len(Cat!ListPaths)
    BY <1>1, <1>2
  <1>4. AskedBefore(Cat!ListPaths)' = AskedBefore(Cat!ListPaths) \cup {p}
    BY <1>1, <1>3, OneMoreAsked
  <1>5. /\ DOMAIN answers' = DOMAIN answers \cup {p} /\ answers'[p] = Cat!Failed
        /\ \A q \in DOMAIN answers \ {p} : answers'[q] = answers[q]
    BY DEF Cat!Answered
  <1>6. Cat!Failed.got = << >>
    BY DEF Cat!Failed
  <1>7. /\ op \in {"list", "get"} /\ \A q \in AskedBefore(Cat!ListPaths) : answers[q] = Cat!Failed
        /\ \A q \in DOMAIN answers : answers[q].got = << >>
        /\ DOMAIN answers = AskedBefore(Cat!ListPaths) \cup
                            (IF op = "get" THEN Cat!ToSet(Cat!DetailPaths) ELSE {})
    BY AtList
  <1>8. DOMAIN answers' = AskedBefore(Cat!ListPaths)'
          \cup (IF op' = "get" THEN Cat!ToSet(Cat!DetailPaths) ELSE {})
    BY <1>4, <1>5, <1>7
  <1>9. \A q \in AskedBefore(Cat!ListPaths)' : answers'[q] = Cat!Failed
    BY <1>4, <1>5, <1>7
  <1>10. \A q \in DOMAIN answers' : answers'[q].got = << >>
    BY <1>5, <1>6, <1>7
  <1>11. AskedInOrder'
    BY <1>3, <1>7, <1>8, <1>9, <1>10 DEF AskedInOrder
  <1> QED
    BY <1>11 DEF CatInv, Cat!ListIsHonest, Cat!GetIsHonest

\* What ends a call at a list path: the list of it, its first match, or nothing, behind
\* the last path or a list without a match.
LEMMA ListedInv ==
  ASSUME CatInv, at = "list", NEW a, NEW b, NEW s, Cat!Answered(Cat!ListPaths[next], a),
           Cat!Listed(b, s),
         \/ a = Cat!Failed /\ Cat!AtLast(Cat!ListPaths) /\ b = << >> /\ s = "fail-open"
         \/ a = Cat!Ok(b) /\ s = Cat!Source(Cat!ListPaths[next]),
         UNCHANGED <<op, orgMissing>>
  PROVE  CatInv'
  <1> DEFINE p == Cat!ListPaths[next]
  <1>0. at' = "done" /\ op \in {"list", "get"}
    BY AtList DEF Cat!Listed, Cat!Return
  <1>1. a.got = b
    BY DEF Cat!Failed, Cat!Ok
  <1>2. p \in Cat!ToSet(Cat!ListPaths) /\ p \notin DOMAIN answers
    BY AtList, AllAsked
  <1>3. /\ DOMAIN answers' = DOMAIN answers \cup {p} /\ answers'[p] = a
        /\ \A q \in DOMAIN answers : answers'[q] = answers[q]
    BY <1>2, AnsweredOf
  <1>4. s # "fail-open" \/ a = Cat!Failed
    BY DEF Cat!Source
  <1>5. Cat!ListIsHonest'
    <2> SUFFICES ASSUME op = "list"
                 PROVE  IF source' = "fail-open"
                          THEN /\ products' = << >>
                               /\ \A q \in Cat!ToSet(Cat!ListPaths) :
                                    q \in DOMAIN answers' /\ answers'[q] = Cat!Failed
                          ELSE \E q \in Cat!Asking(Cat!ListPaths)' :
                                 answers'[q] = Cat!Ok(products') /\ Cat!Source(q) = source'
      BY DEF Cat!ListIsHonest
    <2>1. products' = b /\ source' = s
      BY DEF Cat!Listed, Cat!Return
    <2>2. CASE a = Cat!Failed /\ Cat!AtLast(Cat!ListPaths) /\ b = << >> /\ s = "fail-open"
      <3>1. next = 4
        BY <2>2, PathsAre DEF Cat!AtLast
      <3>2. Cat!ToSet(Cat!ListPaths) = AskedBefore(Cat!ListPaths) \cup {p}
        BY <3>1, AllAsked
      <3>3. \A q \in Cat!ToSet(Cat!ListPaths) : q \in DOMAIN answers' /\ answers'[q] = Cat!Failed
        BY <1>3, <2>2, <3>2, AtList
      <3> QED
        BY <2>1, <2>2, <3>3
    <2>3. CASE a = Cat!Ok(b) /\ s = Cat!Source(p)
      <3>1. s # "fail-open"
        BY <2>3 DEF Cat!Source
      <3>2. p \in Cat!Asking(Cat!ListPaths)'
        BY <1>2, <1>3 DEF Cat!Asking
      <3> QED
        BY <1>3, <2>1, <2>3, <3>1, <3>2
    <2> QED
      BY <2>2, <2>3
  <1>6. Cat!GetIsHonest'
    <2> SUFFICES ASSUME op = "get"
                 PROVE  IF source' = "fail-open"
                          THEN /\ products' = << >>
                               /\ \A q \in Cat!ToSet(Cat!DetailPaths) :
                                    q \in DOMAIN answers' /\ answers'[q].got = << >>
                               /\ \A q \in Cat!Asking(Cat!ListPaths)' :
                                    Cat!ToSet(answers'[q].got) \cap Asked = {}
                          ELSE Cat!Asking(Cat!ListPaths)' # {} =>
                                 Len(products') = 1 /\ Head(products') \in Asked
      BY DEF Cat!GetIsHonest
    <2>1. Cat!ToSet(<< >>) = {}
      BY DEF Cat!ToSet
    <2>2. \/ \E x \in Asked : Cat!Return(<<x>>, s)
          \/ Cat!ToSet(b) \cap Asked = {} /\ Cat!Return(<< >>, "fail-open")
      BY DEF Cat!Listed
    <2>3. CASE \E x \in Asked : Cat!Return(<<x>>, s)
      <3>1. PICK x \in Asked : Cat!Return(<<x>>, s)
        BY <2>3
      <3>2. products' = <<x>> /\ source' = s
        BY <3>1 DEF Cat!Return
      <3>3. Len(products') = 1 /\ Head(products') \in Asked
        BY <3>2
      <3>4. source' # "fail-open"
        <4>1. CASE a = Cat!Ok(b)
          BY <3>2, <4>1 DEF Cat!Source, Cat!Ok, Cat!Failed
        <4>2. CASE b = << >>
          <5>1. ~ (Cat!ToSet(b) \cap Asked # {})
            BY <2>1, <4>2
          <5>2. PICK i \in 1..Len(b) : b[i] \in Asked \/ products' = << >>
            BY <3>2 DEF Cat!Listed, Cat!Return
          <5> QED
            BY <4>2, <5>2
        <4> QED
          BY <4>1, <4>2
      <3> QED
        BY <3>3, <3>4
    <2>4. CASE Cat!ToSet(b) \cap Asked = {} /\ Cat!Return(<< >>, "fail-open")
      <3>1. products' = << >> /\ source' = "fail-open"
        BY <2>4 DEF Cat!Return
      <3>2. \A q \in Cat!ToSet(Cat!DetailPaths) : q \in DOMAIN answers' /\ answers'[q].got = << >>
        BY <1>3, AtList
      <3>3. \A q \in DOMAIN answers' : Cat!ToSet(answers'[q].got) \cap Asked = {}
        BY <1>1, <1>3, <2>1, <2>4, AtList
      <3> QED
        BY <3>1, <3>2, <3>3 DEF Cat!Asking
    <2> QED
      BY <2>2, <2>3, <2>4
  <1> QED
    BY <1>0, <1>5, <1>6 DEF CatInv, AskedInOrder

\* What a list path comes to.
LEMMA ListInv == ASSUME CatInv, NEW r \in Cat!Replies, Cat!List(r) PROVE CatInv'
  <1> DEFINE p == Cat!ListPaths[next]
  <1>1. at = "list"
    BY DEF Cat!List
  <1>2. \/ Cat!Raise
        \/ /\ Cat!Answered(p, Cat!Failed) /\ UNCHANGED <<op, orgMissing>>
           /\ \/ Cat!AtLast(Cat!ListPaths) /\ Cat!Listed(<< >>, "fail-open")
              \/ /\ ~ Cat!AtLast(Cat!ListPaths) /\ next' = next + 1
                 /\ UNCHANGED <<at, products, source>>
        \/ \E b : /\ Cat!Answered(p, Cat!Ok(b)) /\ Cat!Listed(b, Cat!Source(p))
                  /\ UNCHANGED <<op, orgMissing>>
    BY DEF Cat!List
  <1>3. CASE /\ Cat!Answered(p, Cat!Failed) /\ UNCHANGED <<op, orgMissing>>
             /\ Cat!AtLast(Cat!ListPaths) /\ Cat!Listed(<< >>, "fail-open")
    BY <1>1, <1>3, ListedInv
  <1>4. CASE /\ Cat!Answered(p, Cat!Failed) /\ UNCHANGED <<op, orgMissing>>
             /\ ~ Cat!AtLast(Cat!ListPaths) /\ next' = next + 1
             /\ UNCHANGED <<at, products, source>>
    BY <1>1, <1>4, FailedListInv
  <1>5. CASE \E b : /\ Cat!Answered(p, Cat!Ok(b)) /\ Cat!Listed(b, Cat!Source(p))
                    /\ UNCHANGED <<op, orgMissing>>
    BY <1>1, <1>5, ListedInv
  <1> QED
    BY <1>2, <1>3, <1>4, <1>5, CatRaiseInv

\* Every answer of a path keeps the invariant.
LEMMA CatInvStep == CatInv /\ [Cat!Next]_(Cat!vars) => CatInv'
  <1> SUFFICES ASSUME CatInv, [Cat!Next]_(Cat!vars) PROVE CatInv'
    OBVIOUS
  <1>1. CASE UNCHANGED Cat!vars
    BY <1>1 DEF Cat!vars, CatInv, AskedInOrder, AskedBefore, Cat!ListIsHonest, Cat!GetIsHonest,
            Cat!Asking
  <1> QED
    BY <1>1, EmptyIdInv, DetailInv, ListInv DEF Cat!Next

\* A catalog call never leaves the invariant.
THEOREM CatalogInvariance == Cat!Spec => []CatInv
  BY CatInitInv, CatInvStep, PTL DEF Cat!Spec

\* A list is, whole, what one path answered under its source, or every path failed.
THEOREM HonestList == Cat!Spec => []Cat!ListIsHonest
  <1>1. CatInv => Cat!ListIsHonest
    BY DEF CatInv
  <1> QED
    BY <1>1, CatalogInvariance, PTL

\* "Not found" and a product found in a list rest on what the paths answered.
THEOREM HonestGet == Cat!Spec => []Cat!GetIsHonest
  <1>1. CatInv => Cat!GetIsHonest
    BY DEF CatInv
  <1> QED
    BY <1>1, CatalogInvariance, PTL

-----------------------------------------------------------------------------
(* A turn.                                                                  *)

\* A step of a turn is one of the helper it calls, and none of the other.
LEMMA TurnSteps ==
  ASSUME [TurnNext]_<<called, vars, catalogVars>>
  PROVE  [Next]_vars /\ [Cat!Next]_(Cat!vars)
  <1>1. UNCHANGED catalogVars => UNCHANGED Cat!vars
    BY DEF catalogVars, Cat!vars
  <1>2. CASE UNCHANGED <<called, vars, catalogVars>>
    BY <1>1, <1>2
  <1>3. CASE InFailOpen /\ Next
    BY <1>1, <1>3 DEF InFailOpen
  <1>4. CASE InCatalog /\ (Cat!EmptyId \/ \E r \in Replies : Cat!Detail(r) \/ Cat!List(r))
    <2>1. \A r \in Replies : r \in Cat!Replies
      BY DEF Replies, Statuses, Refusals, Successes,
             Cat!Replies, Cat!Statuses, Cat!Refusals, Cat!Successes
    <2>2. Cat!Next
      BY <1>4, <2>1 DEF Cat!Next
    <2> QED
      BY <1>4, <2>2 DEF InCatalog
  <1> QED
    BY <1>2, <1>3, <1>4 DEF TurnNext, Next

\* No turn ever leaves the invariant of either.
THEOREM TurnInvariance == TurnSpec => [](Inv /\ CatInv)
  <1>1. TurnInit => Inv /\ CatInv
    BY InitInv, CatInitInv DEF TurnInit
  <1>2. (Inv /\ CatInv) /\ [TurnNext]_<<called, vars, catalogVars>> => (Inv /\ CatInv)'
    BY TurnSteps, InvStep, CatInvStep
  <1> QED
    BY <1>1, <1>2, PTL DEF TurnSpec

\* Whatever else the turn may call, the helpers of FailOpen keep their promises.
THEOREM TurnFailsOpen ==
  TurnSpec => [](BlocksIffMeshDenies /\ SnippetIsTraced /\ StatusIsTrue)
  BY InvPromises, TurnInvariance, PTL

\* A list is, whole, what one path answered under its source, or every path failed.
THEOREM TurnListIsHonest == TurnSpec => []ListIsHonest
  <1>1. CatInv => ListIsHonest
    BY DEF CatInv, ListIsHonest
  <1> QED
    BY <1>1, TurnInvariance, PTL

\* "Not found" and a product found in a list rest on what the paths answered.
THEOREM TurnGetIsHonest == TurnSpec => []GetIsHonest
  <1>1. CatInv => GetIsHonest
    BY DEF CatInv, GetIsHonest
  <1> QED
    BY <1>1, TurnInvariance, PTL
=============================================================================
