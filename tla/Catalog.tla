------------------------------- MODULE Catalog -------------------------------
(***************************************************************************)
(* catalog.py: list_catalog asks four paths in turn and returns the first  *)
(* that answers; get_catalog_product asks two detail paths and then looks  *)
(* the product up in that list.  Both are documented to fail open: an      *)
(* empty result, never an exception.                                       *)
(***************************************************************************)
EXTENDS Naturals, Sequences, SequencesExt, Http

CONSTANTS
  Products,     \* catalog entries
  Asked         \* those whose id or name is the product id asked for

\* The paths in the order they are asked, and the source each one stands for.
DetailPaths == <<"portal detail", "mesh detail">>
ListPaths   == <<"mesh data-products", "mesh products", "portal v17", "portal v16">>
Paths       == ToSet(DetailPaths) \cup ToSet(ListPaths)

Source(p) == IF p \in {"mesh detail", "mesh data-products", "mesh products"}
               THEN "mesh" ELSE "portal"

VARIABLES
  op,        \* "list", "get" or "get nothing" (of an empty product id)
  orgMissing,  \* the client has require_org set and no org
  pc,        \* "id", "detail", "list", "done" or "raised"
  next,      \* index of the next path of the sequence pc names
  answers,   \* what each path asked has come to (history)
  products,  \* the products of the result
  source     \* its source

vars == <<op, orgMissing, pc, next, answers, products, source>>

\* One path's answer: a list of products, "failed" (ok = False), or none yet.
Bodies == {<< >>} \cup {<<p>> : p \in Products} \cup (Products \X Products)
Failed == [ok |-> FALSE, got |-> << >>]
Ok(b)  == [ok |-> TRUE, got |-> b]

Init ==
  /\ \/ op = "list" /\ pc = "list"
     \/ op = "get" /\ pc = "detail"
     \/ op = "get nothing" /\ pc = "id"
  /\ orgMissing \in BOOLEAN
  /\ next = 1
  /\ answers = << >>
  /\ products = << >>
  /\ source = "none"

\* _catalog_get: the body decodes to products (no body to none, a list or an envelope
\* to its entries; null and other JSON to an error), or the path failed (the body of a
\* refusal is not read), or what it does not catch (a body cut short, a status line
\* that is none) escapes.
CatalogGet(r) ==
  CASE r = "object"              -> {"ok"}
    [] r \in {"empty", "odd"}    -> {"ok", "failed"}
    [] r \in Statuses \cup {"unread", "notjson", "notutf8", "unsent"} -> {"failed"}
    [] r \in {"torn", "lost"}    -> {"failed", "raw"}

Raise ==
  /\ pc' = "raised"
  /\ UNCHANGED <<op, orgMissing, next, answers, products, source>>

Answered(p, a) ==
  answers' = [q \in DOMAIN answers \cup {p} |-> IF q = p THEN a ELSE answers[q]]

Return(b, s) ==
  /\ pc' = "done"
  /\ products' = b
  /\ source' = s
  /\ UNCHANGED next

\* A body without entries is what an empty answer decodes to.
BodiesOf(r) == IF r = "empty" THEN {<< >>} ELSE Bodies

\* Slip: the last path is never asked.
AtLast_OffByOne(seq) == next + 1 = Len(seq)

AtLast(seq) == next = Len(seq)

-----------------------------------------------------------------------------
(* get_catalog_product, and its detail paths.                              *)

\* An empty product id is not asked for.
EmptyId ==
  /\ pc = "id"
  /\ Return(<< >>, "fail-open")
  /\ UNCHANGED <<op, orgMissing, answers>>

\* Its first product is the answer, whichever it is; none means the next path.
Detail(r) ==
  LET p == DetailPaths[next]
      MoveOn == /\ IF AtLast(DetailPaths) THEN pc' = "list" /\ next' = 1
                                              ELSE next' = next + 1 /\ UNCHANGED pc
                /\ UNCHANGED <<products, source>>
  IN  /\ pc = "detail"
      /\ \/ "raw" \in CatalogGet(r) /\ Raise
         \/ /\ "failed" \in CatalogGet(r)
            /\ Answered(p, Failed) /\ MoveOn /\ UNCHANGED <<op, orgMissing>>
         \/ /\ "ok" \in CatalogGet(r)
            /\ \E b \in BodiesOf(r) :
                 /\ Answered(p, Ok(b))
                 /\ IF b = << >> THEN MoveOn ELSE Return(b, Source(p))
            /\ UNCHANGED <<op, orgMissing>>

-----------------------------------------------------------------------------
(* The list paths.                                                         *)

\* Slip: the server's own filtering is relied on.
Listed_TakesFirst(b, s) ==
  IF op = "list" THEN Return(b, s)
  ELSE IF b = << >> THEN Return(<< >>, "fail-open") ELSE Return(<<Head(b)>>, s)

\* list_catalog returns the list; get_catalog_product its first match, or the
\* empty "not found".
Listed(b, s) ==
  \/ op = "list" /\ Return(b, s)
  \/ /\ op = "get"
     /\ \E i \in 1..Len(b) :
          /\ b[i] \in Asked
          /\ \A j \in 1..(i - 1) : b[j] \notin Asked
          /\ Return(<<b[i]>>, s)
  \/ op = "get" /\ ToSet(b) \cap Asked = {} /\ Return(<< >>, "fail-open")

List(r) ==
  LET p == ListPaths[next]
  IN  /\ pc = "list"
      /\ \/ "raw" \in CatalogGet(r) /\ Raise
         \/ /\ "failed" \in CatalogGet(r)
            /\ Answered(p, Failed)
            /\ IF AtLast(ListPaths) THEN Listed(<< >>, "fail-open")
                 ELSE next' = next + 1 /\ UNCHANGED <<pc, products, source>>
            /\ UNCHANGED <<op, orgMissing>>
         \/ /\ "ok" \in CatalogGet(r)
            /\ \E b \in BodiesOf(r) : Answered(p, Ok(b)) /\ Listed(b, Source(p))
            /\ UNCHANGED <<op, orgMissing>>

Next == EmptyId \/ \E r \in Replies : Detail(r) \/ List(r)

Spec == Init /\ [][Next]_vars

-----------------------------------------------------------------------------
Asking(seq) == {p \in ToSet(seq) : p \in DOMAIN answers}

\* A fail-open list is never a shortcut: it means that every path was asked and
\* every one failed; and any other list is, whole, what one path answered under
\* that very source.
ListIsHonest ==
  pc = "done" /\ op = "list" =>
    IF source = "fail-open"
      THEN products = << >> /\ \A p \in ToSet(ListPaths) : p \in DOMAIN answers /\ answers[p] = Failed
      ELSE \E p \in Asking(ListPaths) : answers[p] = Ok(products) /\ Source(p) = source

\* "Not found" rests on both detail paths having nothing and on a list without the
\* product (or no list at all); and a product found through a list is the one asked
\* for, whatever the server made of the query.  (The two detail answers are taken
\* unseen.)
GetIsHonest ==
  pc = "done" /\ op = "get" =>
    IF source = "fail-open"
      THEN /\ products = << >>
           /\ \A p \in ToSet(DetailPaths) : p \in DOMAIN answers /\ answers[p].got = << >>
           /\ \A p \in Asking(ListPaths) : ToSet(answers[p].got) \cap Asked = {}
      ELSE Asking(ListPaths) # {} => Len(products) = 1 /\ Head(products) \in Asked

\* "Soft failures return empty" (docstrings, README): no exception reaches the
\* caller.
NeverRaises == pc # "raised"

\* "When True, catalog/consume/publish raise ClientError if org is empty" (comment
\* of ConnectOptions.require_org): no request leaves without an org.
CatalogNeedsOrg == orgMissing => DOMAIN answers = {}
=============================================================================
