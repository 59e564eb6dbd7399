----------------------------- MODULE MCFailOpen -----------------------------
(***************************************************************************)
(* A small instance of FailOpen and Catalog for TLC: what an agent's turn  *)
(* calls and expects to fail open, one call of either kind.                *)
(***************************************************************************)
EXTENDS FailOpen

CONSTANTS
  r1, r2, blank, asked, other,
  Products, Asked    \* see Catalog

VARIABLES
  called,    \* the module whose helper this turn calls
  op, orgMissing, at, next, answers, products, source

catalogVars == <<op, orgMissing, at, next, answers, products, source>>

Cat == INSTANCE Catalog WITH pc <- at

\* The helper that is not called is in one initial state and stays there.
TurnInit ==
  /\ called \in {"failopen", "catalog"}
  /\ Init
  /\ Cat!Init
  /\ called = "failopen" => op = "list" /\ ~ orgMissing
  /\ called = "catalog" => /\ kind = "status" /\ mode = "off"
                           /\ server = [allows |-> TRUE, healthy |-> TRUE, ready |-> TRUE]

InFailOpen == called = "failopen" /\ UNCHANGED <<called, catalogVars>>
InCatalog  == called = "catalog" /\ UNCHANGED <<called, vars>>

TurnNext ==
  \/ Change /\ InFailOpen
  \/ Begin /\ InFailOpen
  \/ Serve /\ InFailOpen
  \/ \E r \in Replies :
       \/ EvaluatePolicy(r) /\ InFailOpen
       \/ QueryContext(r) /\ InFailOpen
       \/ ProbeHealth(r) /\ InFailOpen
       \/ ProbeReady(r) /\ InFailOpen
       \/ Cat!Detail(r) /\ InCatalog
       \/ Cat!List(r) /\ InCatalog
  \/ Cat!EmptyId /\ InCatalog

TurnSpec == TurnInit /\ [][TurnNext]_<<called, vars, catalogVars>>

\* A catalog list is what one path answered, or every path failed (see Catalog).
ListIsHonest == Cat!ListIsHonest

\* A product, or "not found", rests on the answers of the paths (see Catalog).
GetIsHonest == Cat!GetIsHonest
=============================================================================
