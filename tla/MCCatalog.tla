------------------------------ MODULE MCCatalog ------------------------------
(* A small instance of Catalog for TLC. *)
EXTENDS Catalog

CONSTANTS asked, other
=============================================================================
