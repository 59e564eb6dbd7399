--------------------------- MODULE MCPullConsumer ---------------------------
(* A small instance of PullConsumer for TLC. *)
EXTENDS PullConsumer

CONSTANTS w1, w2
=============================================================================
