--------------------------- MODULE MCKafkaClient ---------------------------
(* A small instance of KafkaClient for TLC. *)
EXTENDS KafkaClient

CONSTANTS c1, c2, c3
=============================================================================
