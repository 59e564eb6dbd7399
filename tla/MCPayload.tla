------------------------------ MODULE MCPayload ------------------------------
(* A small instance of Payload for TLC. *)
EXTENDS Payload

\* Texts of tests/test_client.py and of RFC 4648.
ASSUME Vectors ==
  /\ Encode(<<102>>) = <<25, 32, Pad, Pad>>
  /\ Encode(<<102, 111, 111>>) = <<25, 38, 61, 47>>
  /\ Decode(<<25, 32, Junk, Pad, Pad, 1>>) = AsBytes(<<102>>)
=============================================================================
