---------------------------- MODULE MCKafkaCodec ----------------------------
(* A small instance of KafkaCodec for TLC. *)
EXTENDS KafkaCodec

McKeys   == {None, <<7>>}
McValues == {None, << >>, <<255>>}

\* The checksums of tests/test_kafka.py:19 and 23, of nothing and of a message
\* without a key that carries "hello".
ASSUME CrcVectors ==
  /\ Crc32c(<< >>) = <<0, 0, 0, 0>>
  /\ Crc32c(<<1, 0>> \o Zeros(8) \o <<255, 255, 255, 255>>
              \o <<0, 0, 0, 5, 104, 101, 108, 108, 111>>) = <<243, 178, 130, 209>>
=============================================================================
