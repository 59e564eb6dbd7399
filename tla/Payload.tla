------------------------------- MODULE Payload -------------------------------
(***************************************************************************)
(* Bytes as base64 text in JSON: publish and put write them, and three     *)
(* readers, each lenient in its own way, read them back: consumer_fetch    *)
(* and list_stream_messages (client.py) and get (kv.py).  Other programs   *)
(* may store any text.                                                     *)
(*                                                                         *)
(* A character of a text is one of the 64 of the alphabet (its value),     *)
(* the padding, another ASCII character, one beyond ASCII, or half a       *)
(* surrogate pair, which JSON may hold and UTF-8 may not.                  *)
(***************************************************************************)
EXTENDS Naturals, Sequences, FiniteSets, SequencesExt

CONSTANTS
  Bytes,      \* bytes of the values written
  Letters,    \* characters of the alphabet in the texts of other programs
  MaxBytes,   \* bound: length of a value
  MaxChars,   \* bound: length of such a text
  None

Pad == 64
Junk == 65
Beyond == 66
Lone == 67

ASSUME PayloadAssumption ==
  /\ Bytes \subseteq 0..255
  /\ Letters \subseteq 0..63
  /\ {MaxBytes, MaxChars} \subseteq Nat

\* What a reader makes of a text.
AsBytes(b) == [as |-> "bytes", what |-> b]
AsText(s)  == [as |-> "text", what |-> s]
Error      == [as |-> "error", what |-> << >>]

-----------------------------------------------------------------------------
(* The base64 module of Python (external).                                 *)

\* The six bits of v that begin at bit 6 * i; behind the end of v there are zeros.
Sextet(v, i) ==
  LET Byte(k) == IF k <= Len(v) THEN v[k] ELSE 0
      p == 1 + ((6 * i) \div 8)
  IN  (((256 * Byte(p)) + Byte(p + 1)) \div 2^(10 - ((6 * i) % 8))) % 64

\* The eight bits of the characters that begin at bit 8 * i.
Octet(data, i) ==
  LET p == 1 + ((8 * i) \div 6)
  IN  (((64 * data[p]) + data[p + 1]) \div 2^(4 - ((8 * i) % 6))) % 256

\* b64encode: three bytes are four characters, and padding fills the last four.
Encode(v) ==
  [i \in 1..(4 * ((Len(v) + 2) \div 3)) |->
     IF i <= ((4 * Len(v)) + 2) \div 3 THEN Sextet(v, i - 1) ELSE Pad]

\* urlsafe_b64encode: the last two of the alphabet are other characters.
EncodeUrlSafe(v) ==
  LET e == Encode(v) IN [i \in 1..Len(e) |-> IF e[i] \in {62, 63} THEN Junk ELSE e[i]]

\* b64decode: other characters are skipped, and so is padding out of place; it stops
\* at padding that fills four.
Scanned(st, c) ==
  IF st.over \/ c = Junk \/ (c = Pad /\ Len(st.data) % 4 < 2) THEN st
  ELSE IF c = Pad THEN [data |-> st.data, pads |-> st.pads + 1,
                        over |-> (Len(st.data) % 4) + st.pads + 1 >= 4]
  ELSE [data |-> Append(st.data, c), pads |-> 0, over |-> FALSE]

Scan(s) ==
  LET after[i \in 0..Len(s)] ==
        IF i = 0 THEN [data |-> << >>, pads |-> 0, over |-> FALSE]
        ELSE Scanned(after[i - 1], s[i])
  IN  after[Len(s)]

\* What is short of a byte is dropped.
Decode(s) ==
  LET st == Scan(s)
  IN  IF Contains(s, Beyond) \/ Contains(s, Lone) \/ (~ st.over /\ Len(st.data) % 4 # 0) THEN Error
      ELSE AsBytes([i \in 1..((3 * Len(st.data)) \div 4) |-> Octet(st.data, i - 1)])

\* b64decode with validate: the alphabet, then at most two paddings, and no more.
\* (Python before 3.11; since then padding after a full four is mostly refused.)
DecodeValidated(s) ==
  IF \E i \in 1..Len(s) : s[i] > Pad \/ (s[i] = Pad /\ \E j \in i..Len(s) : s[j] # Pad \/ j > i + 1)
    THEN Error ELSE Decode(s)

-----------------------------------------------------------------------------
(* The writers and the readers.                                            *)

\* Slip: the alphabet that is safe in a URL.
Written_UrlSafe(v) == EncodeUrlSafe(v)

\* publish and put.
Written(v) == Encode(v)

\* The fallback of two readers: the text itself, in UTF-8.
Utf8(s) == IF Contains(s, Lone) THEN Error ELSE AsText(s)

\* Slip: padding that is missing is added first.
Replayed_Pads(s) ==
  LET padded == s \o [i \in 1..((4 - (Len(s) % 4)) % 4) |-> Pad]
  IN  IF DecodeValidated(padded) = Error THEN Utf8(s) ELSE DecodeValidated(padded)

\* _decode_stream_payload: what does not validate is text.
Replayed(s) == IF DecodeValidated(s) = Error THEN Utf8(s) ELSE DecodeValidated(s)

\* consumer_fetch: lenient, and what does not decode is an error.
Fetched(s) == Decode(s)

\* _decode_kv_value: lenient, and what does not decode is text.
Got(s) == IF Decode(s) = Error THEN Utf8(s) ELSE Decode(s)

VARIABLES
  value,    \* the bytes written by this library, or None
  wire,     \* the text stored
  read      \* what each reader makes of it

vars == <<value, wire, read>>

Readers == {"fetch", "replay", "get"}
Unread == [r \in Readers |-> None]

Init ==
  /\ \/ value \in BoundedSeq(Bytes, MaxBytes) /\ wire = Written(value)
     \/ value = None /\ wire \in BoundedSeq(Letters \cup {Pad, Junk, Beyond, Lone}, MaxChars)
  /\ read = Unread

Read ==
  /\ read = Unread
  /\ read' = [fetch |-> Fetched(wire), replay |-> Replayed(wire), get |-> Got(wire)]
  /\ UNCHANGED <<value, wire>>

Spec == Init /\ [][Read]_vars

-----------------------------------------------------------------------------
\* What publish or put has written comes back byte for byte, the empty value too,
\* from every reader, however lenient or strict: no message of publish is one that
\* stops a fetch.
OwnValuesReturn ==
  read # Unread /\ value # None => \A r \in Readers : read[r] = AsBytes(value)

Significant(s) == Cardinality({i \in 1..Len(s) : s[i] < Pad})

\* The two readers of a stream do not contradict each other where it counts: bytes
\* that replay decodes are the bytes that fetch returns, and they hold every character
\* of the text (fetch and get skip some); and a payload that stops fetch, with its
\* whole batch, can still be read as text through replay, unless half a surrogate pair
\* in it stops both.
ReadersAgree ==
  read # Unread =>
    /\ read["replay"].as = "bytes" =>
         /\ read["fetch"] = read["replay"]
         /\ Significant(wire) = Significant(Encode(read["replay"].what))
         /\ \A i \in 1..Len(wire) : wire[i] <= Pad
    /\ read["fetch"].as = "error" =>
         \/ read["replay"] = AsText(wire)
         \/ read["replay"] = Error /\ Contains(wire, Lone)
    /\ read["replay"].as = "error" => read["fetch"].as = "error"
=============================================================================
