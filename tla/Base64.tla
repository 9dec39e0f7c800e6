------------------------------- MODULE Base64 -------------------------------
(***************************************************************************)
(* ConsulAdmin::base64_decode_by_reference (aossl/consul/consul_admin.cpp) *)
(* decodes the values that Consul's key-value store returns.               *)
(*                                                                         *)
(* A character of the base64 alphabet is its position in base64_chars, so  *)
(* a number below 64; every other character, "=" included, is Other.       *)
(* Unsigned chars are numbers below 256.                                   *)
(***************************************************************************)
EXTENDS Integers, Sequences

CONSTANT Messages  \* the values an application may have stored in Consul

Byte == 0..255
Sextet == 0..63
Other == 64

ASSUME MessagesAssumption == Messages \subseteq Seq(Byte)

-----------------------------------------------------------------------------
(* The encoding (RFC 4648), which Consul does                              *)

\* Byte i of m, and zero bits after its end.
ByteOf(m, i) == IF i \in 1..Len(m) THEN m[i] ELSE 0

\* Character i of the encoding of m: the bits 6*(i-1) to 6*i-1 of m.
SextetOf(m, i) ==
  LET b == 3 * ((i - 1) \div 4) + 1
  IN  CASE i % 4 = 1 -> ByteOf(m, b) \div 4
        [] i % 4 = 2 -> 16 * (ByteOf(m, b) % 4) + (ByteOf(m, b + 1) \div 16)
        [] i % 4 = 3 -> 4 * (ByteOf(m, b + 1) % 16) + (ByteOf(m, b + 2) \div 64)
        [] OTHER     -> ByteOf(m, b + 2) % 64

EncodedLength(m) == (4 * Len(m) + 2) \div 3

\* What follows the encoded message: its end, or a character that is not of
\* the alphabet and anything behind it.  A whole number of groups may also be
\* followed by one single character, which holds too few bits for a byte.
Tails(m) ==
  {<<>>, <<Other>>, <<Other, 0>>, <<Other, Other>>} \cup
  (IF Len(m) % 3 = 0 THEN {<<c>> : c \in {0, 63}} \cup {<<63, Other, 1>>} ELSE {})

Encoded(m, tail) ==
  [i \in 1..(EncodedLength(m) + Len(tail)) |->
     IF i <= EncodedLength(m) THEN SextetOf(m, i) ELSE tail[i - EncodedLength(m)]]

-----------------------------------------------------------------------------
(* The decoder                                                             *)

VARIABLES
  message,         \* history: the value that was encoded
  encoded_string,
  pc,              \* in the loop, behind it, or returned
  in_len,          \* characters left; one less once the loop has tested it
  in_,             \* characters read
  char_array_4,    \* the characters of the group under way
  val              \* the bytes decoded

vars == <<message, encoded_string, pc, in_len, in_, char_array_4, val>>

TypeOK ==
  /\ message \in Messages
  /\ encoded_string \in Seq(Sextet \cup {Other})
  /\ pc \in {"loop", "rest", "done"}
  /\ in_len \in -1..Len(encoded_string) /\ in_ \in 0..Len(encoded_string)
  /\ char_array_4 \in Seq(Sextet) /\ Len(char_array_4) < 4
  /\ val \in Seq(Byte)

Init ==
  /\ message \in Messages
  /\ \E tail \in Tails(message) : encoded_string = Encoded(message, tail)
  /\ pc = "loop" /\ in_len = Len(encoded_string) /\ in_ = 0
  /\ char_array_4 = <<>> /\ val = <<>>

\* The three bytes of four characters.
char_array_3(c) ==
  << (4 * c[1] + ((c[2] \div 16) % 4)) % 256,
     (16 * (c[2] % 16) + ((c[3] \div 4) % 16)) % 256,
     (64 * (c[3] % 4) + c[4]) % 256 >>

\* The character at in_; behind the last one a string has a null character,
\* which is not of the alphabet.
Character == IF in_ < Len(encoded_string) THEN encoded_string[in_ + 1] ELSE Other

\* Mutant: in_len is decremented before it is compared.
More_PreDecrement == in_len - 1 # 0 /\ Character # Other

\* The test of the loop.  It is evaluated once for each step of the loop and
\* decrements in_len, also when it fails.
More == in_len # 0 /\ Character # Other

\* Mutant: the group is not complete with its fourth character.
Collect_Fourth ==
  /\ pc = "loop" /\ More
  /\ Len(char_array_4) < 4
  /\ char_array_4' = Append(char_array_4, Character)
  /\ in_len' = in_len - 1 /\ in_' = in_ + 1
  /\ UNCHANGED <<message, encoded_string, pc, val>>

\* A character joins its group ...
Collect ==
  /\ pc = "loop" /\ More
  /\ Len(char_array_4) < 3
  /\ char_array_4' = Append(char_array_4, Character)
  /\ in_len' = in_len - 1 /\ in_' = in_ + 1
  /\ UNCHANGED <<message, encoded_string, pc, val>>

\* ... and the fourth completes it.
Group ==
  /\ pc = "loop" /\ More
  /\ Len(char_array_4) = 3
  /\ val' = val \o char_array_3(Append(char_array_4, Character))
  /\ char_array_4' = <<>>
  /\ in_len' = in_len - 1 /\ in_' = in_ + 1
  /\ UNCHANGED <<message, encoded_string, pc>>

EndOfInput ==
  /\ pc = "loop" /\ ~More
  /\ pc' = "rest" /\ in_len' = in_len - 1
  /\ UNCHANGED <<message, encoded_string, in_, char_array_4, val>>

\* The missing characters of the last group are set to zero and looked up in
\* the alphabet, which has no zero: string::npos, cut to a char.
Npos == 255

Padded == [j \in 1..4 |-> IF j <= Len(char_array_4) THEN char_array_4[j] ELSE Npos]

\* Mutant: as many bytes as characters are taken from the last group.
Rest_OneMore ==
  /\ pc = "rest"
  /\ val' = val \o SubSeq(char_array_3(Padded), 1, IF Len(char_array_4) = 0 THEN 0
                                                   ELSE Len(char_array_4))
  /\ pc' = "done"
  /\ UNCHANGED <<message, encoded_string, in_len, in_, char_array_4>>

\* i characters give i - 1 bytes.
Rest ==
  /\ pc = "rest"
  /\ val' = val \o SubSeq(char_array_3(Padded), 1, Len(char_array_4) - 1)
  /\ pc' = "done"
  /\ UNCHANGED <<message, encoded_string, in_len, in_, char_array_4>>

Next == Collect \/ Group \/ EndOfInput \/ Rest

Spec == Init /\ [][Next]_vars

-----------------------------------------------------------------------------
(* Properties                                                              *)

\* base64_decode_by_reference inverts the encoding: it returns the value that
\* was stored, whatever its length, whether the encoding is padded, cut at the
\* padding, or followed by a stray character.
Decoded == pc = "done" => val = message

\* The loop invariant.  The index and the count of characters agree, so that
\* nothing behind the null character is read.  After in_ characters the whole
\* groups have given their bytes, the others are those of the group under way,
\* and what is left of the input is its tail once the loop has stopped.
LoopInv ==
  /\ TypeOK
  /\ \E tail \in Tails(message) : encoded_string = Encoded(message, tail)
  /\ in_ + in_len = Len(encoded_string) - (IF pc = "loop" THEN 0 ELSE 1)
  /\ \A i \in 1..in_ : encoded_string[i] # Other
  /\ Len(char_array_4) = in_ % 4
  /\ \A j \in 1..Len(char_array_4) :
       char_array_4[j] = encoded_string[(in_ - (in_ % 4)) + j]
  /\ pc # "loop" => Character = Other
  /\ pc # "done" => /\ Len(val) = 3 * (in_ \div 4)
                    /\ Len(val) <= Len(message)
                    /\ \A j \in 1..Len(val) : val[j] = message[j]
  /\ Decoded
=============================================================================
