---------------------------- MODULE Base64_proofs ----------------------------
(***************************************************************************)
(* The decoder of Base64 inverts the encoding, for messages of any length. *)
(***************************************************************************)
EXTENDS Base64, SequenceTheorems, TLAPS

-----------------------------------------------------------------------------
(* The encoding                                                            *)

\* What the code's masks and shifts take apart, they put together again.
LEMMA ThreeBytes ==
  ASSUME NEW a \in Byte, NEW b \in Byte, NEW c \in Byte
  PROVE  LET s == <<a \div 4, 16 * (a % 4) + (b \div 16),
                    4 * (b % 16) + (c \div 64), c % 64>>
         IN  char_array_3(s) = <<a, b, c>>
BY DEF Byte, char_array_3

\* The last group may hold two or three characters only, and Npos.
LEMMA OneByte ==
  ASSUME NEW a \in Byte, NEW b \in Byte, NEW x \in Int, NEW y \in Int
  PROVE  char_array_3(<<a \div 4, 16 * (a % 4) + (b \div 16), x, y>>)[1] = a
BY DEF Byte, char_array_3

LEMMA TwoBytes ==
  ASSUME NEW a \in Byte, NEW b \in Byte, NEW c \in Byte, NEW y \in Int
  PROVE  char_array_3(<<a \div 4, 16 * (a % 4) + (b \div 16),
                        4 * (b % 16) + (c \div 64), y>>)[2] = b
BY DEF Byte, char_array_3

\* Whatever the characters, the result is made of bytes.
LEMMA BytesOfFour ==
  ASSUME NEW w \in Int, NEW x \in Int, NEW y \in Int, NEW z \in Int
  PROVE  char_array_3(<<w, x, y, z>>) \in Seq(Byte) /\ Len(char_array_3(<<w, x, y, z>>)) = 3
<1>1. \A n \in Int : n % 256 \in Byte
  BY DEF Byte
<1>2. \A n \in Int : 4 * n \in Int /\ 16 * n \in Int /\ 64 * n \in Int /\ n % 4 \in Int
                     /\ n % 16 \in Int /\ n \div 4 \in Int /\ n \div 16 \in Int
  OBVIOUS
<1> QED
  BY <1>1, <1>2 DEF char_array_3

LEMMA ByteOfIsByte ==
  ASSUME NEW m \in Seq(Byte), NEW i \in Int
  PROVE  ByteOf(m, i) \in Byte
BY ElementOfSeq DEF ByteOf, Byte

LEMMA SextetOfIsSextet ==
  ASSUME NEW m \in Seq(Byte), NEW i \in Nat \ {0}
  PROVE  SextetOf(m, i) \in Sextet
<1> DEFINE b == 3 * ((i - 1) \div 4) + 1
<1>1. b \in Int /\ b + 1 \in Int /\ b + 2 \in Int
  OBVIOUS
<1>2. /\ ByteOf(m, b) \in 0..255
      /\ ByteOf(m, b + 1) \in 0..255
      /\ ByteOf(m, b + 2) \in 0..255
  BY <1>1, ByteOfIsByte DEF Byte
<1> HIDE DEF b
<1>3. i % 4 \in 0..3
  OBVIOUS
<1>4. /\ ByteOf(m, b) \div 4 \in Sextet
      /\ 16 * (ByteOf(m, b) % 4) + (ByteOf(m, b + 1) \div 16) \in Sextet
      /\ 4 * (ByteOf(m, b + 1) % 16) + (ByteOf(m, b + 2) \div 64) \in Sextet
      /\ ByteOf(m, b + 2) % 64 \in Sextet
  <2>1. \A x \in 0..255 : x \div 4 \in 0..63 /\ x % 64 \in 0..63
    OBVIOUS
  <2>2. \A x, y \in 0..255 : 16 * (x % 4) + (y \div 16) \in 0..63
    OBVIOUS
  <2>3. \A x, y \in 0..255 : 4 * (x % 16) + (y \div 64) \in 0..63
    OBVIOUS
  <2> QED
    BY <1>2, <2>1, <2>2, <2>3, Zenon DEF Sextet
<1>5. SextetOf(m, i) = CASE i % 4 = 1 -> ByteOf(m, b) \div 4
        [] i % 4 = 2 -> 16 * (ByteOf(m, b) % 4) + (ByteOf(m, b + 1) \div 16)
        [] i % 4 = 3 -> 4 * (ByteOf(m, b + 1) % 16) + (ByteOf(m, b + 2) \div 64)
        [] OTHER     -> ByteOf(m, b + 2) % 64
  BY Zenon DEF SextetOf, b
<1> QED
  BY <1>3, <1>4, <1>5

LEMMA SextetIsInt ==
  ASSUME NEW m \in Seq(Byte), NEW i \in Nat \ {0}
  PROVE  SextetOf(m, i) \in Int /\ SextetOf(m, i) # Other
<1>1. SextetOf(m, i) \in Sextet
  BY SextetOfIsSextet
<1>2. \A x \in Sextet : x \in Int /\ x # Other
  BY DEF Sextet, Other
<1> QED
  BY <1>1, <1>2, Zenon

\* The length of the encoding, by the length of the last group.
LEMMA Lengths ==
  ASSUME NEW m \in Seq(Byte)
  PROVE  /\ EncodedLength(m) \in Nat
         /\ Len(m) % 3 = 0 => /\ EncodedLength(m) % 4 = 0
                              /\ 3 * (EncodedLength(m) \div 4) = Len(m)
         /\ Len(m) % 3 = 1 => /\ EncodedLength(m) % 4 = 2
                              /\ 3 * (EncodedLength(m) \div 4) = Len(m) - 1
         /\ Len(m) % 3 = 2 => /\ EncodedLength(m) % 4 = 3
                              /\ 3 * (EncodedLength(m) \div 4) = Len(m) - 2
BY DEF EncodedLength

LEMMA TailsAreSeqs ==
  ASSUME NEW m \in Seq(Byte), NEW tail \in Tails(m)
  PROVE  tail \in Seq(Sextet \cup {Other})
<1> DEFINE C == Sextet \cup {Other}
<1>1. 0 \in C /\ 1 \in C /\ 63 \in C /\ Other \in C
  BY DEF Sextet
<1> HIDE DEF C
<1>2. \A c \in C : <<>> \in Seq(C) /\ <<c>> \in Seq(C)
  OBVIOUS
<1>3. \A c, d, e \in C : <<c, d>> \in Seq(C) /\ <<c, d, e>> \in Seq(C)
  OBVIOUS
<1>4. \/ tail = <<>> \/ tail = <<Other>> \/ tail = <<Other, 0>> \/ tail = <<Other, Other>>
      \/ tail = <<0>> \/ tail = <<63>> \/ tail = <<63, Other, 1>>
  BY DEF Tails
<1>5. tail \in Seq(C)
  BY <1>1, <1>2, <1>3, <1>4
<1> QED
  BY <1>5 DEF C

LEMMA EncodedIsSeq ==
  ASSUME NEW m \in Seq(Byte), NEW tail \in Tails(m)
  PROVE  /\ Encoded(m, tail) \in Seq(Sextet \cup {Other})
         /\ Len(Encoded(m, tail)) = EncodedLength(m) + Len(tail)
<1> DEFINE n == EncodedLength(m) + Len(tail)
<1>1. n \in Nat /\ EncodedLength(m) \in Nat /\ tail \in Seq(Sextet \cup {Other})
  BY Lengths, TailsAreSeqs
<1>2. \A i \in 1..n : Encoded(m, tail)[i] \in Sextet \cup {Other}
  <2> TAKE i \in 1..n
  <2>1. CASE i <= EncodedLength(m)
    BY <2>1, <1>1, SextetOfIsSextet DEF Encoded
  <2>2. CASE i > EncodedLength(m)
    <3>1. i - EncodedLength(m) \in 1..Len(tail)
      BY <2>2, <1>1
    <3>2. tail[i - EncodedLength(m)] \in Sextet \cup {Other}
      BY <3>1, <1>1, ElementOfSeq
    <3>3. ~(i <= EncodedLength(m))
      BY <2>2, <1>1
    <3> QED
      BY <3>2, <3>3 DEF Encoded
  <2> QED
    BY <2>1, <2>2, <1>1
<1>3. Encoded(m, tail) \in [1..n -> Sextet \cup {Other}]
  BY <1>2 DEF Encoded
<1> QED
  BY <1>1, <1>3, SeqDef

\* The four characters of group g, counted from 0.
LEMMA FourSextets ==
  ASSUME NEW m \in Seq(Byte), NEW g \in Nat
  PROVE  LET a == ByteOf(m, 3 * g + 1)
             b == ByteOf(m, 3 * g + 2)
             c == ByteOf(m, 3 * g + 3)
         IN  /\ SextetOf(m, 4 * g + 1) = a \div 4
             /\ SextetOf(m, 4 * g + 2) = 16 * (a % 4) + (b \div 16)
             /\ SextetOf(m, 4 * g + 3) = 4 * (b % 16) + (c \div 64)
             /\ SextetOf(m, 4 * g + 4) = c % 64
<1>1. /\ (4 * g + 1) % 4 = 1 /\ (4 * g + 1 - 1) \div 4 = g
      /\ (4 * g + 2) % 4 = 2 /\ (4 * g + 2 - 1) \div 4 = g
      /\ (4 * g + 3) % 4 = 3 /\ (4 * g + 3 - 1) \div 4 = g
      /\ (4 * g + 4) % 4 = 0 /\ (4 * g + 4 - 1) \div 4 = g
  OBVIOUS
<1>2. 3 * g + 1 + 1 = 3 * g + 2 /\ 3 * g + 1 + 2 = 3 * g + 3
  OBVIOUS
<1>3. \A i \in Nat : (i - 1) \div 4 = g =>
        LET a == ByteOf(m, 3 * g + 1)
            b == ByteOf(m, 3 * g + 2)
            c == ByteOf(m, 3 * g + 3)
        IN  /\ i % 4 = 1 => SextetOf(m, i) = a \div 4
            /\ i % 4 = 2 => SextetOf(m, i) = 16 * (a % 4) + (b \div 16)
            /\ i % 4 = 3 => SextetOf(m, i) = 4 * (b % 16) + (c \div 64)
            /\ i % 4 = 0 => SextetOf(m, i) = c % 64
  <2> TAKE i \in Nat
  <2> HAVE (i - 1) \div 4 = g
  <2> DEFINE b == 3 * ((i - 1) \div 4) + 1
  <2>1. b = 3 * g + 1 /\ b + 1 = 3 * g + 2 /\ b + 2 = 3 * g + 3
    OBVIOUS
  <2>2. SextetOf(m, i) = CASE i % 4 = 1 -> ByteOf(m, b) \div 4
          [] i % 4 = 2 -> 16 * (ByteOf(m, b) % 4) + (ByteOf(m, b + 1) \div 16)
          [] i % 4 = 3 -> 4 * (ByteOf(m, b + 1) % 16) + (ByteOf(m, b + 2) \div 64)
          [] OTHER     -> ByteOf(m, b + 2) % 64
    BY Zenon DEF SextetOf
  <2> HIDE DEF b
  <2>3. /\ i % 4 = 1 => ~(i % 4 = 2) /\ ~(i % 4 = 3)
        /\ i % 4 = 2 => ~(i % 4 = 1) /\ ~(i % 4 = 3)
        /\ i % 4 = 3 => ~(i % 4 = 1) /\ ~(i % 4 = 2)
        /\ i % 4 = 0 => ~(i % 4 = 1) /\ ~(i % 4 = 2) /\ ~(i % 4 = 3)
    OBVIOUS
  <2>4. /\ i % 4 = 1 => SextetOf(m, i) = ByteOf(m, b) \div 4
        /\ i % 4 = 2 => SextetOf(m, i) = 16 * (ByteOf(m, b) % 4) + (ByteOf(m, b + 1) \div 16)
        /\ i % 4 = 3 => SextetOf(m, i) = 4 * (ByteOf(m, b + 1) % 16) + (ByteOf(m, b + 2) \div 64)
        /\ i % 4 = 0 => SextetOf(m, i) = ByteOf(m, b + 2) % 64
    BY <2>2, <2>3, Zenon
  <2> QED
    BY <2>1, <2>4, Zenon
<1>4. 4 * g + 1 \in Nat /\ 4 * g + 2 \in Nat /\ 4 * g + 3 \in Nat /\ 4 * g + 4 \in Nat
  OBVIOUS
<1> QED
  BY <1>1, <1>3, <1>4

\* A whole group decodes to its bytes ...
LEMMA WholeGroup ==
  ASSUME NEW m \in Seq(Byte), NEW g \in Nat, 3 * g + 3 <= Len(m)
  PROVE  char_array_3(<<SextetOf(m, 4 * g + 1), SextetOf(m, 4 * g + 2),
                        SextetOf(m, 4 * g + 3), SextetOf(m, 4 * g + 4)>>)
         = <<m[3 * g + 1], m[3 * g + 2], m[3 * g + 3]>>
<1>1. /\ ByteOf(m, 3 * g + 1) = m[3 * g + 1]
      /\ ByteOf(m, 3 * g + 2) = m[3 * g + 2]
      /\ ByteOf(m, 3 * g + 3) = m[3 * g + 3]
  BY DEF ByteOf
<1> QED
  BY <1>1, FourSextets, ThreeBytes, ByteOfIsByte

\* ... and a partial one to those it has.
LEMMA PartialGroup ==
  ASSUME NEW m \in Seq(Byte), NEW g \in Nat, NEW x \in Int, NEW y \in Int
  PROVE  /\ char_array_3(<<SextetOf(m, 4 * g + 1), SextetOf(m, 4 * g + 2), x, y>>)[1]
              = ByteOf(m, 3 * g + 1)
         /\ char_array_3(<<SextetOf(m, 4 * g + 1), SextetOf(m, 4 * g + 2),
                           SextetOf(m, 4 * g + 3), y>>)[1] = ByteOf(m, 3 * g + 1)
         /\ char_array_3(<<SextetOf(m, 4 * g + 1), SextetOf(m, 4 * g + 2),
                           SextetOf(m, 4 * g + 3), y>>)[2] = ByteOf(m, 3 * g + 2)
<1>1. SextetOf(m, 4 * g + 3) \in Int
  <2>1. 4 * g + 3 \in Nat \ {0}
    OBVIOUS
  <2> QED
    BY <2>1, SextetIsInt
<1>2. /\ ByteOf(m, 3 * g + 1) \in Byte
      /\ ByteOf(m, 3 * g + 2) \in Byte
      /\ ByteOf(m, 3 * g + 3) \in Byte
  BY ByteOfIsByte
<1> QED
  BY <1>1, <1>2, FourSextets, OneByte, TwoBytes

\* Characters of the alphabet are read up to the end of the encoded message, or
\* one further if the last group is whole, and the loop stops no earlier.
LEMMA ReadBound ==
  ASSUME NEW m \in Seq(Byte), NEW tail \in Tails(m),
         NEW n \in 0..Len(Encoded(m, tail)),
         \A i \in 1..n : Encoded(m, tail)[i] # Other
  PROVE  /\ n <= EncodedLength(m) \/ (n = EncodedLength(m) + 1 /\ Len(m) % 3 = 0)
         /\ n < EncodedLength(m) => /\ n < Len(Encoded(m, tail))
                                    /\ Encoded(m, tail)[n + 1] # Other
<1> DEFINE L == EncodedLength(m)
<1>1. L \in Nat /\ Len(tail) \in Nat /\ Len(Encoded(m, tail)) = L + Len(tail)
  BY Lengths, TailsAreSeqs, EncodedIsSeq
<1>2. \A i \in 1..Len(tail) : Encoded(m, tail)[L + i] = tail[i]
  BY <1>1 DEF Encoded
<1>3. \A i \in 1..L : Encoded(m, tail)[i] = SextetOf(m, i)
  BY <1>1 DEF Encoded
<1>4. \A i \in 1..L : Encoded(m, tail)[i] # Other
  <2> TAKE i \in 1..L
  <2>1. i \in Nat \ {0}
    BY <1>1
  <2> QED
    BY <1>3, <2>1, SextetIsInt
<1>5. \A i \in 1..Len(tail) : tail[i] = Other => n < L + i
  <2> SUFFICES ASSUME NEW i \in 1..Len(tail), tail[i] = Other, n >= L + i
               PROVE  FALSE
    BY <1>1
  <2>1. L + i \in 1..n
    BY <1>1
  <2> QED
    BY <2>1, <1>2
<1> HIDE DEF L
<1>6. \/ tail = <<>>
      \/ Len(tail) >= 1 /\ tail[1] = Other
      \/ Len(tail) = 1 /\ Len(m) % 3 = 0
      \/ Len(tail) >= 2 /\ tail[2] = Other /\ Len(m) % 3 = 0
  BY DEF Tails
<1>7. n <= L \/ (n = L + 1 /\ Len(m) % 3 = 0)
  BY <1>1, <1>5, <1>6
<1>8. n < L => n + 1 \in 1..L
  BY <1>1
<1> QED
  BY <1>1, <1>4, <1>7, <1>8 DEF L

-----------------------------------------------------------------------------
(* The decoder                                                             *)

LEMMA InitLoopInv == Init => LoopInv
<1> SUFFICES ASSUME Init PROVE LoopInv
  OBVIOUS
<1>1. message \in Seq(Byte)
  BY MessagesAssumption DEF Init
<1>2. PICK tail \in Tails(message) : encoded_string = Encoded(message, tail)
  BY DEF Init
<1>3. /\ encoded_string \in Seq(Sextet \cup {Other})
      /\ Len(encoded_string) \in Nat
  BY <1>1, <1>2, EncodedIsSeq
<1>4. in_ = 0 /\ in_len = Len(encoded_string)
      /\ char_array_4 = <<>> /\ val = <<>> /\ pc = "loop" /\ message \in Messages
  BY DEF Init
<1>5. TypeOK
  BY <1>3, <1>4 DEF TypeOK
<1> QED
  BY <1>1, <1>2, <1>4, <1>5 DEF LoopInv, Decoded

\* The loop goes on exactly as long as there is a character of the alphabet:
\* the count is zero when the index is behind the last character.
LEMMA CountMatchesIndex ==
  ASSUME LoopInv
  PROVE  /\ pc = "loop" => (More <=> Character # Other)
         /\ Character # Other => /\ in_ + 1 \in 1..Len(encoded_string)
                                /\ Character = encoded_string[in_ + 1]
         /\ in_ < Len(encoded_string) /\ encoded_string[in_ + 1] # Other => Character # Other
<1>1. /\ in_ \in 0..Len(encoded_string) /\ in_len \in -1..Len(encoded_string)
      /\ Len(encoded_string) \in Nat
      /\ pc = "loop" => in_ + in_len = Len(encoded_string)
  BY DEF LoopInv, TypeOK
<1>2. Character # Other => in_ < Len(encoded_string) /\ Character = encoded_string[in_ + 1]
  BY DEF Character
<1> QED
  BY <1>1, <1>2 DEF More, Character

\* What LoopInv says of the input, with a witness for the tail.
LEMMA InputRead ==
  ASSUME LoopInv
  PROVE  /\ message \in Seq(Byte)
         /\ in_ \in Nat
         /\ \A i \in 1..EncodedLength(message) : encoded_string[i] = SextetOf(message, i)
         /\ \/ in_ <= EncodedLength(message)
            \/ in_ = EncodedLength(message) + 1 /\ Len(message) % 3 = 0
         /\ in_ < EncodedLength(message) => Character # Other
         /\ Character # Other =>
              /\ in_ + 1 \in 1..Len(encoded_string)
              /\ Character = encoded_string[in_ + 1] /\ Character \in Sextet
              /\ \/ in_ + 1 <= EncodedLength(message)
                 \/ in_ + 1 = EncodedLength(message) + 1 /\ Len(message) % 3 = 0
<1>1. message \in Seq(Byte) /\ in_ \in 0..Len(encoded_string) /\ Len(encoded_string) \in Nat
  BY MessagesAssumption DEF LoopInv, TypeOK
<1>2. PICK tail \in Tails(message) : encoded_string = Encoded(message, tail)
  BY DEF LoopInv
<1>3. Len(tail) \in Nat /\ EncodedLength(message) \in Nat
  BY <1>1, TailsAreSeqs, Lengths
<1>4. \A i \in 1..EncodedLength(message) : encoded_string[i] = SextetOf(message, i)
  BY <1>2, <1>3 DEF Encoded
<1>5. \A i \in 1..in_ : encoded_string[i] # Other
  BY DEF LoopInv
<1>6. /\ \/ in_ <= EncodedLength(message)
         \/ in_ = EncodedLength(message) + 1 /\ Len(message) % 3 = 0
      /\ in_ < EncodedLength(message) => Character # Other
  BY <1>1, <1>2, <1>5, ReadBound, CountMatchesIndex
<1>7. ASSUME Character # Other
      PROVE  /\ in_ + 1 \in 1..Len(encoded_string)
             /\ Character = encoded_string[in_ + 1] /\ Character \in Sextet
             /\ \/ in_ + 1 <= EncodedLength(message)
                \/ in_ + 1 = EncodedLength(message) + 1 /\ Len(message) % 3 = 0
  <2>1. /\ in_ + 1 \in 1..Len(encoded_string)
        /\ Character = encoded_string[in_ + 1] /\ encoded_string[in_ + 1] # Other
    BY <1>7, CountMatchesIndex
  <2>2. encoded_string[in_ + 1] \in Sextet
    BY <2>1, ElementOfSeq DEF LoopInv, TypeOK
  <2>3. \A i \in 1..(in_ + 1) : encoded_string[i] # Other
    BY <1>1, <1>5, <2>1
  <2>4. in_ + 1 \in 0..Len(encoded_string)
    BY <1>1, <2>1
  <2> QED
    BY <1>1, <1>2, <2>1, <2>2, <2>3, <2>4, ReadBound
<1> QED
  BY <1>1, <1>4, <1>6, <1>7

LEMMA CollectLoopInv ==
  ASSUME LoopInv, Collect
  PROVE  LoopInv'
<1> DEFINE c == Character
<1>1. /\ in_ \in Nat /\ in_len \in 1..Len(encoded_string)
      /\ in_ + 1 \in 1..Len(encoded_string) /\ in_ + in_len = Len(encoded_string)
      /\ c \in Sextet /\ c = encoded_string[in_ + 1]
      /\ c # Other
  <2>1. Character # Other /\ pc = "loop" /\ in_len # 0
    BY DEF Collect, More
  <2> QED
    BY <2>1, InputRead DEF LoopInv, TypeOK
<1>2. /\ char_array_4 \in Seq(Sextet) /\ Len(char_array_4) < 3
      /\ char_array_4' = Append(char_array_4, c)
      /\ in_' = in_ + 1 /\ in_len' = in_len - 1
      /\ UNCHANGED <<message, encoded_string, pc, val>>
      /\ pc = "loop"
  BY DEF Collect, LoopInv, TypeOK
<1> HIDE DEF c
<1>3. /\ char_array_4' \in Seq(Sextet) /\ Len(char_array_4') = Len(char_array_4) + 1
      /\ \A j \in 1..Len(char_array_4) : char_array_4'[j] = char_array_4[j]
      /\ char_array_4'[Len(char_array_4) + 1] = c
      /\ Len(char_array_4) \in Nat
  BY <1>1, <1>2
<1>4. TypeOK'
  BY <1>1, <1>2, <1>3 DEF LoopInv, TypeOK
<1>5. Len(char_array_4) = in_ % 4
  BY DEF LoopInv
<1>6. /\ in_' % 4 = (in_ % 4) + 1
      /\ in_' - (in_' % 4) = in_ - (in_ % 4)
      /\ in_' \div 4 = in_ \div 4
  BY <1>1, <1>2, <1>3, <1>5
<1>7. \A j \in 1..Len(char_array_4') :
        char_array_4'[j] = encoded_string'[(in_' - (in_' % 4)) + j]
  <2> TAKE j \in 1..Len(char_array_4')
  <2>1. CASE j \in 1..Len(char_array_4)
    BY <1>2, <1>3, <1>6, <2>1 DEF LoopInv
  <2>2. CASE j = Len(char_array_4) + 1
    <3>1. (in_' - (in_' % 4)) + j = in_ + 1
      BY <1>1, <1>5, <1>6, <2>2
    <3> QED
      BY <1>1, <1>2, <1>3, <2>2, <3>1
  <2> QED
    BY <1>3, <2>1, <2>2
<1>8. \A i \in 1..in_' : encoded_string'[i] # Other
  BY <1>1, <1>2 DEF LoopInv
<1>9. Len(char_array_4') = in_' % 4
  BY <1>3, <1>5, <1>6
<1>10. in_' + in_len' = Len(encoded_string')
  BY <1>1, <1>2
<1> QED
  BY <1>2, <1>4, <1>6, <1>7, <1>8, <1>9, <1>10 DEF LoopInv, Decoded

LEMMA Appended ==
  ASSUME NEW s \in Seq(Sextet), NEW c \in Sextet, NEW t, t = Append(s, c)
  PROVE  /\ t \in Seq(Sextet) /\ Len(t) = Len(s) + 1
         /\ \A i \in 1..Len(s) : t[i] = s[i]
         /\ t[Len(s) + 1] = c
OBVIOUS

LEMMA AppendedFourth ==
  ASSUME NEW s \in Seq(Sextet), Len(s) = 3, NEW c \in Sextet
  PROVE  Append(s, c) = <<s[1], s[2], s[3], c>>
<1> SUFFICES ASSUME NEW t, t = Append(s, c)
             PROVE  t = <<s[1], s[2], s[3], c>>
  BY Zenon
<1>1. t \in Seq(Sextet) /\ Len(t) = 4 /\ t[1] = s[1] /\ t[2] = s[2] /\ t[3] = s[3] /\ t[4] = c
  BY Appended
<1>2. s[1] \in Sextet /\ s[2] \in Sextet /\ s[3] \in Sextet
  <2>1. 1 \in 1..Len(s) /\ 2 \in 1..Len(s) /\ 3 \in 1..Len(s)
    OBVIOUS
  <2> QED
    BY <2>1, ElementOfSeq
<1>3. <<s[1], s[2], s[3], c>> \in Seq(Sextet) /\ Len(<<s[1], s[2], s[3], c>>) = 4
  BY <1>2
<1>4. \A i \in 1..4 : i = 1 \/ i = 2 \/ i = 3 \/ i = 4
  OBVIOUS
<1>5. \A i \in 1..4 : t[i] = <<s[1], s[2], s[3], c>>[i]
  BY <1>1, <1>4
<1> QED
  BY <1>1, <1>3, <1>5, SeqEqual

LEMMA GroupLoopInv ==
  ASSUME LoopInv, Group
  PROVE  LoopInv'
<1> DEFINE c == Character
           g == in_ \div 4
           bytes == char_array_3(Append(char_array_4, c))
<1>1. /\ message \in Seq(Byte) /\ in_ \in Nat /\ in_len \in 1..Len(encoded_string)
      /\ in_ + 1 \in 1..Len(encoded_string) /\ in_ + in_len = Len(encoded_string)
      /\ c \in Sextet /\ c = encoded_string[in_ + 1] /\ c # Other
      /\ \/ in_ + 1 <= EncodedLength(message)
         \/ in_ + 1 = EncodedLength(message) + 1 /\ Len(message) % 3 = 0
  <2>1. Character # Other /\ pc = "loop" /\ in_len # 0
    BY DEF Group, More
  <2> QED
    BY <2>1, InputRead DEF LoopInv, TypeOK
<1>2. /\ char_array_4 \in Seq(Sextet) /\ Len(char_array_4) = 3
      /\ val' = val \o bytes /\ char_array_4' = <<>> /\ in_' = in_ + 1
      /\ in_len' = in_len - 1
      /\ UNCHANGED <<message, encoded_string, pc>> /\ pc = "loop"
  BY DEF Group, LoopInv, TypeOK
<1>3. /\ in_ % 4 = 3 /\ g \in Nat /\ in_ = 4 * g + 3
      /\ in_' % 4 = 0 /\ in_' \div 4 = g + 1
  <2>1. in_ % 4 = 3
    BY <1>2 DEF LoopInv
  <2> QED
    BY <1>1, <1>2, <2>1
<1>4. in_ + 1 <= EncodedLength(message) /\ 3 * g + 3 <= Len(message)
  <2>1. Len(message) \in Nat /\ Len(message) % 3 \in 0..2
    BY <1>1
  <2>2. EncodedLength(message) # in_ \/ Len(message) % 3 # 0
    BY <1>1, <1>3, Lengths
  <2>3. in_ + 1 <= EncodedLength(message)
    BY <1>1, <2>2, Lengths
  <2>4. g + 1 <= EncodedLength(message) \div 4
    BY <1>1, <1>3, <2>3, Lengths
  <2> QED
    BY <1>1, <1>3, <2>1, <2>3, <2>4, Lengths
<1>5. Append(char_array_4, c) =
        <<SextetOf(message, 4 * g + 1), SextetOf(message, 4 * g + 2),
          SextetOf(message, 4 * g + 3), SextetOf(message, 4 * g + 4)>>
  <2>1. /\ char_array_4[1] = encoded_string[4 * g + 1]
        /\ char_array_4[2] = encoded_string[4 * g + 2]
        /\ char_array_4[3] = encoded_string[4 * g + 3]
    <3>1. in_ - (in_ % 4) = 4 * g
      BY <1>3
    <3>2. \A j \in 1..3 : char_array_4[j] = encoded_string[4 * g + j]
      BY <1>2, <3>1 DEF LoopInv
    <3> QED
      BY <3>2
  <2>2. /\ encoded_string[4 * g + 1] = SextetOf(message, 4 * g + 1)
        /\ encoded_string[4 * g + 2] = SextetOf(message, 4 * g + 2)
        /\ encoded_string[4 * g + 3] = SextetOf(message, 4 * g + 3)
        /\ c = SextetOf(message, 4 * g + 4)
    <3>1. \A i \in 1..EncodedLength(message) : encoded_string[i] = SextetOf(message, i)
      BY InputRead
    <3>2. /\ 4 * g + 1 \in 1..EncodedLength(message)
          /\ 4 * g + 2 \in 1..EncodedLength(message)
          /\ 4 * g + 3 \in 1..EncodedLength(message)
          /\ 4 * g + 4 \in 1..EncodedLength(message)
      BY <1>1, <1>3, <1>4, Lengths
    <3>3. c = encoded_string[4 * g + 4]
      BY <1>1, <1>3
    <3> QED
      BY <3>1, <3>2, <3>3
  <2>3. Append(char_array_4, c) = <<char_array_4[1], char_array_4[2], char_array_4[3], c>>
    BY <1>1, <1>2, AppendedFourth
  <2> QED
    BY <2>1, <2>2, <2>3, Zenon
<1>6. bytes = <<message[3 * g + 1], message[3 * g + 2], message[3 * g + 3]>>
  BY <1>1, <1>3, <1>4, <1>5, WholeGroup
<1>7. bytes \in Seq(Byte) /\ Len(bytes) = 3
  <2>1. /\ 3 * g + 1 \in 1..Len(message)
        /\ 3 * g + 2 \in 1..Len(message)
        /\ 3 * g + 3 \in 1..Len(message)
    BY <1>1, <1>3, <1>4
  <2>2. /\ message[3 * g + 1] \in Byte
        /\ message[3 * g + 2] \in Byte
        /\ message[3 * g + 3] \in Byte
    BY <1>1, <2>1, ElementOfSeq
  <2> QED
    BY <1>6, <2>2
<1>8. val \in Seq(Byte) /\ Len(val) = 3 * g /\ \A j \in 1..Len(val) : val[j] = message[j]
  BY <1>2 DEF LoopInv, TypeOK
<1> HIDE DEF c, bytes, g
<1>9. /\ val' \in Seq(Byte) /\ Len(val') = 3 * (g + 1)
      /\ \A j \in 1..(3 * g + 3) :
           val'[j] = IF j <= 3 * g THEN val[j] ELSE bytes[j - 3 * g]
  <2>1. /\ val \o bytes \in Seq(Byte)
        /\ Len(val \o bytes) = Len(val) + Len(bytes)
        /\ \A j \in 1..Len(val) + Len(bytes) :
             (val \o bytes)[j] = IF j <= Len(val) THEN val[j] ELSE bytes[j - Len(val)]
    BY <1>7, <1>8, ConcatProperties
  <2>2. val' = val \o bytes /\ Len(val) = 3 * g /\ Len(bytes) = 3 /\ g \in Nat
    BY <1>2, <1>3, <1>7, <1>8
  <2> QED
    BY <2>1, <2>2
<1>10. \A j \in 1..Len(val') : val'[j] = message[j]
  <2> TAKE j \in 1..Len(val')
  <2>1. CASE j \in 1..(3 * g)
    BY <1>3, <1>8, <1>9, <2>1
  <2>2. CASE j \in {3 * g + 1, 3 * g + 2, 3 * g + 3}
    <3>1. val'[j] = bytes[j - 3 * g]
      BY <1>3, <1>9, <2>2
    <3>2. j - 3 * g \in 1..3 /\ j = 3 * g + (j - 3 * g)
      BY <1>3, <2>2
    <3>3. bytes[1] = message[3 * g + 1] /\ bytes[2] = message[3 * g + 2]
          /\ bytes[3] = message[3 * g + 3]
      BY <1>6
    <3> QED
      BY <1>3, <2>2, <3>1, <3>3
  <2>3. j \in 1..(3 * g + 3)
    BY <1>3, <1>9
  <2> QED
    BY <1>3, <2>1, <2>2, <2>3
<1>11. TypeOK'
  BY <1>1, <1>2, <1>9 DEF LoopInv, TypeOK
<1>12. \A i \in 1..in_' : encoded_string'[i] # Other
  BY <1>1, <1>2 DEF LoopInv
<1>13. in_' + in_len' = Len(encoded_string')
  BY <1>1, <1>2
<1> QED
  BY <1>1, <1>2, <1>3, <1>4, <1>9, <1>10, <1>11, <1>12, <1>13 DEF LoopInv, Decoded

LEMMA EndLoopInv ==
  ASSUME LoopInv, EndOfInput
  PROVE  LoopInv'
<1>1. /\ pc = "loop" /\ pc' = "rest" /\ in_len' = in_len - 1
      /\ UNCHANGED <<message, encoded_string, in_, char_array_4, val>>
      /\ Character = Other
  BY CountMatchesIndex DEF EndOfInput
<1>2. /\ in_ \in 0..Len(encoded_string) /\ in_len \in -1..Len(encoded_string)
      /\ in_ + in_len = Len(encoded_string) /\ Len(encoded_string) \in Nat
  BY <1>1 DEF LoopInv, TypeOK
<1>3. /\ in_len' \in -1..Len(encoded_string)
      /\ in_' + in_len' = Len(encoded_string) - 1
  BY <1>1, <1>2
<1>4. TypeOK'
  BY <1>1, <1>3 DEF LoopInv, TypeOK
<1> QED
  BY <1>1, <1>3, <1>4 DEF LoopInv, Character, Decoded

\* How many bytes there are, by the number of characters read.
LEMMA LastGroup ==
  ASSUME NEW len \in Nat, NEW e \in Nat, NEW i \in Nat,
         len % 3 = 0 => e % 4 = 0 /\ 3 * (e \div 4) = len,
         len % 3 = 1 => e % 4 = 2 /\ 3 * (e \div 4) = len - 1,
         len % 3 = 2 => e % 4 = 3 /\ 3 * (e \div 4) = len - 2,
         i = e \/ (i = e + 1 /\ len % 3 = 0)
  PROVE  len = 3 * (i \div 4) + (IF i % 4 = 0 THEN 0 ELSE (i % 4) - 1)
<1>1. len % 3 \in 0..2
  OBVIOUS
<1>2. CASE i = e
  BY <1>1, <1>2
<1>3. CASE i = e + 1 /\ len % 3 = 0
  <2>1. i % 4 = 1 /\ i \div 4 = e \div 4
    BY <1>3
  <2> QED
    BY <1>3, <2>1
<1> QED
  BY <1>2, <1>3

LEMMA RestLoopInv ==
  ASSUME LoopInv, Rest
  PROVE  LoopInv'
<1> DEFINE g == in_ \div 4
           n == Len(char_array_4)
           four == char_array_3(Padded)
           bytes == SubSeq(four, 1, n - 1)
<1>1. /\ message \in Seq(Byte) /\ in_ \in Nat
      /\ Len(message) \in Nat /\ Len(message) % 3 \in 0..2
      /\ \/ in_ = EncodedLength(message)
         \/ in_ = EncodedLength(message) + 1 /\ Len(message) % 3 = 0
  BY InputRead, Lengths DEF Rest, LoopInv
<1>2. /\ char_array_4 \in Seq(Sextet) /\ n \in 0..3 /\ n = in_ % 4
      /\ val' = val \o bytes /\ pc = "rest" /\ pc' = "done"
      /\ UNCHANGED <<message, encoded_string, in_len, in_, char_array_4>>
  BY DEF Rest, LoopInv, TypeOK
<1>3. /\ g \in Nat /\ in_ = 4 * g + n /\ n - 1 \in Int
      /\ Len(message) = 3 * g + (IF n = 0 THEN 0 ELSE n - 1)
  <2>1. g \in Nat /\ in_ = 4 * g + n /\ n - 1 \in Int
    BY <1>1, <1>2
  <2>2. Len(message) = 3 * g + (IF in_ % 4 = 0 THEN 0 ELSE (in_ % 4) - 1)
    BY <1>1, Lengths, LastGroup
  <2> QED
    BY <1>2, <2>1, <2>2
<1>4. /\ val \in Seq(Byte) /\ Len(val) = 3 * g
      /\ \A j \in 1..Len(val) : val[j] = message[j]
  BY <1>2 DEF LoopInv, TypeOK
<1>5. /\ Padded[1] \in Int /\ Padded[2] \in Int /\ Padded[3] \in Int /\ Padded[4] \in Int
      /\ Padded = <<Padded[1], Padded[2], Padded[3], Padded[4]>>
      /\ four \in Seq(Byte) /\ Len(four) = 3
  <2>1. \A j \in 1..4 : j <= Len(char_array_4) => char_array_4[j] \in Sextet
    BY <1>2, ElementOfSeq
  <2>2. \A x \in Sextet : x \in Int
    BY DEF Sextet
  <2>3. \A j \in 1..4 : Padded[j] \in Int
    BY <2>1, <2>2 DEF Padded, Npos
  <2>4. Padded = <<Padded[1], Padded[2], Padded[3], Padded[4]>>
    BY DEF Padded
  <2> QED
    BY <2>3, <2>4, BytesOfFour
<1>6. /\ bytes \in Seq(Byte)
      /\ Len(bytes) = IF n = 0 THEN 0 ELSE n - 1
      /\ \A i \in 1..(n - 1) : bytes[i] = four[i]
  <2>1. \A i \in 1..(n - 1) : four[i] \in Byte
    <3> TAKE i \in 1..(n - 1)
    <3>1. i \in 1..3
      BY <1>2
    <3> HIDE DEF four
    <3>2. i \in 1..Len(four)
      BY <1>5, <3>1
    <3> QED
      BY <1>5, <3>2, ElementOfSeq
  <2>2. /\ bytes \in Seq(Byte)
        /\ Len(bytes) = IF 1 <= n - 1 THEN (n - 1) - 1 + 1 ELSE 0
        /\ \A i \in 1..((n - 1) - 1 + 1) : bytes[i] = four[1 + i - 1]
    <3> HIDE DEF four, n
    <3>1. 1 \in Int /\ n - 1 \in Int
      BY <1>3
    <3> QED
      BY <2>1, <3>1, SubSeqProperties
  <2> QED
    BY <1>2, <2>2
<1>7. \A i \in 1..(n - 1) : four[i] = message[3 * g + i]
  <2> SUFFICES ASSUME n \in {2, 3}
               PROVE  \A i \in 1..(n - 1) : four[i] = message[3 * g + i]
    <3>1. n \in {0, 1} => 1..(n - 1) = {}
      BY <1>2
    <3> QED
      BY <1>2, <3>1
  <2>1. in_ = EncodedLength(message)
    <3> SUFFICES ASSUME in_ = EncodedLength(message) + 1, Len(message) % 3 = 0
                 PROVE  FALSE
      BY <1>1
    <3>1. EncodedLength(message) \in Nat /\ EncodedLength(message) % 4 = 0
      BY <1>1, Lengths
    <3>2. in_ % 4 = 1
      BY <3>1
    <3> QED
      BY <1>2, <3>2
  <2>2. \A j \in 1..n : Padded[j] = SextetOf(message, 4 * g + j)
    <3> TAKE j \in 1..n
    <3>1. in_ - (in_ % 4) = 4 * g /\ j <= Len(char_array_4) /\ j \in 1..4
      BY <1>1, <1>2
    <3>2. Padded[j] = encoded_string[4 * g + j]
      BY <1>2, <3>1 DEF LoopInv, Padded
    <3>3. 4 * g + j \in 1..EncodedLength(message)
      <4>1. in_ \in Nat /\ in_ = 4 * (in_ \div 4) + (in_ % 4) /\ j \in 1..(in_ % 4)
        BY <1>1, <1>2
      <4> QED
        BY <2>1, <4>1
    <3> QED
      BY <3>2, <3>3, InputRead
  <2>3. Padded[3] \in Int /\ Padded[4] \in Int
    BY <1>5
  <2>4. /\ n = 2 => Padded = <<SextetOf(message, 4 * g + 1), SextetOf(message, 4 * g + 2),
                               Padded[3], Padded[4]>>
        /\ n = 3 => Padded = <<SextetOf(message, 4 * g + 1), SextetOf(message, 4 * g + 2),
                               SextetOf(message, 4 * g + 3), Padded[4]>>
    <3>1. n = 2 => Padded[1] = SextetOf(message, 4 * g + 1)
                   /\ Padded[2] = SextetOf(message, 4 * g + 2)
      BY <2>2
    <3>2. n = 3 => /\ Padded[1] = SextetOf(message, 4 * g + 1)
                   /\ Padded[2] = SextetOf(message, 4 * g + 2)
                   /\ Padded[3] = SextetOf(message, 4 * g + 3)
      BY <2>2
    <3> QED
      BY <1>5, <3>1, <3>2, Zenon
  <2>5. /\ n = 2 => four[1] = ByteOf(message, 3 * g + 1)
        /\ n = 3 => /\ four[1] = ByteOf(message, 3 * g + 1)
                    /\ four[2] = ByteOf(message, 3 * g + 2)
    <3> HIDE DEF g, n
    <3>1. CASE n = 2
      <4>1. \A x, y \in Int :
              char_array_3(<<SextetOf(message, 4 * g + 1), SextetOf(message, 4 * g + 2), x, y>>)[1]
              = ByteOf(message, 3 * g + 1)
        BY <1>1, <1>3, PartialGroup
      <4>2. four[1] = ByteOf(message, 3 * g + 1)
        BY <2>3, <2>4, <3>1, <4>1, Zenon
      <4> QED
        BY <3>1, <4>2
    <3>2. CASE n = 3
      BY <1>1, <1>3, <2>3, <2>4, <3>2, PartialGroup
    <3> QED
      BY <3>1, <3>2
  <2>6. \A i \in 1..(n - 1) : ByteOf(message, 3 * g + i) = message[3 * g + i]
    BY <1>1, <1>2, <1>3 DEF ByteOf
  <2> HIDE DEF g, n, four
  <2> QED
    BY <2>5, <2>6
<1> HIDE DEF g, n, four, bytes
<1>8. /\ val' \in Seq(Byte) /\ Len(val') = Len(message)
      /\ \A j \in 1..Len(message) : val'[j] = message[j]
  <2>1. /\ val \o bytes \in Seq(Byte)
        /\ Len(val \o bytes) = Len(val) + Len(bytes)
        /\ \A j \in 1..Len(val) + Len(bytes) :
             (val \o bytes)[j] = IF j <= Len(val) THEN val[j] ELSE bytes[j - Len(val)]
    BY <1>4, <1>6, ConcatProperties
  <2>2. Len(val) + Len(bytes) = Len(message) /\ Len(bytes) \in Nat
    BY <1>2, <1>3, <1>4, <1>6
  <2>3. \A j \in 1..Len(message) : (val \o bytes)[j] = message[j]
    <3> TAKE j \in 1..Len(message)
    <3>1. CASE j <= Len(val)
      BY <1>1, <1>3, <1>4, <2>1, <2>2, <3>1
    <3>2. CASE ~(j <= Len(val))
      <4>1. j - Len(val) \in 1..(n - 1) /\ 3 * g + (j - Len(val)) = j
        BY <1>1, <1>2, <1>3, <1>4, <1>6, <2>2, <3>2
      <4>2. bytes[j - Len(val)] = message[j]
        BY <1>6, <1>7, <4>1
      <4> QED
        BY <2>1, <2>2, <3>2, <4>2
    <3> QED
      BY <3>1, <3>2
  <2> QED
    BY <1>2, <2>1, <2>2, <2>3
<1>9. val' = message
  BY <1>1, <1>8, SeqEqual
<1>10. TypeOK'
  BY <1>2, <1>8 DEF LoopInv, TypeOK
<1> QED
  BY <1>2, <1>9, <1>10 DEF LoopInv, Decoded, Character

\* The loop invariant holds for every message and every admissible tail; with
\* it, that index and count agree and nothing is read out of range.
THEOREM Invariance == Spec => []LoopInv
<1>1. LoopInv /\ [Next]_vars => LoopInv'
  <2> SUFFICES ASSUME LoopInv, [Next]_vars PROVE LoopInv'
    OBVIOUS
  <2>1. CASE Collect     BY <2>1, CollectLoopInv
  <2>2. CASE Group       BY <2>2, GroupLoopInv
  <2>3. CASE EndOfInput  BY <2>3, EndLoopInv
  <2>4. CASE Rest        BY <2>4, RestLoopInv
  <2>5. CASE UNCHANGED vars
    BY <2>5 DEF LoopInv, TypeOK, Character, Decoded, vars
  <2> QED
    BY <2>1, <2>2, <2>3, <2>4, <2>5 DEF Next
<1> QED
  BY InitLoopInv, <1>1, PTL DEF Spec

THEOREM TypeCorrect == Spec => []TypeOK
<1>1. LoopInv => TypeOK
  BY DEF LoopInv
<1> QED
  BY Invariance, <1>1, PTL

\* base64_decode_by_reference returns the value that was encoded, for values of
\* any length and content.
THEOREM DecodesWhatWasEncoded == Spec => []Decoded
<1>1. LoopInv => Decoded
  BY DEF LoopInv
<1> QED
  BY Invariance, <1>1, PTL
=============================================================================
