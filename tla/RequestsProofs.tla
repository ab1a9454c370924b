--------------------------- MODULE RequestsProofs ---------------------------
(***************************************************************************)
(* Theorems about one request and the validator, for every text, every     *)
(* JSON string and every limit.                                            *)
(***************************************************************************)
EXTENDS Requests, SequenceTheorems, WellFoundedInduction, TLAPS

\* Induction for a set instead of a predicate: the least-element principle of
\* WFMin takes no operator, so the provers can instantiate it.
LEMMA SetInduction ==
  ASSUME NEW S \in SUBSET Nat, 0 \in S, \A n \in S : n + 1 \in S
  PROVE  S = Nat
<1> SUFFICES ASSUME S # Nat PROVE FALSE
  OBVIOUS
<1> DEFINE R == OpToRel(<, Nat)
<1>1. IsWellFoundedOn(R, Nat)
  BY NatLessThanWellFounded
<1>2. Nat \ S \subseteq Nat /\ Nat \ S # {}
  OBVIOUS
<1> HIDE DEF R
<1>3. PICK x \in Nat \ S : \A y \in Nat \ S : ~(<<y, x>> \in R)
  BY <1>1, <1>2, WFMin
<1>4. x # 0 /\ x - 1 \in Nat
  OBVIOUS
<1>5. <<x - 1, x>> \in R
  BY <1>4, SMTT(40) DEF R, OpToRel
<1> QED
  BY <1>3, <1>4, <1>5

-----------------------------------------------------------------------------
(* json_get_string                                                         *)

\* f joins the first n characters for every n of its domain.
Joins(f, D, string) ==
  f = [n \in D |-> IF n = 0 THEN <<>> ELSE f[n - 1] \o Decoded(string[n])]

Joined(string) ==
  LET bytes[n \in Nat] ==
        IF n = 0 THEN <<>> ELSE bytes[n - 1] \o Decoded(string[n])
  IN  bytes

\* The recursive definition of GetString defines a function.
LEMMA JoinedExists ==
  ASSUME NEW string
  PROVE  Joins(Joined(string), Nat, string)
<1> DEFINE S == {n \in Nat : \E f : Joins(f, 0 .. n, string)}
<1>1. 0 \in S
  <2> DEFINE f == [n \in 0 .. 0 |-> <<>>]
  <2>1. Joins(f, 0 .. 0, string)
    BY DEF Joins
  <2> QED
    BY <2>1
<1>2. ASSUME NEW n \in S PROVE n + 1 \in S
  <2>1. PICK f : Joins(f, 0 .. n, string)
    BY <1>2
  <2> DEFINE g == [k \in 0 .. (n + 1) |->
                     IF k = n + 1 THEN f[n] \o Decoded(string[n + 1]) ELSE f[k]]
             h == [k \in 0 .. (n + 1) |->
                     IF k = 0 THEN <<>> ELSE g[k - 1] \o Decoded(string[k])]
  <2>2. \A k \in 0 .. n : f[k] = IF k = 0 THEN <<>> ELSE f[k - 1] \o Decoded(string[k])
    BY <2>1 DEF Joins
  <2>3. n \in Nat /\ \A k \in 0 .. n : g[k] = f[k]
    <3>1. n \in Nat
      OBVIOUS
    <3>2. \A k \in 0 .. n : k \in 0 .. (n + 1) /\ k # n + 1
      BY <3>1
    <3> QED
      BY <3>1, <3>2
  <2>4. ASSUME NEW k \in 0 .. (n + 1) PROVE g[k] = h[k]
    <3>1. CASE k = n + 1
      <4>1. k - 1 = n /\ k # 0 /\ n \in 0 .. n
        BY <2>3, <3>1
      <4> QED
        BY <2>3, <3>1, <4>1
    <3>2. CASE k # n + 1 /\ k # 0
      <4>1. k \in 0 .. n /\ k - 1 \in 0 .. n
        BY <2>3, <3>2
      <4> QED
        BY <2>2, <2>3, <3>2, <4>1
    <3>3. CASE k = 0
      BY <2>2, <2>3, <3>3
    <3> QED
      BY <3>1, <3>2, <3>3
  <2>5. g = h
    BY <2>4
  <2> HIDE DEF g
  <2>6. Joins(g, 0 .. (n + 1), string)
    BY <2>5 DEF Joins
  <2> QED
    BY <2>3, <2>6
<1>3. S = Nat
  <2> HIDE DEF S
  <2>1. S \in SUBSET Nat
    BY DEF S
  <2> QED
    BY <1>1, <1>2, <2>1, SetInduction
<1> DEFINE part(n) == CHOOSE f : Joins(f, 0 .. n, string)
           F == [n \in Nat |-> part(n)[n]]
<1>4. \A n \in Nat : Joins(part(n), 0 .. n, string)
  BY <1>3
<1> HIDE DEF part
<1>5. \A n \in Nat : \A k \in 0 .. n :
         part(n)[k] = IF k = 0 THEN <<>> ELSE part(n)[k - 1] \o Decoded(string[k])
  BY <1>4 DEF Joins
<1>6. ASSUME NEW n \in Nat PROVE \A k \in 0 .. n : part(n + 1)[k] = part(n)[k]
  <2> DEFINE T == {k \in Nat : k <= n => part(n + 1)[k] = part(n)[k]}
  <2>1. 0 \in T
    BY <1>5
  <2>2. ASSUME NEW k \in T PROVE k + 1 \in T
    <3> SUFFICES ASSUME k + 1 <= n PROVE part(n + 1)[k + 1] = part(n)[k + 1]
      OBVIOUS
    <3>1. k \in Nat /\ part(n + 1)[k] = part(n)[k]
      OBVIOUS
    <3>2. k + 1 \in 0 .. n /\ k + 1 \in 0 .. (n + 1) /\ k + 1 # 0 /\ (k + 1) - 1 = k
      BY <3>1
    <3>3. part(n)[k + 1] = part(n)[k] \o Decoded(string[k + 1])
      BY <1>5, <3>2
    <3>4. part(n + 1)[k + 1] = part(n + 1)[k] \o Decoded(string[k + 1])
      <4>1. n + 1 \in Nat
        OBVIOUS
      <4> QED
        BY <1>5, <3>2, <4>1
    <3> QED
      BY <3>1, <3>3, <3>4
  <2>3. T = Nat
    <3> HIDE DEF T
    <3>1. T \in SUBSET Nat
      BY DEF T
    <3> QED
      BY <2>1, <2>2, <3>1, SetInduction
  <2> QED
    BY <2>3
<1> DEFINE G == [n \in Nat |-> IF n = 0 THEN <<>> ELSE F[n - 1] \o Decoded(string[n])]
<1>7. ASSUME NEW n \in Nat PROVE F[n] = G[n]
  <2>1. CASE n = 0
    BY <1>5, <2>1
  <2>2. CASE n # 0
    <3>1. n - 1 \in Nat /\ n - 1 \in 0 .. (n - 1) /\ (n - 1) + 1 = n /\ n \in 0 .. n
      BY <2>2
    <3>2. part(n)[n - 1] = part(n - 1)[n - 1]
      BY <1>6, <3>1
    <3>3. part(n)[n] = part(n)[n - 1] \o Decoded(string[n])
      BY <1>5, <2>2, <3>1
    <3> QED
      BY <2>2, <3>1, <3>2, <3>3
  <2> QED
    BY <2>1, <2>2
<1>8. F = G
  BY <1>7
<1> HIDE DEF F
<1>9. Joins(F, Nat, string)
  BY <1>8 DEF Joins
<1> QED
  BY <1>9, Zenon DEF Joins, Joined

\* GetString is the last value of the recursion.
LEMMA GetStringIsJoined ==
  ASSUME NEW string
  PROVE  GetString(string) = Joined(string)[Len(string)]
BY DEF GetString, Joined

\* One step of the recursion.
LEMMA JoinedStep ==
  ASSUME NEW string
  PROVE  /\ Joined(string)[0] = <<>>
         /\ \A n \in Nat : Joined(string)[n + 1] = Joined(string)[n] \o Decoded(string[n + 1])
<1> DEFINE f == Joined(string)
<1>1. f = [n \in Nat |-> IF n = 0 THEN <<>> ELSE f[n - 1] \o Decoded(string[n])]
  BY JoinedExists DEF Joins
<1> HIDE DEF f
<1>2. f[0] = <<>>
  BY <1>1
<1>3. ASSUME NEW n \in Nat PROVE f[n + 1] = f[n] \o Decoded(string[n + 1])
  <2>1. n + 1 \in Nat /\ n + 1 # 0 /\ (n + 1) - 1 = n
    OBVIOUS
  <2> QED
    BY <1>1, <2>1
<1> QED
  BY <1>2, <1>3 DEF f

\* json_tokener turns every character into bytes.
LEMMA DecodedType ==
  ASSUME NEW char \in Character
  PROVE  Decoded(char) \in Seq(Byte)
<1> DEFINE c == char[2]
<1>1. c \in Nat /\ c <= \h10FFFF /\ (char[1] # "u" => c \in Byte)
  BY SMTT(40) DEF Character, CodePoint, Byte
<1> HIDE DEF c
<1>2. CASE char[1] # "u" \/ c <= \h7F
  <2>1. c \in Byte /\ Decoded(char) = <<c>>
    BY <1>1, <1>2, SMTT(40) DEF Decoded, c, Byte
  <2> QED
    BY <2>1, SMTT(40)
<1>3. CASE char[1] = "u" /\ c > \h7F /\ c <= \h7FF
  <2>1. Decoded(char) = <<\hC0 + (c \div 64), \h80 + (c % 64)>>
    BY <1>1, <1>3, SMTT(40) DEF Decoded, c
  <2>2. \hC0 + (c \div 64) \in Byte /\ \h80 + (c % 64) \in Byte
    BY <1>1, <1>3, SMTT(40) DEF Byte
  <2> QED
    BY <2>1, <2>2, SMTT(40)
<1>4. CASE char[1] = "u" /\ c > \h7FF /\ c \in \hD800 .. \hDFFF
  <2>1. Decoded(char) = <<\hEF, \hBF, \hBD>>
    BY <1>1, <1>4, SMTT(40) DEF Decoded, c
  <2>2. \hEF \in Byte /\ \hBF \in Byte /\ \hBD \in Byte
    BY SMTT(40) DEF Byte
  <2> QED
    BY <2>1, <2>2, SMTT(40)
<1>5. CASE char[1] = "u" /\ c > \h7FF /\ c \notin \hD800 .. \hDFFF /\ c <= \hFFFF
  <2>1. Decoded(char) =
          <<\hE0 + (c \div 4096), \h80 + ((c \div 64) % 64), \h80 + (c % 64)>>
    <3>1. /\ ~(char[1] # "u") /\ ~(c <= \h7F) /\ ~(c <= \h7FF)
          /\ ~(c \in \hD800 .. \hDFFF) /\ c <= \hFFFF
      BY <1>1, <1>5, SMTT(40)
    <3> QED
      BY <3>1, SMTT(40) DEF Decoded, c
  <2>2. /\ \hE0 + (c \div 4096) \in Byte /\ \h80 + ((c \div 64) % 64) \in Byte
        /\ \h80 + (c % 64) \in Byte
    BY <1>1, <1>5, SMTT(40) DEF Byte
  <2> QED
    BY <2>1, <2>2, SMTT(40)
<1>6. CASE char[1] = "u" /\ c > \hFFFF
  <2>1. Decoded(char) =
          <<\hF0 + (c \div 262144), \h80 + ((c \div 4096) % 64),
            \h80 + ((c \div 64) % 64), \h80 + (c % 64)>>
    <3>1. /\ ~(char[1] # "u") /\ ~(c <= \h7F) /\ ~(c <= \h7FF)
          /\ ~(c \in \hD800 .. \hDFFF) /\ ~(c <= \hFFFF)
      BY <1>1, <1>6, SMTT(40)
    <3> QED
      BY <3>1, SMTT(40) DEF Decoded, c
  <2>2. /\ \hF0 + (c \div 262144) \in Byte /\ \h80 + ((c \div 4096) % 64) \in Byte
        /\ \h80 + ((c \div 64) % 64) \in Byte /\ \h80 + (c % 64) \in Byte
    BY <1>1, <1>6, SMTT(40) DEF Byte
  <2> QED
    BY <2>1, <2>2, SMTT(40)
<1> QED
  BY <1>1, <1>2, <1>3, <1>4, <1>5, <1>6, SMTT(40)

\* json_get_string returns bytes for every JSON string.
LEMMA GetStringType ==
  ASSUME NEW string \in Seq(Character)
  PROVE  GetString(string) \in Seq(Byte)
<1> DEFINE f == Joined(string)
           S == {n \in Nat : n <= Len(string) => f[n] \in Seq(Byte)}
<1>1. 0 \in S
  BY JoinedStep, EmptySeq
<1>2. ASSUME NEW n \in S PROVE n + 1 \in S
  <2> SUFFICES ASSUME n + 1 <= Len(string) PROVE f[n + 1] \in Seq(Byte)
    OBVIOUS
  <2>1. n \in Nat /\ Len(string) \in Nat
    BY LenProperties
  <2>2. f[n] \in Seq(Byte) /\ n + 1 \in 1 .. Len(string)
    BY <2>1
  <2>3. Decoded(string[n + 1]) \in Seq(Byte)
    BY <2>2, ElementOfSeq, DecodedType
  <2>4. f[n + 1] = f[n] \o Decoded(string[n + 1])
    BY <2>1, JoinedStep
  <2> QED
    BY <2>2, <2>3, <2>4, ConcatProperties
<1>3. S = Nat
  <2> HIDE DEF S
  <2>1. S \in SUBSET Nat
    BY DEF S
  <2> QED
    BY <1>1, <1>2, <2>1, SetInduction
<1>4. Len(string) \in Nat /\ Len(string) <= Len(string)
  BY LenProperties
<1> QED
  BY <1>3, <1>4, GetStringIsJoined

\* What serialize_json writes for a byte, json_tokener reads as that byte.
LEMMA DecodedEncoded ==
  ASSUME NEW byte \in Byte
  PROVE  Encoded(byte) \in Character /\ Decoded(Encoded(byte)) = <<byte>>
<1>1. byte \in 0 .. \hFF /\ byte \in CodePoint
  BY SMT DEF Byte, CodePoint
<1>2. CASE Encoded(byte) = <<"esc", byte>>
  BY <1>1, <1>2, SMT DEF Decoded, Character
<1>3. CASE Encoded(byte) = <<"u", byte>> /\ byte < \h20
  BY <1>1, <1>3, SMT DEF Decoded, Character
<1>4. CASE Encoded(byte) = <<"raw", byte>>
  BY <1>1, <1>4, SMT DEF Decoded, Character
<1> QED
  BY <1>1, <1>2, <1>3, <1>4, SMT DEF Encoded

\* message_to_json and json_get_string: the peer reads the bytes of the body.
LEMMA RoundTrip ==
  ASSUME NEW text \in Seq(Byte)
  PROVE  BodyToJson(text) \in Seq(Character) /\ GetString(BodyToJson(text)) = text
<1> DEFINE string == BodyToJson(text)
           f == Joined(string)
           S == {n \in Nat : n <= Len(text) => f[n] = SubSeq(text, 1, n)}
<1>1. Len(text) \in Nat /\ DOMAIN text = 1 .. Len(text) /\ \A i \in 1 .. Len(text) : text[i] \in Byte
  BY LenProperties, ElementOfSeq
<1>2. string = [i \in 1 .. Len(text) |-> Encoded(text[i])]
  BY <1>1 DEF BodyToJson
<1>3. string \in Seq(Character) /\ Len(string) = Len(text)
  <2>1. string \in [1 .. Len(text) -> Character]
    BY <1>1, <1>2, DecodedEncoded
  <2>2. string \in Seq(Character)
    BY <1>1, <2>1, SeqDef
  <2>3. DOMAIN string = 1 .. Len(text) /\ DOMAIN string = 1 .. Len(string) /\ Len(string) \in Nat
    BY <2>1, <2>2, LenProperties
  <2> QED
    BY <1>1, <2>2, <2>3
<1> HIDE DEF string
<1>4. 0 \in S
  <2>1. SubSeq(text, 1, 0) = <<>>
    BY SubSeqEmpty
  <2> QED
    BY <2>1, JoinedStep
<1>5. ASSUME NEW n \in S PROVE n + 1 \in S
  <2> SUFFICES ASSUME n + 1 <= Len(text) PROVE f[n + 1] = SubSeq(text, 1, n + 1)
    OBVIOUS
  <2>1. n \in Nat /\ n + 1 \in 1 .. Len(text) /\ n <= Len(text)
    BY <1>1
  <2>2. f[n + 1] = f[n] \o Decoded(string[n + 1])
    BY <2>1, JoinedStep
  <2>3. Decoded(string[n + 1]) = <<text[n + 1]>>
    BY <1>1, <1>2, <2>1, DecodedEncoded
  <2>4. SubSeq(text, 1, n + 1) = SubSeq(text, 1, n) \o <<text[n + 1]>>
    <3>1. 1 \in 1 .. Len(text) /\ n + 1 \in 1 .. Len(text) /\ (n + 1) - 1 = n
      BY <1>1, <2>1
    <3> QED
      BY <3>1, SubSeqRecursiveSecond
  <2> QED
    BY <2>1, <2>2, <2>3, <2>4
<1>6. S = Nat
  <2> HIDE DEF S
  <2>1. S \in SUBSET Nat
    BY DEF S
  <2> QED
    BY <1>4, <1>5, <2>1, SetInduction
<1>7. f[Len(text)] = SubSeq(text, 1, Len(text))
  BY <1>1, <1>6
<1>8. SubSeq(text, 1, Len(text)) = text
  BY SubSeqFull
<1> QED
  BY <1>3, <1>7, <1>8, GetStringIsJoined DEF string
-----------------------------------------------------------------------------
(* Unicode's table and the tests of is_valid_utf8                          *)

\* The code point after k continuation bytes of the character at index.
Point(text, index, k) ==
  LET lead == LeadBits(text[index + 1], ContinuationCount(text[index + 1])) IN
  CASE k = 0 -> lead
    [] k = 1 -> lead * 64 + (text[index + 2] % 64)
    [] k = 2 -> (lead * 64 + (text[index + 2] % 64)) * 64 + (text[index + 3] % 64)
    [] k = 3 -> ((lead * 64 + (text[index + 2] % 64)) * 64
                   + (text[index + 3] % 64)) * 64 + (text[index + 4] % 64)

\* An iteration of the while loop takes the bytes from a to b.
CharacterAt(text, a, b) ==
  LET count == ContinuationCount(text[a + 1]) IN
  /\ count >= 0
  /\ b = a + count + 1
  /\ \A k \in 1 .. count : text[a + k + 1] \div 64 = 2
  /\ count > 0 => ~BadCodePoint(count, Point(text, a, count))

\* cuts divides the first n bytes into characters.
Divides(cuts, text, n) ==
  /\ cuts \in SUBSET (0 .. n)
  /\ {0, n} \subseteq cuts
  /\ \A a \in cuts \ {n} : \E b \in cuts :
       /\ a < b
       /\ \A c \in cuts : ~(a < c /\ c < b)
       /\ CharacterAt(text, a, b)

\* Unicode's table by length.
InTable(bytes) ==
  \/ Len(bytes) = 1 /\ bytes[1] \in 0 .. \h7F
  \/ Len(bytes) = 2 /\ bytes[1] \in \hC2 .. \hDF /\ bytes[2] \in Trail
  \/ /\ Len(bytes) = 3 /\ bytes[3] \in Trail
     /\ \/ bytes[1] = \hE0 /\ bytes[2] \in \hA0 .. \hBF
        \/ bytes[1] \in \hE1 .. \hEC \cup {\hEE, \hEF} /\ bytes[2] \in Trail
        \/ bytes[1] = \hED /\ bytes[2] \in \h80 .. \h9F
  \/ /\ Len(bytes) = 4 /\ bytes[3] \in Trail /\ bytes[4] \in Trail
     /\ \/ bytes[1] = \hF0 /\ bytes[2] \in \h90 .. \hBF
        \/ bytes[1] \in \hF1 .. \hF3 /\ bytes[2] \in Trail
        \/ bytes[1] = \hF4 /\ bytes[2] \in \h80 .. \h8F

\* The rows of Unicode's table of well-formed byte sequences, as bounds on bytes.
LEMMA Rows ==
  ASSUME NEW bytes
  PROVE  WellFormedCharacter(bytes) <=> InTable(bytes)
<1> DEFINE Fits(row) == /\ Len(row) = Len(bytes)
                        /\ \A i \in DOMAIN row : bytes[i] \in row[i]
<1>1. WellFormedCharacter(bytes) <=> \E row \in WellFormedRows : Fits(row)
  BY DEF WellFormedCharacter
<1>2. ASSUME NEW A PROVE Fits(<<A>>) <=> Len(bytes) = 1 /\ bytes[1] \in A
  <2>1. Len(<<A>>) = 1 /\ DOMAIN <<A>> = {1} /\ <<A>>[1] = A
    OBVIOUS
  <2> QED
    BY <2>1
<1>3. ASSUME NEW A, NEW B
      PROVE Fits(<<A, B>>) <=> Len(bytes) = 2 /\ bytes[1] \in A /\ bytes[2] \in B
  <2>1. /\ Len(<<A, B>>) = 2 /\ DOMAIN <<A, B>> = {1, 2}
        /\ <<A, B>>[1] = A /\ <<A, B>>[2] = B
    OBVIOUS
  <2> QED
    BY <2>1
<1>4. ASSUME NEW A, NEW B, NEW C
      PROVE Fits(<<A, B, C>>) <=> /\ Len(bytes) = 3 /\ bytes[1] \in A
                                  /\ bytes[2] \in B /\ bytes[3] \in C
  <2>1. /\ Len(<<A, B, C>>) = 3 /\ DOMAIN <<A, B, C>> = {1, 2, 3}
        /\ <<A, B, C>>[1] = A /\ <<A, B, C>>[2] = B /\ <<A, B, C>>[3] = C
    OBVIOUS
  <2> QED
    BY <2>1
<1>5. ASSUME NEW A, NEW B, NEW C, NEW D
      PROVE Fits(<<A, B, C, D>>) <=> /\ Len(bytes) = 4 /\ bytes[1] \in A
                                     /\ bytes[2] \in B /\ bytes[3] \in C /\ bytes[4] \in D
  <2>1. /\ Len(<<A, B, C, D>>) = 4 /\ DOMAIN <<A, B, C, D>> = {1, 2, 3, 4}
        /\ <<A, B, C, D>>[1] = A /\ <<A, B, C, D>>[2] = B
        /\ <<A, B, C, D>>[3] = C /\ <<A, B, C, D>>[4] = D
    OBVIOUS
  <2> QED
    BY <2>1
<1> HIDE DEF Fits
<1> DEFINE r1 == <<0 .. \h7F>>
           r2 == <<\hC2 .. \hDF, Trail>>
           r3 == <<{\hE0}, \hA0 .. \hBF, Trail>>
           r4 == <<\hE1 .. \hEC \cup {\hEE, \hEF}, Trail, Trail>>
           r5 == <<{\hED}, \h80 .. \h9F, Trail>>
           r6 == <<{\hF0}, \h90 .. \hBF, Trail, Trail>>
           r7 == <<\hF1 .. \hF3, Trail, Trail, Trail>>
           r8 == <<{\hF4}, \h80 .. \h8F, Trail, Trail>>
<1>6. WellFormedRows = {r1, r2, r3, r4, r5, r6, r7, r8}
  BY Zenon DEF WellFormedRows
<1>7. Fits(r1) <=> Len(bytes) = 1 /\ bytes[1] \in 0 .. \h7F
  BY <1>2
<1>8. Fits(r2) <=> Len(bytes) = 2 /\ bytes[1] \in \hC2 .. \hDF /\ bytes[2] \in Trail
  BY <1>3
<1>9. Fits(r3) <=> /\ Len(bytes) = 3 /\ bytes[1] \in {\hE0}
                   /\ bytes[2] \in \hA0 .. \hBF /\ bytes[3] \in Trail
  BY <1>4
<1>10. Fits(r4) <=> /\ Len(bytes) = 3 /\ bytes[1] \in \hE1 .. \hEC \cup {\hEE, \hEF}
                    /\ bytes[2] \in Trail /\ bytes[3] \in Trail
  BY <1>4
<1>11. Fits(r5) <=> /\ Len(bytes) = 3 /\ bytes[1] \in {\hED}
                    /\ bytes[2] \in \h80 .. \h9F /\ bytes[3] \in Trail
  BY <1>4
<1>12. Fits(r6) <=> /\ Len(bytes) = 4 /\ bytes[1] \in {\hF0} /\ bytes[2] \in \h90 .. \hBF
                    /\ bytes[3] \in Trail /\ bytes[4] \in Trail
  BY <1>5
<1>13. Fits(r7) <=> /\ Len(bytes) = 4 /\ bytes[1] \in \hF1 .. \hF3 /\ bytes[2] \in Trail
                    /\ bytes[3] \in Trail /\ bytes[4] \in Trail
  BY <1>5
<1>14. Fits(r8) <=> /\ Len(bytes) = 4 /\ bytes[1] \in {\hF4} /\ bytes[2] \in \h80 .. \h8F
                    /\ bytes[3] \in Trail /\ bytes[4] \in Trail
  BY <1>5
<1> HIDE DEF r1, r2, r3, r4, r5, r6, r7, r8
<1>15. WellFormedCharacter(bytes) <=>
         \/ Fits(r1) \/ Fits(r2) \/ Fits(r3) \/ Fits(r4)
         \/ Fits(r5) \/ Fits(r6) \/ Fits(r7) \/ Fits(r8)
  BY <1>1, <1>6
<1> QED
  BY <1>7, <1>8, <1>9, <1>10, <1>11, <1>12, <1>13, <1>14, <1>15 DEF InTable

\* What the tests of the code say of a byte.
LEMMA ByteTests ==
  ASSUME NEW byte \in Byte
  PROVE  /\ byte \div 64 = 2 <=> byte \in Trail
         /\ byte \in Trail => byte % 64 = byte - \h80
         /\ byte % 64 \in 0 .. 63
BY DEF Byte, Trail

\* The switch on the first byte.
LEMMA FirstByte ==
  ASSUME NEW first \in Byte
  PROVE  /\ ContinuationCount(first) \in {-1, 0, 1, 2, 3}
         /\ ContinuationCount(first) = 0 <=> first \in 0 .. \h7F
         /\ ContinuationCount(first) = 1 <=> first \in \hC2 .. \hDF
         /\ ContinuationCount(first) = 2 <=> first \in \hE0 .. \hEF
         /\ ContinuationCount(first) = 3 <=> first \in \hF0 .. \hF4
         /\ ContinuationCount(first) = 1 => LeadBits(first, 1) = first - \hC0
         /\ ContinuationCount(first) = 2 => LeadBits(first, 2) = first - \hE0
         /\ ContinuationCount(first) = 3 => LeadBits(first, 3) = first - \hF0
<1>1. first \in 0 .. \hFF
  BY DEF Byte
<1>2. CASE first <= \h7F
  BY <1>1, <1>2 DEF ContinuationCount
<1>3. CASE first \in \hC2 .. \hDF
  BY <1>1, <1>3 DEF ContinuationCount, LeadBits
<1>4. CASE first \in \hE0 .. \hEF
  BY <1>1, <1>4 DEF ContinuationCount, LeadBits
<1>5. CASE first \in \hF0 .. \hF4
  BY <1>1, <1>5 DEF ContinuationCount, LeadBits
<1>6. CASE first \in \h80 .. \hC1 \cup \hF5 .. \hFF
  BY <1>1, <1>6 DEF ContinuationCount
<1> QED
  BY <1>1, <1>2, <1>3, <1>4, <1>5, <1>6

\* An iteration takes exactly the byte sequences of Unicode's table.
LEMMA CharacterAtIsWellFormed ==
  ASSUME NEW text \in Seq(Byte), NEW a \in Nat, NEW b \in Nat,
         a < b, b <= Len(text)
  PROVE  CharacterAt(text, a, b) <=> WellFormedCharacter(SubSeq(text, a + 1, b))
<1> DEFINE bytes == SubSeq(text, a + 1, b)
           first == text[a + 1]
           count == ContinuationCount(first)
<1>1. Len(text) \in Nat /\ \A i \in 1 .. Len(text) : text[i] \in Byte
  BY LenProperties, ElementOfSeq
<1>2. /\ bytes \in Seq(Byte)
      /\ Len(bytes) = b - a
      /\ \A i \in 1 .. (b - a) : bytes[i] = text[a + i]
  <2>1. \A i \in (a + 1) .. b : text[i] \in Byte
    BY <1>1
  <2>2. /\ bytes \in Seq(Byte)
        /\ Len(bytes) = IF a + 1 <= b THEN b - (a + 1) + 1 ELSE 0
        /\ \A i \in 1 .. b - (a + 1) + 1 : bytes[i] = text[(a + 1) + i - 1]
    BY <2>1, SubSeqProperties
  <2>3. a + 1 <= b /\ b - (a + 1) + 1 = b - a /\ \A i \in Int : (a + 1) + i - 1 = a + i
    OBVIOUS
  <2> QED
    BY <2>2, <2>3
<1> HIDE DEF bytes
<1>20. WellFormedCharacter(bytes) <=> InTable(bytes)
  BY Rows
<1>3. first \in Byte /\ bytes[1] = first
  BY <1>1, <1>2
<1> HIDE DEF first
<1>4. CharacterAt(text, a, b) <=>
        /\ count >= 0
        /\ b = a + count + 1
        /\ \A k \in 1 .. count : text[a + k + 1] \div 64 = 2
        /\ count > 0 => ~BadCodePoint(count, Point(text, a, count))
  BY DEF CharacterAt, first
<1>5. count \in {-1, 0, 1, 2, 3}
  BY <1>3, FirstByte
<1> HIDE DEF count
<1>6. CASE b - a = 1
  <2>1. CharacterAt(text, a, b) <=> count = 0
    BY <1>4, <1>5, <1>6
  <2>2. count = 0 <=> first \in 0 .. \h7F
    BY <1>3, FirstByte DEF count
  <2>3. WellFormedCharacter(bytes) <=> first \in 0 .. \h7F
    BY <1>2, <1>3, <1>6, <1>20 DEF InTable
  <2> QED
    BY <2>1, <2>2, <2>3 DEF bytes
<1>7. CASE b - a = 2
  <2> DEFINE x == text[a + 2]
  <2>1. x \in Byte /\ bytes[2] = x
    BY <1>1, <1>2, <1>7
  <2>2. CharacterAt(text, a, b) <=>
          count = 1 /\ x \div 64 = 2 /\ ~BadCodePoint(1, Point(text, a, 1))
    BY <1>4, <1>5, <1>7
  <2>3. count = 1 => Point(text, a, 1) = (first - \hC0) * 64 + (x % 64)
    BY <1>3, FirstByte DEF Point, count, first
  <2>4. WellFormedCharacter(bytes) <=> first \in \hC2 .. \hDF /\ x \in Trail
    BY <1>2, <1>3, <1>7, <1>20, <2>1 DEF InTable
  <2>5. count = 1 <=> first \in \hC2 .. \hDF
    BY <1>3, FirstByte DEF count
  <2> HIDE DEF x
  <2>6. ASSUME count = 1 PROVE ~BadCodePoint(1, Point(text, a, 1))
    <3>1. x % 64 \in 0 .. 63
      BY <2>1, ByteTests
    <3> DEFINE y == x % 64
    <3> HIDE DEF y
    <3>2. first \in \hC2 .. \hDF /\ y \in 0 .. 63 /\ Point(text, a, 1) = (first - \hC0) * 64 + y
      BY <2>3, <2>5, <2>6, <3>1 DEF y
    <3>3. Point(text, a, 1) \in 0 .. \h7FF
      <4>1. ASSUME NEW u \in \hC2 .. \hDF, NEW v \in 0 .. 63
            PROVE  (u - \hC0) * 64 + v \in 0 .. \h7FF
        OBVIOUS
      <4>2. first \in \hC2 .. \hDF /\ y \in 0 .. 63
        BY <3>2
      <4>3. (first - \hC0) * 64 + y \in 0 .. \h7FF
        BY <4>1, <4>2
      <4>4. Point(text, a, 1) = (first - \hC0) * 64 + y
        BY <3>2
      <4> QED
        <5> DEFINE Small == 0 .. \h7FF
                   q == (first - \hC0) * 64 + y
        <5> HIDE DEF Small, q
        <5>1. Point(text, a, 1) \in Small
          <6>1. q \in Small
            BY <4>3 DEF Small, q
          <6>2. Point(text, a, 1) = q
            BY <4>4 DEF q
          <6> QED
            BY <6>1, <6>2
        <5> QED
          BY <5>1 DEF Small
    <3> DEFINE p == Point(text, a, 1)
    <3> HIDE DEF p
    <3>4. p \in 0 .. \h7FF
      BY <3>3 DEF p
    <3>5. ~BadCodePoint(1, p)
      BY <3>4, SMT DEF BadCodePoint
    <3> QED
      BY <3>5 DEF p
  <2> QED
    BY <2>1, <2>2, <2>4, <2>5, <2>6, ByteTests DEF bytes
<1>8. CASE b - a = 3
  <2> DEFINE x == text[a + 2]
             y == text[a + 3]
             point == ((first - \hE0) * 64 + (x - \h80)) * 64 + (y - \h80)
  <2>1. x \in Byte /\ y \in Byte /\ bytes[2] = x /\ bytes[3] = y
    BY <1>1, <1>2, <1>8
  <2>2. CharacterAt(text, a, b) <=>
          /\ count = 2 /\ x \div 64 = 2 /\ y \div 64 = 2
          /\ ~BadCodePoint(2, Point(text, a, 2))
    BY <1>4, <1>5, <1>8
  <2>3. count = 2 => Point(text, a, 2) = ((first - \hE0) * 64 + (x % 64)) * 64 + (y % 64)
    BY <1>3, FirstByte DEF Point, count, first
  <2>4. WellFormedCharacter(bytes) <=>
          /\ \/ first = \hE0 /\ x \in \hA0 .. \hBF
             \/ first \in \hE1 .. \hEC \cup {\hEE, \hEF} /\ x \in Trail
             \/ first = \hED /\ x \in \h80 .. \h9F
          /\ y \in Trail
    BY <1>2, <1>3, <1>8, <1>20, <2>1 DEF InTable
  <2>5. count = 2 <=> first \in \hE0 .. \hEF
    BY <1>3, FirstByte DEF count
  <2> HIDE DEF x, y
  <2>6. CharacterAt(text, a, b) <=>
          /\ first \in \hE0 .. \hEF /\ x \in Trail /\ y \in Trail
          /\ ~BadCodePoint(2, point)
    BY <2>1, <2>2, <2>3, <2>5, ByteTests
  <2>7. ASSUME first \in \hE0 .. \hEF, x \in Trail, y \in Trail
        PROVE  BadCodePoint(2, point) <=> \/ first = \hE0 /\ x < \hA0
                                          \/ first = \hED /\ x > \h9F
    BY <2>7 DEF BadCodePoint, Trail
  <2> HIDE DEF point
  <2>8. CASE first \in \hE0 .. \hEF /\ x \in Trail /\ y \in Trail
    BY <2>4, <2>6, <2>7, <2>8 DEF Trail, bytes
  <2>9. CASE ~(first \in \hE0 .. \hEF /\ x \in Trail /\ y \in Trail)
    BY <2>4, <2>6, <2>9 DEF Trail, bytes
  <2> QED
    BY <2>8, <2>9
<1>9. CASE b - a = 4
  <2> DEFINE x == text[a + 2]
             y == text[a + 3]
             z == text[a + 4]
             point == (((first - \hF0) * 64 + (x - \h80)) * 64 + (y - \h80)) * 64
                        + (z - \h80)
  <2>1. /\ x \in Byte /\ y \in Byte /\ z \in Byte
        /\ bytes[2] = x /\ bytes[3] = y /\ bytes[4] = z
    BY <1>1, <1>2, <1>9
  <2>2. CharacterAt(text, a, b) <=>
          /\ count = 3 /\ x \div 64 = 2 /\ y \div 64 = 2 /\ z \div 64 = 2
          /\ ~BadCodePoint(3, Point(text, a, 3))
    <3> DEFINE Follows(i) == text[i] \div 64 = 2
    <3>1. CharacterAt(text, a, b) <=>
            /\ count = 3
            /\ \A k \in 1 .. 3 : Follows(a + k + 1)
            /\ ~BadCodePoint(3, Point(text, a, 3))
      <4>1. b = a + count + 1 <=> count = 3
        BY <1>5, <1>9
      <4> QED
        BY <1>4, <4>1, SMTT(40)
    <3> HIDE DEF Follows
    <3>2. (\A k \in 1 .. 3 : Follows(a + k + 1)) <=>
            Follows(a + 2) /\ Follows(a + 3) /\ Follows(a + 4)
      <4>1. a + 1 + 1 = a + 2 /\ a + 2 + 1 = a + 3 /\ a + 3 + 1 = a + 4 /\ 1 .. 3 = {1, 2, 3}
        OBVIOUS
      <4> QED
        BY <4>1
    <3> QED
      BY <3>1, <3>2 DEF Follows
  <2>3. count = 3 => Point(text, a, 3) =
          (((first - \hF0) * 64 + (x % 64)) * 64 + (y % 64)) * 64 + (z % 64)
    BY <1>3, FirstByte DEF Point, count, first
  <2>4. WellFormedCharacter(bytes) <=>
          /\ \/ first = \hF0 /\ x \in \h90 .. \hBF
             \/ first \in \hF1 .. \hF3 /\ x \in Trail
             \/ first = \hF4 /\ x \in \h80 .. \h8F
          /\ y \in Trail /\ z \in Trail
    BY <1>2, <1>3, <1>9, <1>20, <2>1 DEF InTable
  <2>5. count = 3 <=> first \in \hF0 .. \hF4
    BY <1>3, FirstByte DEF count
  <2> HIDE DEF x, y, z
  <2>6. CharacterAt(text, a, b) <=>
          /\ first \in \hF0 .. \hF4 /\ x \in Trail /\ y \in Trail /\ z \in Trail
          /\ ~BadCodePoint(3, point)
    BY <2>1, <2>2, <2>3, <2>5, ByteTests
  <2>7. ASSUME first \in \hF0 .. \hF4, x \in Trail, y \in Trail, z \in Trail
        PROVE  BadCodePoint(3, point) <=> \/ first = \hF0 /\ x < \h90
                                          \/ first = \hF4 /\ x > \h8F
    BY <2>7 DEF BadCodePoint, Trail
  <2> HIDE DEF point
  <2>8. CASE first \in \hF0 .. \hF4 /\ x \in Trail /\ y \in Trail /\ z \in Trail
    BY <2>4, <2>6, <2>7, <2>8 DEF Trail, bytes
  <2>9. CASE ~(first \in \hF0 .. \hF4 /\ x \in Trail /\ y \in Trail /\ z \in Trail)
    BY <2>4, <2>6, <2>9 DEF Trail, bytes
  <2> QED
    BY <2>8, <2>9
<1>10. CASE b - a > 4
  <2>1. ~CharacterAt(text, a, b)
    BY <1>4, <1>5, <1>10
  <2>2. ~WellFormedCharacter(bytes)
    BY <1>2, <1>10, <1>20 DEF InTable
  <2> QED
    BY <2>1, <2>2 DEF bytes
<1>11. b - a \in Nat /\ b - a > 0
  OBVIOUS
<1> QED
  BY <1>6, <1>7, <1>8, <1>9, <1>10, <1>11

\* index is the start of a character in every way of cutting text, and what
\* comes before it has been cut.
Behind(text, index) ==
  /\ \E cuts : Divides(cuts, text, index)
  /\ \A cuts : Divides(cuts, text, Len(text)) => index \in cuts

\* A text is well-formed if and only if it divides into characters.
LEMMA DividesIsWellFormed ==
  ASSUME NEW text \in Seq(Byte)
  PROVE  WellFormed(text) <=> \E cuts : Divides(cuts, text, Len(text))
<1> DEFINE n == Len(text)
           Cut(cuts) ==
             /\ {0, n} \subseteq cuts
             /\ \A a \in cuts \ {n} : \E b \in cuts :
                  /\ a < b
                  /\ \A c \in cuts : ~(a < c /\ c < b)
                  /\ WellFormedCharacter(SubSeq(text, a + 1, b))
<1>1. n \in Nat
  BY LenProperties
<1>2. WellFormed(text) <=> \E cuts \in SUBSET (0 .. n) : Cut(cuts)
  BY DEF WellFormed
<1>3. ASSUME NEW cuts \in SUBSET (0 .. n) PROVE Divides(cuts, text, n) <=> Cut(cuts)
  <2>1. \A a, b \in cuts : a < b =>
          (CharacterAt(text, a, b) <=> WellFormedCharacter(SubSeq(text, a + 1, b)))
    <3> SUFFICES ASSUME NEW a \in cuts, NEW b \in cuts, a < b
                 PROVE  CharacterAt(text, a, b) <=>
                          WellFormedCharacter(SubSeq(text, a + 1, b))
      OBVIOUS
    <3>1. a \in Nat /\ b \in Nat /\ b <= Len(text)
      BY <1>1
    <3> QED
      BY <3>1, CharacterAtIsWellFormed
  <2> QED
    BY <2>1 DEF Divides
<1> HIDE DEF Cut, n
<1>4. \A cuts : Divides(cuts, text, n) => cuts \in SUBSET (0 .. n)
  BY DEF Divides
<1>5. (\E cuts : Divides(cuts, text, n)) <=> \E cuts \in SUBSET (0 .. n) : Cut(cuts)
  BY <1>3, <1>4
<1> QED
  BY <1>2, <1>5 DEF n

\* The scan starts at a boundary between characters.
LEMMA BehindStart ==
  ASSUME NEW text
  PROVE  Behind(text, 0)
<1>1. Divides({0}, text, 0)
  BY DEF Divides
<1>2. \A cuts : Divides(cuts, text, Len(text)) => 0 \in cuts
  BY DEF Divides
<1> QED
  BY <1>1, <1>2 DEF Behind

\* An iteration that accepts a character ends at a boundary again.
LEMMA BehindNext ==
  ASSUME NEW text \in Seq(Byte), NEW i \in Nat, NEW b \in Nat,
         i < b, i < Len(text), CharacterAt(text, i, b), Behind(text, i)
  PROVE  Behind(text, b)
<1>0. Len(text) \in Nat
  BY LenProperties
<1>1. PICK cuts : Divides(cuts, text, i)
  BY DEF Behind
<1>2. Divides(cuts \cup {b}, text, b)
  <2> DEFINE more == cuts \cup {b}
  <2>1. cuts \in SUBSET (0 .. i) /\ {0, i} \subseteq cuts
    BY <1>1 DEF Divides
  <2>2. more \in SUBSET (0 .. b) /\ {0, b} \subseteq more
    BY <2>1
  <2>3. ASSUME NEW a \in more \ {b}
        PROVE  \E d \in more : /\ a < d
                               /\ \A c \in more : ~(a < c /\ c < d)
                               /\ CharacterAt(text, a, d)
    <3>1. CASE a = i
      <4>1. \A c \in more : ~(a < c /\ c < b)
        BY <2>1, <3>1
      <4> QED
        BY <3>1, <4>1
    <3>2. CASE a # i
      <4>1. PICK d \in cuts : /\ a < d
                              /\ \A c \in cuts : ~(a < c /\ c < d)
                              /\ CharacterAt(text, a, d)
        BY <1>1, <3>2 DEF Divides
      <4>2. ~(b < d)
        BY <2>1
      <4> QED
        BY <4>1, <4>2
    <3> QED
      BY <3>1, <3>2
  <2> QED
    BY <2>2, <2>3 DEF Divides
<1>3. ASSUME NEW all, Divides(all, text, Len(text)) PROVE b \in all
  <2>1. i \in all \ {Len(text)}
    BY <1>0, <1>3 DEF Behind
  <2>2. PICK d \in all : CharacterAt(text, i, d)
    BY <1>3, <2>1 DEF Divides
  <2>3. d = b
    BY <2>2 DEF CharacterAt
  <2> QED
    BY <2>3
<1> QED
  BY <1>2, <1>3 DEF Behind

\* At the end of the text the validator is right to return true ...
LEMMA BehindEnd ==
  ASSUME NEW text \in Seq(Byte), Behind(text, Len(text))
  PROVE  WellFormed(text)
BY DividesIsWellFormed DEF Behind

\* ... and at a place where no character starts, to return false.
LEMMA BehindBad ==
  ASSUME NEW text \in Seq(Byte), NEW i \in Nat, i < Len(text), Behind(text, i),
         \A b \in Nat : b <= Len(text) => ~CharacterAt(text, i, b)
  PROVE  ~WellFormed(text)
<1> SUFFICES ASSUME NEW all, Divides(all, text, Len(text)) PROVE FALSE
  BY DividesIsWellFormed
<1>0. Len(text) \in Nat
  BY LenProperties
<1>1. i \in all \ {Len(text)} /\ all \in SUBSET (0 .. Len(text))
  <2>1. i \in all
    BY DEF Behind
  <2>2. all \in SUBSET (0 .. Len(text))
    BY DEF Divides
  <2> QED
    BY <1>0, <2>1, <2>2
<1>2. PICK d \in all : CharacterAt(text, i, d)
  BY <1>1 DEF Divides
<1>3. d \in Nat /\ d <= Len(text)
  BY <1>0, <1>1
<1> QED
  BY <1>2, <1>3

\* code_point = code_point << 6 | next & 0x3F
LEMMA PointStep ==
  ASSUME NEW text, NEW i \in Nat, NEW k \in 1 .. 3
  PROVE  Point(text, i, k) = Point(text, i, k - 1) * 64 + (text[i + k + 1] % 64)
<1>1. CASE k = 1
  <2>1. k - 1 = 0 /\ i + k + 1 = i + 2
    BY <1>1
  <2> QED
    BY <1>1, <2>1 DEF Point
<1>2. CASE k = 2
  <2>1. k - 1 = 1 /\ i + k + 1 = i + 3
    BY <1>2
  <2> QED
    BY <1>2, <2>1 DEF Point
<1>3. CASE k = 3
  <2>1. k - 1 = 2 /\ i + k + 1 = i + 4
    BY <1>3
  <2> QED
    BY <1>3, <2>1 DEF Point
<1> QED
  BY <1>1, <1>2, <1>3

\* What code_point holds before the last continuation byte.
PartialPoint == 0 .. \h7FFF

\* The arithmetic of two continuation bytes, away from the text they are in.
LEMMA PartialSum ==
  ASSUME NEW p \in 0 .. 511, NEW y \in 0 .. 63
  PROVE  p * 64 + y \in PartialPoint
<1>1. p \in Int /\ y \in Int /\ 0 <= p /\ p <= 511 /\ 0 <= y /\ y <= 63
  OBVIOUS
<1>2. 0 <= p * 64 + y /\ p * 64 + y <= 32767 /\ p * 64 + y \in Int
  BY <1>1
<1> QED
  BY <1>2 DEF PartialPoint

\* code_point of an unfinished character stays below 2^21.
LEMMA PointBound ==
  ASSUME NEW text \in Seq(Byte), NEW i \in Nat,
         ContinuationCount(text[i + 1]) \in 1 .. 3,
         i + ContinuationCount(text[i + 1]) < Len(text),
         NEW k \in 0 .. ContinuationCount(text[i + 1]) - 1
  PROVE  Point(text, i, k) \in PartialPoint
<1> DEFINE first == text[i + 1]
           count == ContinuationCount(first)
           lead == LeadBits(first, count)
           x == text[i + 1 + 1] % 64
           y == text[i + 2 + 1] % 64
<1>1. Len(text) \in Nat /\ \A j \in 1 .. Len(text) : text[j] \in Byte
  BY LenProperties, ElementOfSeq
<1>2. first \in Byte
  BY <1>1
<1>3. /\ Point(text, i, 0) = lead
      /\ Point(text, i, 1) = lead * 64 + x
      /\ Point(text, i, 2) = (lead * 64 + x) * 64 + y
  <2>1. i + 1 + 1 = i + 2 /\ i + 2 + 1 = i + 3
    OBVIOUS
  <2> QED
    BY <2>1 DEF Point
<1>4. count > 1 => x \in 0 .. 63
  <2>1. count > 1 => text[i + 1 + 1] \in Byte
    BY <1>1
  <2> QED
    BY <2>1, ByteTests
<1>5. count > 2 => y \in 0 .. 63
  <2>1. count > 2 => text[i + 2 + 1] \in Byte
    BY <1>1
  <2> QED
    BY <2>1, ByteTests
<1>6. count \in 1 .. 3 /\ k \in 0 .. count - 1
  OBVIOUS
<1> HIDE DEF first, x, y
<1>7. CASE count = 1
  <2>1. lead = first - \hC0 /\ first \in \hC2 .. \hDF
    BY <1>2, <1>7, FirstByte
  <2>2. lead \in PartialPoint
    BY <2>1 DEF PartialPoint
  <2>3. k = 0
    BY <1>6, <1>7
  <2> HIDE DEF lead
  <2> QED
    BY <1>3, <2>2, <2>3
<1>8. CASE count = 2
  <2>1. lead = first - \hE0 /\ first \in \hE0 .. \hEF
    BY <1>2, <1>8, FirstByte
  <2>2. lead \in 0 .. 15 /\ x \in 0 .. 63
    BY <1>4, <1>8, <2>1, SMTT(40)
  <2> HIDE DEF lead
  <2>3. lead \in PartialPoint /\ lead * 64 + x \in PartialPoint
    BY <2>2, SMTT(40) DEF PartialPoint
  <2>4. k \in {0, 1}
    BY <1>6, <1>8
  <2> QED
    BY <1>3, <2>3, <2>4
<1>9. CASE count = 3
  <2>1. lead = first - \hF0 /\ first \in \hF0 .. \hF4
    BY <1>2, <1>9, FirstByte
  <2>2. lead \in 0 .. 7 /\ x \in 0 .. 63 /\ y \in 0 .. 63
    BY <1>4, <1>5, <1>9, <2>1
  <2> HIDE DEF lead
  <2>3. /\ lead \in PartialPoint /\ lead * 64 + x \in PartialPoint
        /\ (lead * 64 + x) * 64 + y \in PartialPoint
    <3>1. lead * 64 + x \in 0 .. 511
      BY <2>2
    <3> DEFINE p == lead * 64 + x
    <3> HIDE DEF p
    <3>2. p \in 0 .. 511
      BY <3>1 DEF p
    <3>3. p * 64 + y \in PartialPoint
      BY <2>2, <3>2, PartialSum
    <3>4. lead \in PartialPoint
      BY <2>2 DEF PartialPoint
    <3>5. p \in PartialPoint
      BY <3>2 DEF PartialPoint
    <3> QED
      BY <3>3, <3>4, <3>5 DEF p
  <2>4. k \in {0, 1, 2}
    BY <1>6, <1>9
  <2> QED
    BY <1>3, <2>3, <2>4
<1> QED
  BY <1>6, <1>7, <1>8, <1>9
-----------------------------------------------------------------------------
(* The inductive invariant                                                 *)

Leading == phase \in {"lead", "peerLead"}
Reading == phase \in {"continuation", "peerContinuation"}

Shaped ==
  /\ phase \in Phases
  /\ identity \in Identities
  /\ request \in Posts \cup {NoRequest}
  /\ scan \in [text : Seq(Byte), index : Nat, offset : Nat,
               continuation_count : 0 .. 3, code_point : Nat]
  /\ Len(scan.text) <= MaxMessageBytes
  /\ scan.index <= Len(scan.text)
  /\ reply \in {0, 200, 400, 404, 405, 413, 415, 500}
  /\ peerReply \in {0, 200, 400, 413, 500}

\* Where the loop over the continuation bytes stands.
MidCharacter ==
  IF Reading
  THEN LET count == ContinuationCount(scan.text[scan.index + 1]) IN
       /\ scan.continuation_count = count
       /\ scan.index + count < Len(scan.text)
       /\ scan.offset \in 1 .. count
       /\ \A k \in 1 .. (scan.offset - 1) :
            scan.text[scan.index + k + 1] \div 64 = 2
       /\ scan.code_point = Point(scan.text, scan.index, scan.offset - 1)
  ELSE scan.continuation_count = 0 /\ scan.offset = 0 /\ scan.code_point = 0

BehindIndex == Leading \/ Reading => Behind(scan.text, scan.index)

AcceptedIsWellFormed == phase \in {"create", "ingest"} => WellFormed(scan.text)

\* The text that create_message validates, and the message that it becomes.
OwnText ==
  /\ phase \in {"lead", "continuation", "create"} =>
       /\ scan.text = GetString(request.body)
       /\ Len(scan.text) > 0
  /\ phase \in {"off", "idle", "routed", "lead", "continuation", "create"} =>
       stored = {}
  /\ phase = "wire" => stored # {}
  /\ stored # {} => \E text \in Seq(Byte) :
       /\ stored = {text}
       /\ WellFormed(text)
       /\ Len(text) \in 1 .. MaxMessageBytes
       /\ phase \in {"peerLead", "peerContinuation", "ingest"} => scan.text = text

Unanswered ==
  /\ phase # "answered" => reply # 400 /\ peerReply = 0 /\ received = {}
  /\ phase # "off" => ValidIdentity(identity)

IInv ==
  /\ Shaped
  /\ MidCharacter
  /\ BehindIndex
  /\ AcceptedIsWellFormed
  /\ OwnText
  /\ Unanswered
  /\ VerdictIsUnicode
  /\ PeerNeverRefuses
  /\ PeerStoresTheBody

\* What the first byte of a turn of the loop decides.
LEMMA LeadVerdict ==
  ASSUME Shaped, Behind(scan.text, scan.index), scan.index < Len(scan.text),
         NEW count, count = ContinuationCount(scan.text[scan.index + 1])
  PROVE  /\ count \in {-1, 0, 1, 2, 3}
         /\ count = -1 \/ CutShort(count) => ~WellFormed(scan.text)
         /\ count = 0 => Behind(scan.text, scan.index + 1)
<1> DEFINE text == scan.text
           i == scan.index
<1>1. text \in Seq(Byte) /\ i \in Nat /\ Len(text) \in Nat
  BY LenProperties DEF Shaped
<1>2. text[i + 1] \in Byte
  <2>1. i + 1 \in 1 .. Len(text)
    BY <1>1
  <2> QED
    BY <1>1, <2>1, ElementOfSeq
<1>3. count \in {-1, 0, 1, 2, 3}
  BY <1>2, FirstByte
<1>4. ASSUME count = -1 \/ CutShort(count) PROVE ~WellFormed(text)
  <2>1. ASSUME NEW b \in Nat, b <= Len(text) PROVE ~CharacterAt(text, i, b)
    <3>1. count < 0 \/ i + count >= Len(text)
      BY <1>4 DEF CutShort
    <3>2. CharacterAt(text, i, b) => count >= 0 /\ b = i + count + 1
      BY DEF CharacterAt
    <3> HIDE DEF i, text
    <3> QED
      BY <1>1, <1>3, <2>1, <3>1, <3>2
  <2> HIDE DEF i, text
  <2>2. i < Len(text) /\ Behind(text, i)
    BY DEF i, text
  <2> QED
    BY <1>1, <2>1, <2>2, BehindBad
<1>5. ASSUME count = 0 PROVE Behind(text, i + 1)
  <2>1. CharacterAt(text, i, i + 1)
    BY <1>1, <1>5 DEF CharacterAt
  <2> HIDE DEF i, text
  <2>2. i < Len(text) /\ Behind(text, i) /\ i + 1 \in Nat /\ i < i + 1
    BY <1>1 DEF i, text
  <2> QED
    BY <1>1, <2>1, <2>2, BehindNext
<1> QED
  BY <1>3, <1>4, <1>5

\* What a continuation byte decides.
LEMMA ContinuationVerdict ==
  ASSUME Shaped, MidCharacter, Reading, Behind(scan.text, scan.index),
         NEW next, next = scan.text[scan.index + scan.offset + 1],
         NEW point, point = scan.code_point * 64 + (next % 64),
         NEW count, count = scan.continuation_count
  PROVE  /\ (\/ next \div 64 # 2
             \/ scan.offset = count /\ BadCodePoint(count, point))
              => ~WellFormed(scan.text)
         /\ next \div 64 = 2 =>
              /\ \A k \in 1 .. scan.offset : scan.text[scan.index + k + 1] \div 64 = 2
              /\ point = Point(scan.text, scan.index, scan.offset)
         /\ next \div 64 = 2 /\ scan.offset = count /\ ~BadCodePoint(count, point)
              => Behind(scan.text, scan.index + count + 1)
<1> DEFINE text == scan.text
           i == scan.index
           o == scan.offset
<1>1. text \in Seq(Byte) /\ i \in Nat /\ Len(text) \in Nat /\ i < Len(text)
      /\ count \in 1 .. 3 /\ i + count < Len(text) /\ o \in 1 .. count
      /\ count = ContinuationCount(text[i + 1])
  <2>1. text \in Seq(Byte) /\ i \in Nat /\ Len(text) \in Nat /\ count \in 0 .. 3
    BY LenProperties DEF Shaped
  <2>2. /\ i + count < Len(text) /\ o \in 1 .. count
        /\ count = ContinuationCount(text[i + 1])
    BY DEF MidCharacter
  <2> HIDE DEF i, text, o
  <2> QED
    BY <2>1, <2>2
<1>2. /\ \A k \in 1 .. (o - 1) : text[i + k + 1] \div 64 = 2
      /\ scan.code_point = Point(text, i, o - 1)
  BY DEF MidCharacter
<1>3. next = text[i + o + 1] /\ point = Point(text, i, o - 1) * 64 + (next % 64)
  BY <1>2
<1>4. Behind(text, i)
  OBVIOUS
<1> HIDE DEF i, text, o
<1>5. point = Point(text, i, o)
  <2>1. o \in 1 .. 3
    BY <1>1
  <2> QED
    BY <1>1, <1>3, <2>1, PointStep
<1>6. ASSUME next \div 64 = 2
      PROVE  \A k \in 1 .. o : text[i + k + 1] \div 64 = 2
  <2> SUFFICES ASSUME NEW k \in 1 .. o PROVE text[i + k + 1] \div 64 = 2
    OBVIOUS
  <2>1. CASE k = o
    BY <1>3, <1>6, <2>1
  <2>2. CASE k # o
    <3>1. k \in 1 .. (o - 1)
      BY <1>1, <2>2
    <3> QED
      BY <1>2, <3>1
  <2> QED
    BY <2>1, <2>2
<1>7. ASSUME \/ next \div 64 # 2
             \/ o = count /\ BadCodePoint(count, point)
      PROVE  ~WellFormed(text)
  <2>1. ASSUME NEW b \in Nat, CharacterAt(text, i, b) PROVE FALSE
    <3>1. next \div 64 = 2
      BY <1>1, <1>3, <2>1 DEF CharacterAt
    <3>2. ~BadCodePoint(count, Point(text, i, count))
      <4>1. count > 0
        BY <1>1
      <4> QED
        BY <1>1, <2>1, <4>1 DEF CharacterAt
    <3> QED
      BY <1>5, <1>7, <3>1, <3>2
  <2> QED
    BY <1>1, <1>4, <2>1, BehindBad
<1>8. ASSUME next \div 64 = 2, o = count, ~BadCodePoint(count, point)
      PROVE  Behind(text, i + count + 1)
  <2>1. CharacterAt(text, i, i + count + 1)
    <3>1. count >= 0
      BY <1>1
    <3>2. \A k \in 1 .. count : text[i + k + 1] \div 64 = 2
      BY <1>6, <1>8
    <3>3. ~BadCodePoint(count, Point(text, i, count))
      BY <1>5, <1>8
    <3> QED
      BY <1>1, <3>1, <3>2, <3>3 DEF CharacterAt
  <2>2. i + count + 1 \in Nat /\ i < i + count + 1
    BY <1>1
  <2> QED
    BY <1>1, <1>4, <2>1, <2>2, BehindNext
<1> QED
  BY <1>5, <1>6, <1>7, <1>8 DEF i, text, o

\* A step inside is_valid_utf8 leaves alone what the other parts speak of.
InsideScan ==
  \/ phase \in {"lead", "continuation"} /\ phase' \in {"lead", "continuation"}
  \/ /\ phase \in {"peerLead", "peerContinuation"}
     /\ phase' \in {"peerLead", "peerContinuation"}

\* An iteration of the scan changes nothing but the scan.
LEMMA InsideScanKeeps ==
  ASSUME IInv, InsideScan, scan'.text = scan.text, UNCHANGED others
  PROVE  /\ AcceptedIsWellFormed' /\ OwnText' /\ Unanswered'
         /\ VerdictIsUnicode' /\ PeerNeverRefuses' /\ PeerStoresTheBody'
<1>1. AcceptedIsWellFormed' /\ VerdictIsUnicode'
  BY DEF AcceptedIsWellFormed, VerdictIsUnicode, InsideScan
<1>2. Unanswered' /\ PeerNeverRefuses' /\ PeerStoresTheBody'
  <2>1. phase # "answered" /\ phase # "off" /\ phase' # "answered" /\ phase' # "off"
    BY DEF InsideScan
  <2> QED
    BY <2>1 DEF IInv, Unanswered, PeerNeverRefuses, PeerStoresTheBody, others, ValidIdentity
<1>3. OwnText'
  <2>1. CASE stored = {}
    BY <2>1 DEF IInv, OwnText, InsideScan, others
  <2>2. CASE stored # {}
    <3>1. /\ phase \in {"peerLead", "peerContinuation"}
          /\ phase' \in {"peerLead", "peerContinuation"}
      BY <2>2 DEF IInv, OwnText, InsideScan
    <3>2. PICK text \in Seq(Byte) : /\ stored = {text}
                                    /\ WellFormed(text)
                                    /\ Len(text) \in 1 .. MaxMessageBytes
                                    /\ scan.text = text
      BY <2>2, <3>1 DEF IInv, OwnText
    <3>3. stored' = {text} /\ scan'.text = text
      BY <3>2 DEF others
    <3> QED
      BY <3>1, <3>2, <3>3 DEF OwnText
  <2> QED
    BY <2>1, <2>2
<1> QED
  BY <1>1, <1>2, <1>3

\* The steps inside is_valid_utf8, those without a verdict, for either caller.
LEMMA LeadKeeps ==
  ASSUME IInv, NEW reading,
         \/ phase = "lead" /\ reading = "continuation"
         \/ phase = "peerLead" /\ reading = "peerContinuation",
         Lead(FALSE, FALSE, reading)
  PROVE  IInv'
<1> DEFINE first == scan.text[scan.index + 1]
           count == ContinuationCount(first)
<1>0. Leading
  BY DEF Leading
<1>1. Shaped /\ Behind(scan.text, scan.index)
  BY <1>0 DEF IInv, BehindIndex
<1>2. /\ scan.text \in Seq(Byte) /\ scan.index \in Nat /\ Len(scan.text) \in Nat
      /\ scan.index <= Len(scan.text)
  BY <1>1, LenProperties DEF Shaped
<1>5. CASE /\ scan.index < Len(scan.text) /\ count = 0 /\ ~CutShort(count)
           /\ scan' = [scan EXCEPT !.index = @ + 1]
           /\ UNCHANGED <<phase, others>>
  <2>1. Behind(scan.text, scan.index + 1)
    BY <1>1, <1>5, LeadVerdict
  <2>2. scan'.text = scan.text /\ scan'.index = scan.index + 1
    BY <1>1, <1>5 DEF Shaped
  <2>3. Shaped'
    BY <1>1, <1>2, <1>5 DEF Shaped, others
  <2>4. MidCharacter'
    <3>1. ~Reading /\ ~Reading'
      BY <1>5 DEF Reading
    <3>2. scan.continuation_count = 0 /\ scan.offset = 0 /\ scan.code_point = 0
      BY <3>1 DEF IInv, MidCharacter
    <3> QED
      BY <1>1, <1>5, <3>1, <3>2 DEF MidCharacter, Shaped
  <2>5. BehindIndex'
    BY <2>1, <2>2 DEF BehindIndex
  <2>6. InsideScan /\ UNCHANGED others
    BY <1>5 DEF InsideScan
  <2> QED
    BY <2>2, <2>3, <2>4, <2>5, <2>6, InsideScanKeeps DEF IInv
<1>6. CASE /\ scan.index < Len(scan.text) /\ count > 0 /\ ~CutShort(count)
           /\ scan' = [scan EXCEPT !.offset = 1, !.continuation_count = count,
                                   !.code_point = LeadBits(first, count)]
           /\ phase' = reading
           /\ UNCHANGED others
  <2>1. count \in {-1, 0, 1, 2, 3}
    BY <1>1, <1>6, LeadVerdict
  <2>2. count \in 1 .. 3 /\ scan.index + count < Len(scan.text)
    <3>1. ~(scan.index + count >= Len(scan.text))
      BY <1>6 DEF CutShort
    <3> HIDE DEF count
    <3> QED
      BY <1>2, <1>6, <2>1, <3>1
  <2>3. /\ scan'.text = scan.text /\ scan'.index = scan.index
        /\ scan'.offset = 1 /\ scan'.continuation_count = count
        /\ scan'.code_point = LeadBits(first, count)
    BY <1>1, <1>6 DEF Shaped
  <2>4. Point(scan.text, scan.index, 0) = LeadBits(first, count)
    BY DEF Point
  <2>5. LeadBits(first, count) \in Nat
    <3>1. 0 \in 0 .. count - 1
      BY <2>2
    <3>2. Point(scan.text, scan.index, 0) \in PartialPoint
      BY <1>2, <2>2, <3>1, PointBound
    <3>3. PartialPoint \subseteq Nat
      BY DEF PartialPoint
    <3> QED
      BY <2>4, <3>2, <3>3
  <2>6. Reading'
    BY <1>6 DEF Reading
  <2>7. Shaped'
    <3>1. scan' \in [text : Seq(Byte), index : Nat, offset : Nat,
                     continuation_count : 0 .. 3, code_point : Nat]
      <4> HIDE DEF count, first
      <4>1. count \in 0 .. 3 /\ 1 \in Nat
        BY <2>2
      <4> QED
        BY <1>1, <1>6, <2>5, <4>1, ZenonT(40) DEF Shaped
    <3>2. phase' \in Phases
      BY <1>6 DEF Phases
    <3> QED
      BY <1>1, <1>6, <2>3, <3>1, <3>2 DEF Shaped, others
  <2>8. MidCharacter'
    <3> HIDE DEF Reading
    <3>1. /\ scan'.offset \in 1 .. count
          /\ \A k \in 1 .. (scan'.offset - 1) : FALSE
          /\ scan'.offset - 1 = 0
      BY <2>2, <2>3
    <3> QED
      BY <2>2, <2>3, <2>4, <2>6, <3>1 DEF MidCharacter
  <2>9. BehindIndex'
    BY <1>1, <2>3 DEF BehindIndex
  <2>10. InsideScan /\ UNCHANGED others
    BY <1>6 DEF InsideScan
  <2> QED
    BY <2>3, <2>7, <2>8, <2>9, <2>10, InsideScanKeeps DEF IInv
<1> QED
  BY <1>5, <1>6 DEF Lead

\* A continuation byte extends the character by six bits.
LEMMA ContinuationKeeps ==
  ASSUME IInv, NEW leading,
         \/ phase = "continuation" /\ leading = "lead"
         \/ phase = "peerContinuation" /\ leading = "peerLead",
         Continuation(FALSE, leading)
  PROVE  IInv'
<1> DEFINE count == scan.continuation_count
           next  == scan.text[scan.index + scan.offset + 1]
           point == scan.code_point * 64 + (next % 64)
<1>0. Reading
  BY DEF Reading
<1>1. Shaped /\ MidCharacter /\ Behind(scan.text, scan.index)
  BY <1>0 DEF IInv, BehindIndex
<1>2. /\ scan.text \in Seq(Byte) /\ scan.index \in Nat /\ Len(scan.text) \in Nat
      /\ count \in 0 .. 3 /\ scan.offset \in Nat
  BY <1>1, LenProperties DEF Shaped
<1>3. /\ count = ContinuationCount(scan.text[scan.index + 1])
      /\ scan.index + count < Len(scan.text)
      /\ scan.offset \in 1 .. count
  BY <1>0, <1>1 DEF MidCharacter
<1>4. /\ next \div 64 = 2 =>
           /\ \A k \in 1 .. scan.offset : scan.text[scan.index + k + 1] \div 64 = 2
           /\ point = Point(scan.text, scan.index, scan.offset)
      /\ next \div 64 = 2 /\ scan.offset = count /\ ~BadCodePoint(count, point)
           => Behind(scan.text, scan.index + count + 1)
  BY <1>0, <1>1, ContinuationVerdict
<1>5. \/ /\ next \div 64 = 2
         /\ scan.offset < count
         /\ scan' = [scan EXCEPT !.offset = @ + 1, !.code_point = point]
         /\ UNCHANGED <<phase, others>>
      \/ /\ next \div 64 = 2
         /\ scan.offset = count
         /\ ~BadCodePoint(count, point)
         /\ scan' = [Begin(scan.text) EXCEPT !.index = scan.index + count + 1]
         /\ phase' = leading
         /\ UNCHANGED others
  BY DEF Continuation
<1> HIDE DEF count, next, point
<1>7. CASE /\ next \div 64 = 2
           /\ scan.offset < count
           /\ scan' = [scan EXCEPT !.offset = @ + 1, !.code_point = point]
           /\ UNCHANGED <<phase, others>>
  <2>1. /\ scan'.text = scan.text /\ scan'.index = scan.index
        /\ scan'.offset = scan.offset + 1
        /\ scan'.continuation_count = scan.continuation_count
        /\ scan'.code_point = point
    BY <1>1, <1>7 DEF Shaped
  <2>2. point = Point(scan.text, scan.index, scan.offset) /\ point \in Nat
    <3>1. point = Point(scan.text, scan.index, scan.offset)
      BY <1>4, <1>7
    <3>2. /\ count \in 1 .. 3 /\ scan.offset \in 0 .. count - 1
          /\ ContinuationCount(scan.text[scan.index + 1]) = count
      BY <1>2, <1>3, <1>7
    <3>3. Point(scan.text, scan.index, scan.offset) \in PartialPoint
      BY <1>2, <1>3, <3>2, PointBound
    <3>4. PartialPoint \subseteq Nat
      BY DEF PartialPoint
    <3> QED
      BY <3>1, <3>3, <3>4
  <2>3. Shaped'
    <3>1. scan' \in [text : Seq(Byte), index : Nat, offset : Nat,
                     continuation_count : 0 .. 3, code_point : Nat]
      <4>1. scan.offset + 1 \in Nat
        BY <1>2
      <4> QED
        BY <1>1, <1>7, <2>2, <4>1, ZenonT(40) DEF Shaped
    <3> QED
      BY <1>1, <1>7, <2>1, <3>1 DEF Shaped, others
  <2>4. MidCharacter'
    <3>1. Reading'
      BY <1>7 DEF Reading
    <3>2. scan'.offset \in 1 .. count /\ scan'.offset - 1 = scan.offset
      BY <1>2, <1>3, <1>7, <2>1
    <3> HIDE DEF Reading
    <3>3. /\ scan'.continuation_count = count
          /\ ContinuationCount(scan'.text[scan'.index + 1]) = count
      BY <1>3, <2>1 DEF count
    <3> QED
      BY <1>3, <1>4, <1>7, <2>1, <2>2, <3>1, <3>2, <3>3 DEF MidCharacter
  <2>5. BehindIndex'
    BY <1>1, <2>1 DEF BehindIndex
  <2>6. InsideScan /\ UNCHANGED others
    BY <1>7 DEF InsideScan
  <2> QED
    BY <2>1, <2>3, <2>4, <2>5, <2>6, InsideScanKeeps DEF IInv
<1>8. CASE /\ next \div 64 = 2
           /\ scan.offset = count
           /\ ~BadCodePoint(count, point)
           /\ scan' = [Begin(scan.text) EXCEPT !.index = scan.index + count + 1]
           /\ phase' = leading
           /\ UNCHANGED others
  <2>1. scan' = [text |-> scan.text, index |-> scan.index + count + 1, offset |-> 0,
                 continuation_count |-> 0, code_point |-> 0]
    BY <1>8 DEF Begin
  <2>2. scan.index + count + 1 \in Nat /\ scan.index + count + 1 <= Len(scan.text)
    BY <1>2, <1>3
  <2>3. Shaped'
    <3>1. scan' \in [text : Seq(Byte), index : Nat, offset : Nat,
                     continuation_count : 0 .. 3, code_point : Nat]
      BY <1>2, <2>1, <2>2
    <3>2. phase' \in Phases
      BY <1>8 DEF Phases
    <3> QED
      BY <1>1, <1>8, <2>1, <2>2, <3>1, <3>2 DEF Shaped, others
  <2>4. MidCharacter'
    <3>1. ~Reading'
      BY <1>8 DEF Reading
    <3> QED
      BY <2>1, <3>1 DEF MidCharacter
  <2>5. BehindIndex'
    BY <1>4, <1>8, <2>1 DEF BehindIndex
  <2>6. InsideScan /\ UNCHANGED others
    BY <1>8 DEF InsideScan
  <2> QED
    BY <2>1, <2>3, <2>4, <2>5, <2>6, InsideScanKeeps DEF IInv
<1> QED
  BY <1>5, <1>7, <1>8
-----------------------------------------------------------------------------
(* The other steps                                                         *)

\* The record that is_valid_utf8 starts with.
LEMMA BeginType ==
  ASSUME NEW text \in Seq(Byte)
  PROVE  /\ Begin(text) \in [text : Seq(Byte), index : Nat, offset : Nat,
                             continuation_count : 0 .. 3, code_point : Nat]
         /\ Begin(text).text = text
         /\ Begin(text).index = 0
         /\ Begin(text).offset = 0
         /\ Begin(text).continuation_count = 0
         /\ Begin(text).code_point = 0
BY DEF Begin

\* The value of scan while none is under way.
LEMMA NoScanFacts ==
  /\ NoScan \in [text : Seq(Byte), index : Nat, offset : Nat,
                 continuation_count : 0 .. 3, code_point : Nat]
  /\ NoScan.index = 0 /\ NoScan.offset = 0 /\ NoScan.continuation_count = 0
  /\ NoScan.code_point = 0 /\ Len(NoScan.text) = 0
  /\ 0 <= MaxMessageBytes
<1>1. <<>> \in Seq(Byte) /\ Len(<<>>) = 0
  BY EmptySeq
<1>2. MaxMessageBytes \in Nat
  BY RequestsAssumption
<1>3. /\ NoScan = Begin(<<>>)
      /\ Begin(<<>>) \in [text : Seq(Byte), index : Nat, offset : Nat,
                          continuation_count : 0 .. 3, code_point : Nat]
      /\ Begin(<<>>).text = <<>> /\ Begin(<<>>).index = 0 /\ Begin(<<>>).offset = 0
      /\ Begin(<<>>).continuation_count = 0 /\ Begin(<<>>).code_point = 0
  BY <1>1, BeginType, Zenon DEF NoScan
<1> QED
  BY <1>1, <1>2, <1>3

\* The body of a request is a JSON string, of an absent one the empty string.
LEMMA RequestBody ==
  ASSUME request \in Posts \cup {NoRequest}
  PROVE  request.body \in Seq(Character)
<1>1. CASE request \in Posts
  BY <1>1, StringsAssumption
<1>2. CASE request = NoRequest
  <2>1. request.body = <<>>
    BY <1>2 DEF NoRequest
  <2> QED
    BY <2>1, EmptySeq
<1> QED
  BY <1>1, <1>2

\* Before the first request.
LEMMA InitHolds == Init => IInv
<1> SUFFICES ASSUME Init PROVE IInv
  OBVIOUS
<1>1. phase = "off" /\ scan = NoScan /\ stored = {} /\ received = {} /\ reply = 0 /\ peerReply = 0
  BY DEF Init
<1>2. Shaped
  BY <1>1, NoScanFacts DEF Init, Shaped, Phases
<1>3. MidCharacter
  BY <1>1, NoScanFacts DEF MidCharacter, Reading
<1>4. BehindIndex /\ AcceptedIsWellFormed /\ VerdictIsUnicode
  BY <1>1 DEF BehindIndex, Leading, Reading, AcceptedIsWellFormed, VerdictIsUnicode
<1>5. OwnText /\ Unanswered /\ PeerNeverRefuses /\ PeerStoresTheBody
  BY <1>1 DEF OwnText, Unanswered, PeerNeverRefuses, PeerStoresTheBody
<1> QED
  BY <1>2, <1>3, <1>4, <1>5 DEF IInv

\* Steps outside is_valid_utf8 and its verdict leave its locals reset.
LEMMA OutsideScan ==
  ASSUME MidCharacter, ~Reading, UNCHANGED scan \/ scan' = NoScan, ~Reading'
  PROVE  MidCharacter'
<1>1. scan.continuation_count = 0 /\ scan.offset = 0 /\ scan.code_point = 0
  BY DEF MidCharacter
<1> QED
  BY <1>1, NoScanFacts DEF MidCharacter

\* main refuses an identity and is given another one, or starts with a valid one.
LEMMA RestartKeeps == IInv /\ (Restart \/ Start) => IInv'
<1> SUFFICES ASSUME IInv, Restart \/ Start PROVE IInv'
  OBVIOUS
<1>1. /\ phase = "off" /\ phase' \in {"off", "idle"}
      /\ identity' \in Identities
      /\ phase' = "idle" => ValidIdentity(identity')
      /\ UNCHANGED <<request, scan, stored, received, reply, peerReply>>
  BY DEF Restart, Start, IInv, Shaped, ValidIdentity
<1>2. Shaped'
  BY <1>1 DEF IInv, Shaped, Phases
<1>3. MidCharacter'
  <2>1. ~Reading /\ ~Reading'
    BY <1>1 DEF Reading
  <2> QED
    BY <1>1, <2>1, OutsideScan DEF IInv
<1>4. BehindIndex' /\ AcceptedIsWellFormed' /\ VerdictIsUnicode'
  BY <1>1 DEF BehindIndex, Leading, Reading, AcceptedIsWellFormed, VerdictIsUnicode
<1>5. stored = {} /\ reply # 400 /\ peerReply = 0 /\ received = {}
  BY <1>1 DEF IInv, OwnText, Unanswered
<1>6. OwnText' /\ Unanswered' /\ PeerNeverRefuses' /\ PeerStoresTheBody'
  BY <1>1, <1>5 DEF OwnText, Unanswered, PeerNeverRefuses, PeerStoresTheBody
<1> QED
  BY <1>2, <1>3, <1>4, <1>6 DEF IInv

\* A request comes in and is routed.
LEMMA ProcessRequestKeeps == IInv /\ ProcessRequest => IInv'
<1> SUFFICES ASSUME IInv, ProcessRequest PROVE IInv'
  OBVIOUS
<1>1. PICK r \in Posts : /\ request' = r
                         /\ reply' = RouteStatus(r)
                         /\ phase' = IF reply' = 0 THEN "routed" ELSE "answered"
  BY DEF ProcessRequest
<1>2. phase = "idle" /\ UNCHANGED <<identity, scan, stored, received, peerReply>>
  BY DEF ProcessRequest
<1>3. reply' \in {0, 200, 400, 404, 405} /\ (reply' = 400 => r.path = "")
  <2> DEFINE unknown == r.path \notin {route[2] : route \in Routes}
             other == <<r.method, r.path>> \notin Routes
  <2>1. CASE r.path = ""
    <3>1. reply' = 400
      BY <1>1, <2>1 DEF RouteStatus
    <3> QED
      BY <2>1, <3>1
  <2>2. CASE r.path # "" /\ unknown
    <3>1. reply' = 404
      BY <1>1, <2>2 DEF RouteStatus
    <3> QED
      BY <3>1
  <2>3. CASE r.path # "" /\ ~unknown /\ other
    <3>1. reply' = 405
      BY <1>1, <2>3 DEF RouteStatus
    <3> QED
      BY <3>1
  <2>4. CASE r.path # "" /\ ~unknown /\ ~other
    <3>1. reply' = IF r.method = "GET" THEN 200 ELSE 0
      BY <1>1, <2>4 DEF RouteStatus
    <3> QED
      BY <3>1
  <2> HIDE DEF unknown, other
  <2> QED
    BY <2>1, <2>2, <2>3, <2>4
<1>4. phase' \in {"routed", "answered"} /\ (phase' = "routed" => reply' = 0)
  BY <1>1
<1>5. Shaped'
  <2>1. reply' \in {0, 200, 400, 404, 405, 413, 415, 500}
    BY <1>3, ZenonT(40)
  <2>2. phase' \in Phases /\ request' \in Posts \cup {NoRequest}
    BY <1>1, <1>4 DEF Phases
  <2> QED
    BY <1>2, <2>1, <2>2 DEF IInv, Shaped
<1>6. MidCharacter'
  <2>1. ~Reading /\ ~Reading'
    BY <1>2, <1>4 DEF Reading
  <2> QED
    BY <1>2, <2>1, OutsideScan DEF IInv
<1>7. BehindIndex' /\ AcceptedIsWellFormed'
  BY <1>4 DEF BehindIndex, Leading, Reading, AcceptedIsWellFormed
<1>8. VerdictIsUnicode'
  BY <1>1, <1>3, <1>4 DEF VerdictIsUnicode
<1>9. stored = {} /\ peerReply = 0 /\ received = {} /\ ValidIdentity(identity)
  BY <1>2 DEF IInv, OwnText, Unanswered
<1>10. OwnText' /\ Unanswered' /\ PeerNeverRefuses' /\ PeerStoresTheBody'
  BY <1>2, <1>4, <1>9 DEF OwnText, Unanswered, PeerNeverRefuses, PeerStoresTheBody, ValidIdentity
<1> QED
  BY <1>5, <1>6, <1>7, <1>8, <1>10 DEF IInv

\* Why create_message answers as it does.
LEMMA RefusalFacts ==
  ASSUME NEW r
  PROVE  /\ Refusal(r) \in {0, 400, 413, 415}
         /\ Refusal(r) = 400 => \/ r.json # "object" \/ r.field # "string"
                                \/ GetString(r.body) = <<>>
         /\ Refusal(r) = 0 => /\ GetString(r.body) # <<>>
                              /\ ~(Len(GetString(r.body)) > MaxMessageBytes)
<1>1. ReadJsonObject(r) \in {0, 400, 413, 415}
  BY DEF ReadJsonObject
<1>2. ReadJsonObject(r) = 400 => r.json # "object"
  BY DEF ReadJsonObject
<1> QED
  BY <1>1, <1>2 DEF Refusal

\* create_message refuses the body or begins to scan it.
LEMMA CreateMessageKeeps == IInv /\ CreateMessage => IInv'
<1> SUFFICES ASSUME IInv, CreateMessage PROVE IInv'
  OBVIOUS
<1> DEFINE text == GetString(request.body)
<1>1. phase = "routed" /\ UNCHANGED <<identity, request, stored, received, peerReply>>
  BY DEF CreateMessage
<1>2. stored = {} /\ peerReply = 0 /\ received = {} /\ ValidIdentity(identity) /\ reply # 400
  BY <1>1 DEF IInv, OwnText, Unanswered
<1>3. text \in Seq(Byte) /\ Len(text) \in Nat
  <2>1. request.body \in Seq(Character)
    BY RequestBody DEF IInv, Shaped
  <2> QED
    BY <2>1, GetStringType, LenProperties
<1> HIDE DEF text
<1>4. CASE Refusal(request) # 0 /\ reply' = Refusal(request) /\ phase' = "answered" /\ UNCHANGED scan
  <2>1. Shaped'
    BY <1>1, <1>4, RefusalFacts DEF IInv, Shaped, Phases
  <2>2. MidCharacter'
    <3>1. ~Reading /\ ~Reading'
      BY <1>1, <1>4 DEF Reading
    <3> QED
      BY <1>4, <3>1, OutsideScan DEF IInv
  <2>3. BehindIndex' /\ AcceptedIsWellFormed'
    BY <1>4 DEF BehindIndex, Leading, Reading, AcceptedIsWellFormed
  <2>4. VerdictIsUnicode'
    BY <1>1, <1>4, RefusalFacts DEF VerdictIsUnicode
  <2>5. OwnText' /\ Unanswered' /\ PeerNeverRefuses' /\ PeerStoresTheBody'
    BY <1>1, <1>2, <1>4 DEF OwnText, Unanswered, PeerNeverRefuses, PeerStoresTheBody, ValidIdentity
  <2> QED
    BY <2>1, <2>2, <2>3, <2>4, <2>5 DEF IInv
<1>5. CASE Refusal(request) = 0 /\ scan' = Begin(text) /\ phase' = "lead" /\ UNCHANGED reply
  <2>1. text # <<>> /\ ~(Len(text) > MaxMessageBytes)
    BY <1>5, RefusalFacts DEF text
  <2>2. Len(text) > 0 /\ Len(text) <= MaxMessageBytes
    <3>1. MaxMessageBytes \in Nat
      BY RequestsAssumption
    <3>2. Len(text) # 0
      BY <1>3, <2>1, EmptySeq
    <3> QED
      BY <1>3, <2>1, <3>1, <3>2
  <2>3. scan'.text = text /\ scan'.index = 0
    BY <1>3, <1>5, BeginType
  <2>4. Shaped'
    BY <1>1, <1>3, <1>5, <2>2, BeginType DEF IInv, Shaped, Phases
  <2>5. MidCharacter'
    <3>1. ~Reading'
      BY <1>5 DEF Reading
    <3> QED
      BY <1>3, <1>5, <3>1, BeginType DEF MidCharacter
  <2>6. BehindIndex'
    BY <2>3, BehindStart DEF BehindIndex
  <2>7. AcceptedIsWellFormed' /\ VerdictIsUnicode'
    BY <1>5 DEF AcceptedIsWellFormed, VerdictIsUnicode
  <2>8. OwnText'
    BY <1>1, <1>2, <1>5, <2>2, <2>3 DEF OwnText, text
  <2>9. Unanswered' /\ PeerNeverRefuses' /\ PeerStoresTheBody'
    BY <1>1, <1>2, <1>5 DEF Unanswered, PeerNeverRefuses, PeerStoresTheBody, ValidIdentity
  <2> QED
    BY <2>4, <2>5, <2>6, <2>7, <2>8, <2>9 DEF IInv
<1> QED
  BY <1>4, <1>5 DEF CreateMessage, text

\* A caller of is_valid_utf8 gets true at the end of a well-formed text only.
LEMMA EndOfText ==
  ASSUME Shaped, Behind(scan.text, scan.index), scan.index >= Len(scan.text)
  PROVE  WellFormed(scan.text)
<1>1. /\ scan.text \in Seq(Byte) /\ scan.index \in Nat /\ Len(scan.text) \in Nat
      /\ scan.index <= Len(scan.text)
  BY LenProperties DEF Shaped
<1>2. scan.index = Len(scan.text)
  BY <1>1
<1> QED
  BY <1>1, <1>2, BehindEnd

\* The scan of a user's text ends at its length: it is well-formed.
LEMMA AcceptTextKeeps ==
  ASSUME IInv, phase = "lead", WellFormed(scan.text), AcceptText
  PROVE  IInv'
<1>1. phase' = "create" /\ UNCHANGED <<scan, others>>
  BY DEF AcceptText
<1>2. Shaped'
  BY <1>1 DEF IInv, Shaped, Phases, others
<1>3. MidCharacter'
  <2>1. ~Reading /\ ~Reading'
    BY <1>1 DEF Reading
  <2> QED
    BY <1>1, <2>1, OutsideScan DEF IInv
<1>4. BehindIndex' /\ AcceptedIsWellFormed' /\ VerdictIsUnicode'
  BY <1>1 DEF BehindIndex, Leading, Reading, AcceptedIsWellFormed, VerdictIsUnicode
<1>5. OwnText' /\ Unanswered' /\ PeerNeverRefuses' /\ PeerStoresTheBody'
  BY <1>1 DEF IInv, OwnText, Unanswered, PeerNeverRefuses, PeerStoresTheBody, others, ValidIdentity
<1> QED
  BY <1>2, <1>3, <1>4, <1>5 DEF IInv

\* The scan of a user's text returns false: it is not well-formed.
LEMMA RefuseTextKeeps ==
  ASSUME IInv, phase \in {"lead", "continuation"}, ~WellFormed(scan.text), RefuseText
  PROVE  IInv'
<1>1. /\ reply' = 400 /\ phase' = "answered" /\ scan' = NoScan
      /\ UNCHANGED <<identity, request, stored, received, peerReply>>
  BY DEF RefuseText
<1>2. /\ stored = {} /\ ValidIdentity(identity)
      /\ scan.text = GetString(request.body)
  BY DEF IInv, OwnText, Unanswered
<1>3. Shaped'
  BY <1>1, NoScanFacts DEF IInv, Shaped, Phases
<1>4. MidCharacter'
  BY <1>1, NoScanFacts DEF MidCharacter, Reading
<1>5. BehindIndex' /\ AcceptedIsWellFormed'
  BY <1>1 DEF BehindIndex, Leading, Reading, AcceptedIsWellFormed
<1>6. VerdictIsUnicode'
  BY <1>1, <1>2 DEF VerdictIsUnicode
<1>7. OwnText' /\ Unanswered' /\ PeerNeverRefuses' /\ PeerStoresTheBody'
  BY <1>1, <1>2 DEF OwnText, Unanswered, PeerNeverRefuses, PeerStoresTheBody, ValidIdentity
<1> QED
  BY <1>3, <1>4, <1>5, <1>6, <1>7 DEF IInv

\* A lead byte of a user's text.
LEMMA CreateLeadKeeps == IInv /\ CreateLead => IInv'
<1> SUFFICES ASSUME IInv, CreateLead PROVE IInv'
  OBVIOUS
<1> DEFINE count == ContinuationCount(scan.text[scan.index + 1])
<1>1. phase = "lead" /\ Lead(AcceptText, RefuseText, "continuation")
  BY DEF CreateLead
<1>2. Shaped /\ Behind(scan.text, scan.index)
  BY <1>1 DEF IInv, BehindIndex, Leading
<1>3. CASE scan.index >= Len(scan.text) /\ AcceptText
  BY <1>1, <1>2, <1>3, EndOfText, AcceptTextKeeps
<1>4. CASE scan.index < Len(scan.text) /\ (count = -1 \/ CutShort(count)) /\ RefuseText
  <2>1. ~WellFormed(scan.text)
    BY <1>2, <1>4, LeadVerdict
  <2> QED
    BY <1>1, <1>4, <2>1, RefuseTextKeeps
<1>5. CASE Lead(FALSE, FALSE, "continuation")
  BY <1>1, <1>5, LeadKeeps
<1> QED
  BY <1>1, <1>3, <1>4, <1>5 DEF Lead

\* A continuation byte of a user's text.
LEMMA CreateContinuationKeeps == IInv /\ CreateContinuation => IInv'
<1> SUFFICES ASSUME IInv, CreateContinuation PROVE IInv'
  OBVIOUS
<1> DEFINE count == scan.continuation_count
           next  == scan.text[scan.index + scan.offset + 1]
           point == scan.code_point * 64 + (next % 64)
           bad   == \/ next \div 64 # 2
                    \/ scan.offset = count /\ BadCodePoint(count, point)
<1>1. phase = "continuation" /\ Continuation(RefuseText, "lead")
  BY DEF CreateContinuation
<1>2. Shaped /\ MidCharacter /\ Reading /\ Behind(scan.text, scan.index)
  BY <1>1 DEF IInv, BehindIndex, Reading
<1>3. CASE bad /\ RefuseText
  <2>1. (\/ next \div 64 # 2
         \/ scan.offset = count /\ BadCodePoint(count, point))
          => ~WellFormed(scan.text)
    BY <1>2, ContinuationVerdict
  <2> HIDE DEF next, count, point
  <2>2. ~WellFormed(scan.text)
    BY <1>3, <2>1
  <2> QED
    BY <1>1, <1>3, <2>2, RefuseTextKeeps
<1>4. CASE Continuation(FALSE, "lead")
  BY <1>1, <1>4, ContinuationKeeps
<1> QED
  BY <1>1, <1>3, <1>4 DEF Continuation

\* The accepted text becomes a message and is sent to the peer.
LEMMA CreateLocalKeeps == IInv /\ CreateLocal => IInv'
<1> SUFFICES ASSUME IInv, CreateLocal PROVE IInv'
  OBVIOUS
<1>1. /\ phase = "create" /\ scan' = NoScan
      /\ UNCHANGED <<identity, request, received, peerReply>>
      /\ \/ stored' = {scan.text} /\ reply' = 200 /\ phase' = "wire"
         \/ stored' = stored /\ reply' = 500 /\ phase' = "answered"
  BY DEF CreateLocal
<1>2. /\ stored = {} /\ received = {} /\ peerReply = 0 /\ ValidIdentity(identity)
      /\ Len(scan.text) > 0 /\ WellFormed(scan.text)
  BY <1>1 DEF IInv, OwnText, Unanswered, AcceptedIsWellFormed
<1>3. scan.text \in Seq(Byte) /\ Len(scan.text) \in 1 .. MaxMessageBytes
  <2>1. scan.text \in Seq(Byte) /\ Len(scan.text) <= MaxMessageBytes /\ Len(scan.text) \in Nat
    BY LenProperties DEF IInv, Shaped
  <2>2. MaxMessageBytes \in Nat
    BY RequestsAssumption
  <2> QED
    BY <1>2, <2>1, <2>2
<1>4. Shaped'
  BY <1>1, NoScanFacts DEF IInv, Shaped, Phases
<1>5. MidCharacter'
  BY <1>1, NoScanFacts DEF MidCharacter, Reading
<1>6. BehindIndex' /\ AcceptedIsWellFormed' /\ VerdictIsUnicode'
  BY <1>1 DEF BehindIndex, Leading, Reading, AcceptedIsWellFormed, VerdictIsUnicode
<1>7. Unanswered' /\ PeerNeverRefuses' /\ PeerStoresTheBody'
  BY <1>1, <1>2 DEF Unanswered, PeerNeverRefuses, PeerStoresTheBody, ValidIdentity
<1>8. OwnText'
  <2>1. CASE stored' = {scan.text} /\ phase' = "wire"
    BY <1>2, <1>3, <2>1 DEF OwnText
  <2>2. CASE stored' = stored /\ phase' = "answered"
    BY <1>2, <2>2 DEF OwnText
  <2> QED
    BY <1>1, <2>1, <2>2
<1> QED
  BY <1>4, <1>5, <1>6, <1>7, <1>8 DEF IInv

\* A stored message has a sequence that a column holds.
SequenceFits == stored # {} => identity.sequence <= MaxInteger

LEMMA SequenceFitsKeeps == IInv /\ SequenceFits /\ [Next]_vars => SequenceFits'
<1> SUFFICES ASSUME IInv, SequenceFits, [Next]_vars PROVE SequenceFits'
  OBVIOUS
<1>1. CASE Restart \/ Start
  <2>1. stored' = {}
    BY <1>1 DEF Restart, Start, IInv, OwnText
  <2> QED
    BY <2>1 DEF SequenceFits
<1>2. CASE CreateLocal
  BY <1>2 DEF CreateLocal, SequenceFits
<1>3. CASE Finish
  BY <1>3 DEF Finish, SequenceFits
<1>4. CASE UNCHANGED <<identity, stored>>
  BY <1>4 DEF SequenceFits
<1>5. Lead(AcceptText, RefuseText, "continuation")
        \/ Lead(AcceptMessage, RefuseMessage, "peerContinuation")
        => UNCHANGED <<identity, stored>>
  BY DEF Lead, AcceptText, RefuseText, AcceptMessage, RefuseMessage, others
<1>6. Continuation(RefuseText, "lead") \/ Continuation(RefuseMessage, "peerLead")
        => UNCHANGED <<identity, stored>>
  BY DEF Continuation, RefuseText, RefuseMessage, others
<1>7. CASE CreateLead \/ PeerLead \/ CreateContinuation \/ PeerContinuation
  BY <1>4, <1>5, <1>6, <1>7
     DEF CreateLead, PeerLead, CreateContinuation, PeerContinuation
<1>8. CASE ProcessRequest \/ CreateMessage \/ PeerRequest \/ PeerRequestLost \/ Ingest
  BY <1>4, <1>8 DEF ProcessRequest, CreateMessage, PeerRequest, PeerRequestLost, Ingest
<1>9. CASE UNCHANGED vars
  BY <1>4, <1>9 DEF vars
<1> QED
  BY <1>1, <1>2, <1>3, <1>7, <1>8, <1>9 DEF Next

\* The peer can read the message that a node has stored, from the node and from
\* a peer.
LEMMA StoredParses ==
  ASSUME NEW text \in Seq(Byte), stored = {text},
         Len(text) \in 1 .. MaxMessageBytes,
         identity \in Identities, ValidIdentity(identity),
         identity.sequence <= MaxInteger
  PROVE  /\ Parses(Message) /\ GetString(Message.body) = text
         /\ Relayed = Message
<1>1. (CHOOSE body \in stored : TRUE) = text
  OBVIOUS
<1>2. /\ identity.node_id \in 1 .. MaxName /\ identity.callsign \in 1 .. MaxName
      /\ identity.digits \in Nat /\ MaxName \in Nat /\ MaxId \in Nat
      /\ MaxName + 1 + identity.digits <= MaxId
      /\ identity.sequence \in Nat \ {0}
  BY RequestsAssumption, IdAssumption DEF ValidIdentity
<1> DEFINE size == identity.node_id + 1 + identity.digits
<1>3. size \in 1 .. MaxId
  BY <1>2, SMTT(40)
<1> HIDE DEF size
<1>4. Message = [typed |-> Fields, sequence |-> identity.sequence,
                 id |-> Argument(size), origin |-> Argument(identity.node_id),
                 callsign |-> Argument(identity.callsign),
                 channel |-> DefaultChannel, body |-> BodyToJson(text)]
  <2>1. \A n : CStr(Argument(n)) = Argument(n)
    BY DEF CStr, Argument
  <2>2. Int64(identity.sequence) = identity.sequence
    BY DEF Int64
  <2> QED
    BY <1>1, <2>1, <2>2 DEF Message, ToJson, Created, size
<1>5. GetString(Message.body) = text
  BY <1>4, RoundTrip
<1>6. Parses(Message)
  <2>1. \A n : Argument(n).size = n
    BY DEF Argument
  <2>2. /\ Message.typed = Fields /\ Message.sequence = identity.sequence
        /\ Message.id.size = size /\ Message.origin.size = identity.node_id
        /\ Message.callsign.size = identity.callsign
        /\ Message.channel = DefaultChannel
    BY <1>4, <2>1
  <2> QED
    BY <1>2, <1>3, <1>5, <2>2 DEF Parses
<1>7. Relayed = Message
  <2>1. \A n : CStr(Argument(n)) = Argument(n)
    BY DEF CStr, Argument
  <2>2. Int64(identity.sequence) = identity.sequence
    BY DEF Int64
  <2> QED
    BY <1>4, <1>5, <2>1, <2>2 DEF Relayed, ToJson, FromJson
<1> QED
  BY <1>5, <1>6, <1>7

\* The peer reads the request that carries the message.
LEMMA PeerRequestKeeps == IInv /\ SequenceFits /\ PeerRequest => IInv'
<1> SUFFICES ASSUME IInv, SequenceFits, PeerRequest PROVE IInv'
  OBVIOUS
<1>1. UNCHANGED <<identity, request, stored, received, reply>>
  BY DEF PeerRequest
<1>2. PICK m \in Arriving :
        \/ peerReply' = 413 /\ phase' = "answered" /\ UNCHANGED scan
        \/ ~Parses(m) /\ peerReply' = 400 /\ phase' = "answered" /\ UNCHANGED scan
        \/ /\ Parses(m) /\ scan' = Begin(GetString(m.body)) /\ phase' = "peerLead"
           /\ UNCHANGED peerReply
  <2>1. PICK m \in Arriving, limit \in {MaxRequestBytes, MaxSyncRequestBytes} :
          LET fits == ~TooLarge(MessageEnvelope + JsonSize(m.body), limit) IN
          \/ ~fits /\ peerReply' = 413 /\ phase' = "answered" /\ UNCHANGED scan
          \/ /\ fits /\ ~Parses(m)
             /\ peerReply' = 400 /\ phase' = "answered" /\ UNCHANGED scan
          \/ /\ fits /\ Parses(m)
             /\ scan' = Begin(GetString(m.body)) /\ phase' = "peerLead"
             /\ UNCHANGED peerReply
    BY DEF PeerRequest
  <2> QED
    BY <2>1
<1>3. \/ phase = "wire" /\ m \in {Message, Relayed}
      \/ phase = "idle" /\ m \in Foreign
  <2>1. CASE phase = "wire"
    BY <2>1 DEF Arriving
  <2>2. CASE phase = "idle"
    BY <2>2 DEF Arriving
  <2>3. CASE phase \notin {"wire", "idle"}
    BY <2>3 DEF Arriving
  <2> QED
    BY <2>1, <2>2, <2>3
<1>4. /\ reply # 400 /\ peerReply = 0 /\ received = {} /\ ValidIdentity(identity)
      /\ identity \in Identities /\ Shaped /\ MidCharacter
  BY <1>3 DEF IInv, Unanswered, Shaped
<1>5. phase = "idle" => stored = {}
  BY DEF IInv, OwnText
<1>6. ASSUME phase = "wire"
      PROVE  \E text \in Seq(Byte) :
               /\ stored = {text} /\ WellFormed(text)
               /\ Len(text) \in 1 .. MaxMessageBytes
               /\ Parses(m) /\ GetString(m.body) = text
  <2>1. PICK text \in Seq(Byte) : /\ stored = {text}
                                  /\ WellFormed(text)
                                  /\ Len(text) \in 1 .. MaxMessageBytes
    BY <1>6 DEF IInv, OwnText
  <2>2. Parses(m) /\ GetString(m.body) = text
    <3>1. identity.sequence <= MaxInteger
      BY <2>1 DEF SequenceFits
    <3>2. Parses(Message) /\ GetString(Message.body) = text /\ Relayed = Message
      BY <1>4, <2>1, <3>1, StoredParses
    <3> QED
      BY <1>3, <1>6, <3>2
  <2> QED
    BY <2>1, <2>2
<1>7. GetString(m.body) \in Seq(Byte)
  <2>1. CASE phase = "wire"
    BY <1>6, <2>1
  <2>2. CASE phase = "idle"
    <3>1. m.body \in Seq(Character)
      BY <1>3, <2>2, StringsAssumption
    <3> QED
      BY <3>1, GetStringType
  <2> QED
    BY <1>3, <2>1, <2>2
<1>8. CASE phase' = "answered" /\ UNCHANGED scan
  <2>1. peerReply' \in {413, 400} /\ (peerReply' = 400 => ~Parses(m))
    BY <1>2, <1>8
  <2>2. stored # {} => peerReply' # 400
    BY <1>3, <1>5, <1>6, <2>1
  <2>3. Shaped'
    BY <1>1, <1>4, <1>8, <2>1 DEF Shaped, Phases
  <2>4. MidCharacter'
    <3>1. ~Reading /\ ~Reading'
      BY <1>3, <1>8 DEF Reading
    <3> QED
      BY <1>4, <1>8, <3>1, OutsideScan
  <2>5. BehindIndex' /\ AcceptedIsWellFormed' /\ VerdictIsUnicode'
    BY <1>1, <1>4, <1>8 DEF BehindIndex, Leading, Reading, AcceptedIsWellFormed, VerdictIsUnicode
  <2>6. Unanswered' /\ PeerNeverRefuses' /\ PeerStoresTheBody'
    BY <1>1, <1>4, <1>8, <2>2 DEF Unanswered, PeerNeverRefuses, PeerStoresTheBody, ValidIdentity
  <2>7. OwnText'
    <3>1. CASE stored = {}
      BY <1>1, <1>8, <3>1 DEF OwnText
    <3>2. CASE stored # {}
      <4>1. PICK text \in Seq(Byte) : /\ stored = {text}
                                      /\ WellFormed(text)
                                      /\ Len(text) \in 1 .. MaxMessageBytes
        BY <3>2 DEF IInv, OwnText
      <4> QED
        BY <1>1, <1>8, <4>1 DEF OwnText
    <3> QED
      BY <3>1, <3>2
  <2> QED
    BY <2>3, <2>4, <2>5, <2>6, <2>7 DEF IInv
<1>9. CASE Parses(m) /\ scan' = Begin(GetString(m.body)) /\ phase' = "peerLead" /\ UNCHANGED peerReply
  <2> DEFINE bytes == GetString(m.body)
  <2>1. Len(bytes) \in 1 .. MaxMessageBytes
    BY <1>9 DEF Parses
  <2> HIDE DEF bytes
  <2>2. bytes \in Seq(Byte) /\ scan' = Begin(bytes)
    BY <1>7, <1>9 DEF bytes
  <2>3. scan'.text = bytes /\ scan'.index = 0
    BY <2>2, BeginType
  <2>4. Shaped'
    <3>1. /\ scan' \in [text : Seq(Byte), index : Nat, offset : Nat,
                        continuation_count : 0 .. 3, code_point : Nat]
          /\ Len(scan'.text) <= MaxMessageBytes
          /\ scan'.index <= Len(scan'.text)
      <4>1. MaxMessageBytes \in Nat
        BY RequestsAssumption
      <4> QED
        BY <2>1, <2>2, <2>3, <4>1, BeginType
    <3> QED
      BY <1>1, <1>4, <1>9, <3>1 DEF Shaped, Phases
  <2>5. MidCharacter'
    <3>1. ~Reading'
      BY <1>9 DEF Reading
    <3> QED
      BY <2>2, <3>1, BeginType DEF MidCharacter
  <2>6. BehindIndex'
    BY <2>3, BehindStart DEF BehindIndex
  <2>7. AcceptedIsWellFormed' /\ VerdictIsUnicode'
    BY <1>9 DEF AcceptedIsWellFormed, VerdictIsUnicode
  <2>8. Unanswered' /\ PeerNeverRefuses' /\ PeerStoresTheBody'
    BY <1>1, <1>4, <1>9 DEF Unanswered, PeerNeverRefuses, PeerStoresTheBody, ValidIdentity
  <2>9. OwnText'
    <3>1. CASE stored = {}
      BY <1>1, <1>9, <3>1 DEF OwnText
    <3>2. CASE stored # {}
      <4>1. PICK text \in Seq(Byte) : /\ stored = {text}
                                      /\ WellFormed(text)
                                      /\ Len(text) \in 1 .. MaxMessageBytes
                                      /\ bytes = text
        BY <1>3, <1>5, <1>6, <3>2 DEF bytes
      <4> QED
        BY <1>1, <1>9, <2>3, <4>1 DEF OwnText
    <3> QED
      BY <3>1, <3>2
  <2> QED
    BY <2>4, <2>5, <2>6, <2>7, <2>8, <2>9 DEF IInv
<1> QED
  BY <1>2, <1>8, <1>9

\* The request to the peer fails.
LEMMA PeerRequestLostKeeps == IInv /\ PeerRequestLost => IInv'
<1> SUFFICES ASSUME IInv, PeerRequestLost PROVE IInv'
  OBVIOUS
<1>1. /\ phase = "wire" /\ phase' = "answered"
      /\ UNCHANGED <<identity, request, scan, stored, received, reply, peerReply>>
  BY DEF PeerRequestLost
<1>2. reply # 400 /\ peerReply = 0 /\ received = {} /\ ValidIdentity(identity)
  BY <1>1 DEF IInv, Unanswered
<1>3. Shaped'
  BY <1>1 DEF IInv, Shaped, Phases
<1>4. MidCharacter'
  <2>1. ~Reading /\ ~Reading'
    BY <1>1 DEF Reading
  <2> QED
    BY <1>1, <2>1, OutsideScan DEF IInv
<1>5. BehindIndex' /\ AcceptedIsWellFormed' /\ VerdictIsUnicode'
  BY <1>1, <1>2 DEF BehindIndex, Leading, Reading, AcceptedIsWellFormed, VerdictIsUnicode
<1>6. Unanswered' /\ PeerNeverRefuses' /\ PeerStoresTheBody'
  BY <1>1, <1>2 DEF Unanswered, PeerNeverRefuses, PeerStoresTheBody, ValidIdentity
<1>7. OwnText'
  <2>1. PICK text \in Seq(Byte) : /\ stored = {text}
                                  /\ WellFormed(text)
                                  /\ Len(text) \in 1 .. MaxMessageBytes
    BY <1>1 DEF IInv, OwnText
  <2> QED
    BY <1>1, <2>1 DEF OwnText
<1> QED
  BY <1>3, <1>4, <1>5, <1>6, <1>7 DEF IInv

\* The peer's scan ends at the length of the body.
LEMMA AcceptMessageKeeps ==
  ASSUME IInv, phase = "peerLead", WellFormed(scan.text), AcceptMessage
  PROVE  IInv'
<1>1. phase' = "ingest" /\ UNCHANGED <<scan, others>>
  BY DEF AcceptMessage
<1>2. Shaped'
  BY <1>1 DEF IInv, Shaped, Phases, others
<1>3. MidCharacter'
  <2>1. ~Reading /\ ~Reading'
    BY <1>1 DEF Reading
  <2> QED
    BY <1>1, <2>1, OutsideScan DEF IInv
<1>4. BehindIndex' /\ AcceptedIsWellFormed' /\ VerdictIsUnicode'
  BY <1>1 DEF BehindIndex, Leading, Reading, AcceptedIsWellFormed, VerdictIsUnicode
<1>5. Unanswered' /\ PeerNeverRefuses' /\ PeerStoresTheBody'
  BY <1>1 DEF IInv, Unanswered, PeerNeverRefuses, PeerStoresTheBody, others, ValidIdentity
<1>6. OwnText'
  <2>1. CASE stored = {}
    BY <1>1, <2>1 DEF OwnText, others
  <2>2. CASE stored # {}
    <3>1. PICK text \in Seq(Byte) : /\ stored = {text}
                                    /\ WellFormed(text)
                                    /\ Len(text) \in 1 .. MaxMessageBytes
                                    /\ scan.text = text
      BY <2>2 DEF IInv, OwnText
    <3> QED
      BY <1>1, <3>1 DEF OwnText, others
  <2> QED
    BY <2>1, <2>2
<1> QED
  BY <1>2, <1>3, <1>4, <1>5, <1>6 DEF IInv

\* The peer refuses only what no node has stored.
LEMMA RefuseMessageKeeps ==
  ASSUME IInv, phase \in {"peerLead", "peerContinuation"}, ~WellFormed(scan.text),
         RefuseMessage
  PROVE  IInv'
<1>1. /\ peerReply' = 400 /\ phase' = "answered" /\ scan' = NoScan
      /\ UNCHANGED <<identity, request, stored, received, reply>>
  BY DEF RefuseMessage
<1>2. stored = {}
  BY DEF IInv, OwnText
<1>3. reply # 400 /\ ValidIdentity(identity)
  BY DEF IInv, Unanswered
<1>4. Shaped'
  BY <1>1, NoScanFacts DEF IInv, Shaped, Phases
<1>5. MidCharacter'
  BY <1>1, NoScanFacts DEF MidCharacter, Reading
<1>6. BehindIndex' /\ AcceptedIsWellFormed' /\ VerdictIsUnicode'
  BY <1>1, <1>3 DEF BehindIndex, Leading, Reading, AcceptedIsWellFormed, VerdictIsUnicode
<1>7. OwnText' /\ Unanswered' /\ PeerNeverRefuses' /\ PeerStoresTheBody'
  BY <1>1, <1>2, <1>3 DEF OwnText, Unanswered, PeerNeverRefuses, PeerStoresTheBody, ValidIdentity
<1> QED
  BY <1>4, <1>5, <1>6, <1>7 DEF IInv

\* A lead byte of the body at the peer.
LEMMA PeerLeadKeeps == IInv /\ PeerLead => IInv'
<1> SUFFICES ASSUME IInv, PeerLead PROVE IInv'
  OBVIOUS
<1> DEFINE count == ContinuationCount(scan.text[scan.index + 1])
<1>1. phase = "peerLead" /\ Lead(AcceptMessage, RefuseMessage, "peerContinuation")
  BY DEF PeerLead
<1>2. Shaped /\ Behind(scan.text, scan.index)
  BY <1>1 DEF IInv, BehindIndex, Leading
<1>3. CASE scan.index >= Len(scan.text) /\ AcceptMessage
  BY <1>1, <1>2, <1>3, EndOfText, AcceptMessageKeeps
<1>4. CASE scan.index < Len(scan.text) /\ (count = -1 \/ CutShort(count)) /\ RefuseMessage
  <2>1. ~WellFormed(scan.text)
    BY <1>2, <1>4, LeadVerdict
  <2> QED
    BY <1>1, <1>4, <2>1, RefuseMessageKeeps
<1>5. CASE Lead(FALSE, FALSE, "peerContinuation")
  BY <1>1, <1>5, LeadKeeps
<1> QED
  BY <1>1, <1>3, <1>4, <1>5 DEF Lead

\* A continuation byte of the body at the peer.
LEMMA PeerContinuationKeeps == IInv /\ PeerContinuation => IInv'
<1> SUFFICES ASSUME IInv, PeerContinuation PROVE IInv'
  OBVIOUS
<1> DEFINE count == scan.continuation_count
           next  == scan.text[scan.index + scan.offset + 1]
           point == scan.code_point * 64 + (next % 64)
           bad   == \/ next \div 64 # 2
                    \/ scan.offset = count /\ BadCodePoint(count, point)
<1>1. phase = "peerContinuation" /\ Continuation(RefuseMessage, "peerLead")
  BY DEF PeerContinuation
<1>2. Shaped /\ MidCharacter /\ Reading /\ Behind(scan.text, scan.index)
  BY <1>1 DEF IInv, BehindIndex, Reading
<1>3. CASE bad /\ RefuseMessage
  <2>1. (\/ next \div 64 # 2
         \/ scan.offset = count /\ BadCodePoint(count, point))
          => ~WellFormed(scan.text)
    BY <1>2, ContinuationVerdict
  <2> HIDE DEF next, count, point
  <2>2. ~WellFormed(scan.text)
    BY <1>3, <2>1
  <2> QED
    BY <1>1, <1>3, <2>2, RefuseMessageKeeps
<1>4. CASE Continuation(FALSE, "peerLead")
  BY <1>1, <1>4, ContinuationKeeps
<1> QED
  BY <1>1, <1>3, <1>4 DEF Continuation

\* The peer stores what it has parsed.
LEMMA IngestKeeps == IInv /\ Ingest => IInv'
<1> SUFFICES ASSUME IInv, Ingest PROVE IInv'
  OBVIOUS
<1>1. /\ phase = "ingest" /\ phase' = "answered" /\ scan' = NoScan
      /\ UNCHANGED <<identity, request, stored, reply>>
      /\ \/ received' = {scan.text} /\ peerReply' = 200
         \/ peerReply' = 500 /\ received' = received
  BY DEF Ingest
<1>2. reply # 400 /\ received = {} /\ ValidIdentity(identity)
  BY <1>1 DEF IInv, Unanswered
<1>3. stored # {} => \E text \in Seq(Byte) : /\ stored = {text}
                                             /\ WellFormed(text)
                                             /\ Len(text) \in 1 .. MaxMessageBytes
                                             /\ scan.text = text
  BY <1>1 DEF IInv, OwnText
<1>4. Shaped'
  BY <1>1, NoScanFacts DEF IInv, Shaped, Phases
<1>5. MidCharacter'
  BY <1>1, NoScanFacts DEF MidCharacter, Reading
<1>6. BehindIndex' /\ AcceptedIsWellFormed' /\ VerdictIsUnicode'
  BY <1>1, <1>2 DEF BehindIndex, Leading, Reading, AcceptedIsWellFormed, VerdictIsUnicode
<1>7. Unanswered' /\ PeerNeverRefuses'
  BY <1>1, <1>2 DEF Unanswered, PeerNeverRefuses, ValidIdentity
<1>8. PeerStoresTheBody'
  BY <1>1, <1>2, <1>3 DEF PeerStoresTheBody
<1>9. OwnText'
  BY <1>1, <1>3 DEF OwnText
<1> QED
  BY <1>4, <1>5, <1>6, <1>7, <1>8, <1>9 DEF IInv

\* The request is over.
LEMMA FinishKeeps == IInv /\ Finish => IInv'
<1> SUFFICES ASSUME IInv, Finish PROVE IInv'
  OBVIOUS
<1>1. /\ phase = "answered" /\ phase' = "idle" /\ request' = NoRequest
      /\ stored' = {} /\ received' = {} /\ reply' = 0 /\ peerReply' = 0
      /\ identity' \in Later(identity) /\ UNCHANGED scan
  BY DEF Finish
<1>2. identity' \in Identities /\ ValidIdentity(identity')
  <2>1. ValidIdentity(identity)
    BY <1>1 DEF IInv, Unanswered
  <2> QED
    BY <1>1, <2>1 DEF Later, ValidIdentity
<1>3. Shaped'
  BY <1>1, <1>2 DEF IInv, Shaped, Phases
<1>4. MidCharacter'
  <2>1. ~Reading /\ ~Reading'
    BY <1>1 DEF Reading
  <2> QED
    BY <1>1, <2>1, OutsideScan DEF IInv
<1>5. BehindIndex' /\ AcceptedIsWellFormed' /\ VerdictIsUnicode'
  BY <1>1 DEF BehindIndex, Leading, Reading, AcceptedIsWellFormed, VerdictIsUnicode
<1>6. OwnText' /\ Unanswered' /\ PeerNeverRefuses' /\ PeerStoresTheBody'
  BY <1>1, <1>2 DEF OwnText, Unanswered, PeerNeverRefuses, PeerStoresTheBody, ValidIdentity
<1> QED
  BY <1>3, <1>4, <1>5, <1>6 DEF IInv

\* A step that changes nothing.
LEMMA StutterKeeps == IInv /\ UNCHANGED vars => IInv'
BY DEF IInv, vars, Shaped, MidCharacter, Reading, Leading, BehindIndex,
       AcceptedIsWellFormed, OwnText, Unanswered, ValidIdentity,
       VerdictIsUnicode, PeerNeverRefuses, PeerStoresTheBody

\* The inductive invariant holds in every behaviour.
LEMMA IInvHolds == Spec => []IInv
<1>1. IInv /\ SequenceFits /\ [Next]_vars => IInv'
  BY RestartKeeps, ProcessRequestKeeps, CreateMessageKeeps, CreateLeadKeeps,
     CreateContinuationKeeps, CreateLocalKeeps, PeerRequestKeeps,
     PeerRequestLostKeeps, PeerLeadKeeps, PeerContinuationKeeps, IngestKeeps,
     FinishKeeps, StutterKeeps
     DEF Next
<1>2. Init => SequenceFits
  BY DEF Init, SequenceFits
<1> QED
  BY <1>1, <1>2, InitHolds, SequenceFitsKeeps, PTL DEF Spec

\* The invariant contains the types.
LEMMA IInvTyped == IInv => TypeOK
<1> SUFFICES ASSUME IInv PROVE TypeOK
  OBVIOUS
<1>1. Shaped /\ MidCharacter
  BY DEF IInv
<1>2. /\ scan.text \in Seq(Byte) /\ Len(scan.text) \in Nat /\ scan.index \in Nat
      /\ DOMAIN scan.text = 1 .. Len(scan.text)
      /\ scan.continuation_count \in 0 .. 3
  BY <1>1, LenProperties DEF Shaped
<1>3. \A i \in DOMAIN scan.text : scan.text[i] \in Byte
  BY <1>2, ElementOfSeq
<1>4. /\ scan.offset \in 0 .. scan.continuation_count
      /\ scan.code_point \in PartialPoint
  <2>1. CASE Reading
    <3>1. /\ scan.continuation_count = ContinuationCount(scan.text[scan.index + 1])
          /\ scan.index + scan.continuation_count < Len(scan.text)
          /\ scan.offset \in 1 .. scan.continuation_count
          /\ scan.code_point = Point(scan.text, scan.index, scan.offset - 1)
      BY <1>1, <2>1 DEF MidCharacter
    <3>2. /\ scan.continuation_count \in 1 .. 3
          /\ scan.offset - 1 \in 0 .. scan.continuation_count - 1
      BY <1>2, <3>1
    <3>3. Point(scan.text, scan.index, scan.offset - 1) \in PartialPoint
      BY <1>2, <3>1, <3>2, PointBound
    <3> QED
      BY <1>2, <3>1, <3>3
  <2>2. CASE ~Reading
    <3>1. scan.continuation_count = 0 /\ scan.offset = 0 /\ scan.code_point = 0
      BY <1>1, <2>2 DEF MidCharacter
    <3> QED
      BY <3>1 DEF PartialPoint
  <2> QED
    BY <2>1, <2>2
<1>5. scan.code_point \in Nat /\ scan.code_point <= \h1FFFFF
  <2>1. \A p \in PartialPoint : p \in Nat /\ p <= \h1FFFFF
    BY SMT DEF PartialPoint
  <2>2. scan.code_point \in PartialPoint
    BY <1>4
  <2> QED
    BY <2>1, <2>2, SMT
<1>6. request.body \in Seq(Character)
  BY <1>1, RequestBody DEF Shaped
<1>7. scan.index \in 0 .. Len(scan.text) /\ Len(scan.text) <= MaxMessageBytes
  BY <1>1, <1>2 DEF Shaped
<1>8. /\ phase \in Phases /\ identity \in Identities
      /\ reply \in {0, 200, 400, 404, 405, 413, 415, 500}
      /\ peerReply \in {0, 200, 400, 413, 500}
  BY <1>1 DEF Shaped
<1> HIDE DEF Byte
<1> QED
  BY <1>2, <1>3, <1>4, <1>5, <1>6, <1>7, <1>8, SMT DEF TypeOK
-----------------------------------------------------------------------------
(* The theorems                                                            *)

\* The types: no text past max_message_bytes gets to is_valid_utf8 at either
\* end, and its locals stay in their ranges.
THEOREM RequestsTypeCorrect == Spec => []TypeOK
BY IInvHolds, IInvTyped, PTL

\* is_valid_utf8 reads no byte past the end of its argument, whatever the
\* argument.
THEOREM ReadsInsideHolds == Spec => []ReadsInside
<1>1. IInv => ReadsInside
  <2> SUFFICES ASSUME IInv, Reading PROVE scan.index + scan.offset < Len(scan.text)
    BY DEF ReadsInside, Reading
  <2>1. /\ scan.index \in Nat /\ Len(scan.text) \in Nat /\ scan.continuation_count \in 0 .. 3
    BY LenProperties DEF IInv, Shaped
  <2>2. /\ scan.index + scan.continuation_count < Len(scan.text)
        /\ scan.offset \in 1 .. scan.continuation_count
    BY DEF IInv, MidCharacter
  <2> QED
    BY <2>1, <2>2
<1> QED
  BY <1>1, IInvHolds, PTL

\* is_valid_utf8 accepts exactly the well-formed texts of Unicode: what
\* create_message and parse_message go on with is well formed, and a text that
\* create_message refuses for its bytes is not.
THEOREM VerdictIsUnicodeHolds == Spec => []VerdictIsUnicode
<1>1. IInv => VerdictIsUnicode
  BY DEF IInv
<1> QED
  BY <1>1, IInvHolds, PTL

\* No peer answers 400 to a message that create_local has stored, be it sent by
\* its author or relayed.
THEOREM PeerNeverRefusesHolds == Spec => []PeerNeverRefuses
<1>1. IInv => PeerNeverRefuses
  BY DEF IInv
<1> QED
  BY <1>1, IInvHolds, PTL

\* message_to_json and parse_message carry a body unchanged, byte for byte.
THEOREM PeerStoresTheBodyHolds == Spec => []PeerStoresTheBody
<1>1. IInv => PeerStoresTheBody
  BY DEF IInv
<1> QED
  BY <1>1, IInvHolds, PTL
=============================================================================
