----------------------------- MODULE WireProofs -----------------------------
(***************************************************************************)
(* Theorems of Wire, for every width of a byte and every byte string.      *)
(*                                                                         *)
(* The heart is VarintCanonical: a length prefix that get_varint accepts   *)
(* is the one put_varint writes.  The big-endian operators are inverse to  *)
(* one another by the uniqueness of quotient and remainder (Quotient), at  *)
(* each of the three widths in turn.                                       *)
(*                                                                         *)
(* The second half goes the other way, from what was written to what is    *)
(* read (RoundTrip). The encoding of a message is a concatenation, of      *)
(* which the decoder's cursor is always at a seam (Progress): behind it    *)
(* stands the encoding of the next field, as far as the input reaches, and *)
(* a decoder that meets one takes it whole or runs out of input (Decides). *)
(***************************************************************************)
EXTENDS Wire, NaturalLemmas, SequenceTheorems, TLAPS

----------------------------------------------------------------------------
(* Arithmetic.                                                             *)

\* A product grows with its factor, by at least the other factor.
LEMMA Grows ==
    ASSUME NEW b \in Nat, NEW c \in Int, NEW d \in Int, c < d
    PROVE  b * c + b <= b * d
<1>1. PICK e \in Nat : d = c + 1 + e
  <2>1. d - c - 1 \in Nat /\ d = c + 1 + (d - c - 1)
    OBVIOUS
  <2> QED  BY <2>1
<1>2. b * d = b * c + b + b * e
  BY <1>1
<1>3. b * e \in Nat
  BY <1>1
<1> QED  BY <1>2, <1>3

\* A number of two digits is below b * d if its first digit is below d.
LEMMA Below ==
    ASSUME NEW b \in Nat, NEW q \in Nat, NEW d \in Nat, q < d,
           NEW r \in Nat, r < b
    PROVE  q * b + r \in Nat /\ q * b + r < d * b
<1>1. b * q + b <= b * d
  BY Grows
<1>2. q * b = b * q /\ d * b = b * d /\ q * b \in Nat /\ d * b \in Nat
  OBVIOUS
<1> QED  BY <1>1, <1>2

\* Quotient and remainder are unique.
LEMMA Quotient ==
    ASSUME NEW b \in Nat \ {0}, NEW q \in Nat, NEW r \in Nat, r < b
    PROVE  (q * b + r) \div b = q /\ (q * b + r) % b = r
<1> DEFINE x == q * b + r
           d == x \div b
           m == x % b
<1>1. x \in Nat /\ q * b = b * q
  OBVIOUS
<1>2. d \in Int /\ m \in Int /\ 0 <= m /\ m < b /\ x = b * d + m
  BY <1>1
<1>3. ~(d < q)
  <2>1. SUFFICES ASSUME d < q PROVE FALSE
    OBVIOUS
  <2>2. b * d + b <= b * q
    BY <1>2, <2>1, Grows
  <2>3. b * d \in Int /\ b * q \in Int
    BY <1>2
  <2> QED  BY <1>1, <1>2, <2>2, <2>3
<1>4. ~(q < d)
  <2>1. SUFFICES ASSUME q < d PROVE FALSE
    OBVIOUS
  <2>2. b * q + b <= b * d
    BY <1>2, <2>1, Grows
  <2>3. b * d \in Int /\ b * q \in Int
    BY <1>2
  <2> QED  BY <1>1, <1>2, <2>2, <2>3
<1>5. d = q
  BY <1>2, <1>3, <1>4
<1>6. m = r
  BY <1>1, <1>2, <1>5
<1> QED  BY <1>5, <1>6

LEMMA Widths ==
    /\ Octet \in Nat \ {0}
    /\ Word2 \in Nat \ {0}
    /\ Word4 \in Nat \ {0}
<1>1. Octet \in Nat \ {0}
  BY WireAssumption DEF Octet
<1>2. Word2 \in Nat \ {0}
  BY <1>1 DEF Word2
<1>3. Word4 \in Nat \ {0}
  BY <1>2 DEF Word4
<1> QED  BY <1>1, <1>2, <1>3

\* Adjacent parts of a byte string put together.
LEMMA Joined ==
    ASSUME NEW s \in Seq(Byte), NEW p \in Nat, NEW q \in Nat, NEW r \in Nat,
           p <= q, q <= r, r <= Len(s)
    PROVE  SubSeq(s, p + 1, q) \o SubSeq(s, q + 1, r) = SubSeq(s, p + 1, r)
<1>1. p + 1 \in 1 .. Len(s) + 1 /\ q \in (p + 1) - 1 .. Len(s) /\ r \in q .. Len(s)
  OBVIOUS
<1> QED  BY <1>1, ConcatAdjacentSubSeq

LEMMA Single ==
    ASSUME NEW s \in Seq(Byte), NEW p \in Nat, p + 1 <= Len(s)
    PROVE  SubSeq(s, p + 1, p + 1) = <<s[p + 1]>>
<1> DEFINE f == s[p + 1]
           u == SubSeq(s, p + 1, p + 1)
           w == <<f>>
<1>1. f \in Byte /\ \A i \in p + 1 .. p + 1 : i = p + 1
  BY ElementOfSeq
<1>2. u \in Seq(Byte) /\ Len(u) = 1 /\ u[1] = f
  BY <1>1, SubSeqProperties
<1>3. w \in Seq(Byte) /\ Len(w) = 1 /\ w[1] = f
  BY <1>1
<1>4. Len(u) = Len(w) /\ \A i \in 1 .. Len(u) : u[i] = w[i]
  BY <1>2, <1>3
<1> HIDE DEF u, w
<1>5. u = w
  BY <1>2, <1>3, <1>4, SeqEqual
<1> QED  BY <1>5 DEF u, w

----------------------------------------------------------------------------
(* Big-endian integers.                                                    *)

\* Two bytes: what they say, and that they are its digits.
LEMMA Inverse2 ==
    ASSUME NEW s \in Seq(Byte), NEW p \in Nat, p + 2 <= Len(s)
    PROVE  /\ From2(s, p) \in Nat
           /\ From2(s, p) < Word2
           /\ Be2(From2(s, p)) = SubSeq(s, p + 1, p + 2)
           /\ \A d \in Nat : s[p + 1] < d => From2(s, p) < d * Octet
<1>1. s[p + 1] \in Nat /\ s[p + 2] \in Nat /\ s[p + 1] < Octet /\ s[p + 2] < Octet
  <2>1. s[p + 1] \in Byte /\ s[p + 2] \in Byte
    BY ElementOfSeq
  <2> QED  BY <2>1, Widths DEF Byte
<1>2. \A d \in Nat : s[p + 1] < d => From2(s, p) \in Nat /\ From2(s, p) < d * Octet
  BY <1>1, Widths, Below DEF From2
<1>3. From2(s, p) \in Nat /\ From2(s, p) < Word2
  BY <1>1, <1>2, Widths DEF Word2
<1>4. From2(s, p) \div Octet = s[p + 1] /\ From2(s, p) % Octet = s[p + 2]
  BY <1>1, Widths, Quotient DEF From2
<1> QED  BY <1>2, <1>3, <1>4 DEF Be2

LEMMA Inverse4 ==
    ASSUME NEW s \in Seq(Byte), NEW p \in Nat, p + 4 <= Len(s)
    PROVE  /\ From4(s, p) \in Nat
           /\ From4(s, p) < Word4
           /\ Be4(From4(s, p)) = SubSeq(s, p + 1, p + 4)
           /\ \A d \in Nat : From2(s, p) < d => From4(s, p) < d * Word2
<1>1. /\ From2(s, p) \in Nat /\ From2(s, p) < Word2
      /\ Be2(From2(s, p)) = SubSeq(s, p + 1, p + 2)
  BY Inverse2
<1>2. /\ From2(s, p + 2) \in Nat /\ From2(s, p + 2) < Word2
      /\ Be2(From2(s, p + 2)) = SubSeq(s, p + 3, p + 4)
  <2>1. p + 2 \in Nat /\ (p + 2) + 2 <= Len(s) /\ (p + 2) + 1 = p + 3 /\ (p + 2) + 2 = p + 4
    OBVIOUS
  <2> QED  BY <2>1, Inverse2
<1>3. \A d \in Nat : From2(s, p) < d => From4(s, p) \in Nat /\ From4(s, p) < d * Word2
  BY <1>1, <1>2, Widths, Below DEF From4
<1>4. From4(s, p) \in Nat /\ From4(s, p) < Word4
  BY <1>1, <1>3, Widths DEF Word4
<1>5. From4(s, p) \div Word2 = From2(s, p) /\ From4(s, p) % Word2 = From2(s, p + 2)
  BY <1>1, <1>2, Widths, Quotient DEF From4
<1>6. Be4(From4(s, p)) = SubSeq(s, p + 1, p + 2) \o SubSeq(s, p + 3, p + 4)
  BY <1>1, <1>2, <1>5 DEF Be4
<1>7. SubSeq(s, p + 1, p + 2) \o SubSeq(s, p + 3, p + 4) = SubSeq(s, p + 1, p + 4)
  BY Joined
<1> QED  BY <1>3, <1>4, <1>6, <1>7

LEMMA Inverse8 ==
    ASSUME NEW s \in Seq(Byte), NEW p \in Nat, p + 8 <= Len(s)
    PROVE  /\ From8(s, p) \in Nat
           /\ Be8(From8(s, p)) = SubSeq(s, p + 1, p + 8)
           /\ \A d \in Nat : From4(s, p) < d => From8(s, p) < d * Word4
<1>1. /\ From4(s, p) \in Nat /\ From4(s, p) < Word4
      /\ Be4(From4(s, p)) = SubSeq(s, p + 1, p + 4)
  BY Inverse4
<1>2. /\ From4(s, p + 4) \in Nat /\ From4(s, p + 4) < Word4
      /\ Be4(From4(s, p + 4)) = SubSeq(s, p + 5, p + 8)
  <2>1. /\ p + 4 \in Nat /\ (p + 4) + 4 <= Len(s)
        /\ (p + 4) + 1 = p + 5 /\ (p + 4) + 2 = p + 6
        /\ (p + 4) + 3 = p + 7 /\ (p + 4) + 4 = p + 8
    OBVIOUS
  <2> QED  BY <2>1, Inverse4
<1>3. \A d \in Nat : From4(s, p) < d => From8(s, p) \in Nat /\ From8(s, p) < d * Word4
  BY <1>1, <1>2, Widths, Below DEF From8
<1>4. From8(s, p) \in Nat
  BY <1>1, <1>3, Widths
<1>5. From8(s, p) \div Word4 = From4(s, p) /\ From8(s, p) % Word4 = From4(s, p + 4)
  BY <1>1, <1>2, Widths, Quotient DEF From8
<1>6. Be8(From8(s, p)) = SubSeq(s, p + 1, p + 4) \o SubSeq(s, p + 5, p + 8)
  BY <1>1, <1>2, <1>5 DEF Be8
<1>7. SubSeq(s, p + 1, p + 4) \o SubSeq(s, p + 5, p + 8) = SubSeq(s, p + 1, p + 8)
  BY Joined
<1> QED  BY <1>3, <1>4, <1>6, <1>7

----------------------------------------------------------------------------
(* Length prefixes.                                                        *)

LEMMA Bounds ==
    /\ Bound1 \in Nat /\ Bound2 \in Nat /\ Bound4 \in Nat /\ Bound8 \in Nat
    /\ Bound1 <= Bound2 /\ Bound2 <= Bound4 /\ Bound4 <= Bound8
<1>1. \A b, w \in Nat : w # 0 => b * w \in Nat /\ b <= b * w
  <2>1. SUFFICES ASSUME NEW b \in Nat, NEW w \in Nat, w # 0
                 PROVE  b * w \in Nat /\ b <= b * w
    OBVIOUS
  <2>2. CASE b = 0
    BY <2>2
  <2>3. CASE b # 0
    <3>1. b * 0 + b <= b * w
      BY <2>1, Grows
    <3> QED  BY <3>1
  <2> QED  BY <2>2, <2>3
<1>2. Bound1 \in Nat
  BY WireAssumption DEF Bound1
<1>3. Bound2 \in Nat /\ Bound1 <= Bound2
  BY <1>1, <1>2, Widths DEF Bound1, Bound2
<1>4. Bound4 \in Nat /\ Bound2 <= Bound4
  BY <1>1, <1>3, Widths DEF Bound4
<1>5. Bound8 \in Nat /\ Bound4 <= Bound8
  BY <1>1, <1>4, Widths DEF Bound8
<1> QED  BY <1>2, <1>3, <1>4, <1>5

\* A length prefix that get_varint accepts is the one put_varint writes for
\* its value (wire.rs:121): there is one spelling of every length.
THEOREM VarintCanonical ==
    ASSUME NEW s \in Seq(Byte), NEW p \in Nat, VarintError(s, p) = "none"
    PROVE  /\ VarintValue(s, p) \in Nat
           /\ VarintSize(s[p + 1]) \in Nat
           /\ p + VarintSize(s[p + 1]) <= Len(s)
           /\ PutVarint(VarintValue(s, p)) = SubSeq(s, p + 1, p + VarintSize(s[p + 1]))
<1> DEFINE f == s[p + 1]
           n == VarintSize(f)
           v == VarintValue(s, p)
<1>1. /\ p + 1 <= Len(s) /\ p + n <= Len(s) /\ ~(v < Least(n))
  BY DEF VarintError, Holds
<1>2. f \in Nat /\ f < Octet /\ Octet = 4 * Quarter /\ Quarter \in Nat
  <2>1. f \in Byte
    BY <1>1, ElementOfSeq
  <2> QED  BY <2>1, WireAssumption, Widths DEF Octet, Byte
<1>3. CASE f < Quarter
  <2>1. n = 1 /\ v = f
    BY <1>3 DEF VarintSize, VarintValue
  <2>2. PutVarint(v) = <<f>>
    BY <1>3, <2>1 DEF PutVarint, Bound1
  <2>3. SubSeq(s, p + 1, p + 1) = <<f>>
    BY <1>1, Single
  <2> QED  BY <1>1, <1>2, <2>1, <2>2, <2>3
<1>4. CASE ~(f < Quarter) /\ f < 2 * Quarter
  <2>1. n = 2 /\ v = From2(s, p) - Bound2 /\ Least(n) = Bound1
    BY <1>4 DEF VarintSize, VarintValue, Least
  <2>2. /\ From2(s, p) \in Nat
        /\ Be2(From2(s, p)) = SubSeq(s, p + 1, p + 2)
        /\ From2(s, p) < (2 * Quarter) * Octet
    BY <1>1, <1>2, <1>4, <2>1, Inverse2
  <2>3. (2 * Quarter) * Octet = 2 * Bound2
    BY <1>2, Widths DEF Bound2
  <2>4. v \in Nat /\ ~(v < Bound1) /\ v < Bound2 /\ v + Bound2 = From2(s, p)
    BY <1>1, <2>1, <2>2, <2>3, Bounds
  <2>5. PutVarint(v) = Be2(From2(s, p))
    BY <2>4 DEF PutVarint
  <2> QED  BY <1>1, <2>1, <2>2, <2>4, <2>5
<1>5. CASE ~(f < 2 * Quarter) /\ f < 3 * Quarter
  <2>1. n = 4 /\ v = From4(s, p) - 2 * Bound4 /\ Least(n) = Bound2
    BY <1>2, <1>5 DEF VarintSize, VarintValue, Least
  <2>2. From2(s, p) \in Nat /\ From2(s, p) < (3 * Quarter) * Octet
    BY <1>1, <1>2, <1>5, <2>1, Inverse2
  <2>3. (3 * Quarter) * Octet = 3 * Bound2
    BY <1>2, Widths DEF Bound2
  <2>4. /\ From4(s, p) \in Nat
        /\ Be4(From4(s, p)) = SubSeq(s, p + 1, p + 4)
        /\ From4(s, p) < (3 * Bound2) * Word2
    BY <1>1, <2>1, <2>2, <2>3, Bounds, Inverse4
  <2>5. (3 * Bound2) * Word2 = 3 * Bound4
    BY Bounds, Widths DEF Bound4
  <2>6. /\ v \in Nat /\ ~(v < Bound1) /\ ~(v < Bound2) /\ v < Bound4
        /\ v + 2 * Bound4 = From4(s, p)
    BY <1>1, <2>1, <2>4, <2>5, Bounds
  <2>7. PutVarint(v) = Be4(From4(s, p))
    BY <2>6 DEF PutVarint
  <2> QED  BY <1>1, <2>1, <2>4, <2>6, <2>7
<1>6. CASE ~(f < 3 * Quarter)
  <2>1. n = 8 /\ v = From8(s, p) - 3 * Bound8 /\ Least(n) = Bound4
    BY <1>2, <1>6 DEF VarintSize, VarintValue, Least
  <2>2. From8(s, p) \in Nat /\ Be8(From8(s, p)) = SubSeq(s, p + 1, p + 8)
    BY <1>1, <2>1, Inverse8
  <2>3. /\ v \in Nat /\ ~(v < Bound1) /\ ~(v < Bound2) /\ ~(v < Bound4)
        /\ v + 3 * Bound8 = From8(s, p)
    BY <1>1, <2>1, <2>2, Bounds
  <2>4. PutVarint(v) = Be8(From8(s, p))
    BY <2>3 DEF PutVarint
  <2> QED  BY <1>1, <2>1, <2>2, <2>3, <2>4
<1> QED  BY <1>2, <1>3, <1>4, <1>5, <1>6

\* The same of a length prefix with its body.
LEMMA OpaqueCanonical ==
    ASSUME NEW s \in Seq(Byte), NEW p \in Nat, OpaqueError(s, p) = "none"
    PROVE  /\ OpaqueSize(s, p) \in Nat
           /\ p + OpaqueSize(s, p) <= Len(s)
           /\ Opaque(s, p) \in Seq(Byte)
           /\ PutOpaque(Opaque(s, p)) = SubSeq(s, p + 1, p + OpaqueSize(s, p))
<1> DEFINE n == VarintSize(s[p + 1])
           v == VarintValue(s, p)
<1>1. VarintError(s, p) = "none" /\ p + n + v <= Len(s)
  BY DEF OpaqueError, Holds
<1>2. v \in Nat /\ n \in Nat /\ PutVarint(v) = SubSeq(s, p + 1, p + n)
  BY <1>1, VarintCanonical
<1> HIDE DEF n, v
<1>3. OpaqueSize(s, p) = n + v /\ Opaque(s, p) = SubSeq(s, p + n + 1, p + (n + v))
  BY DEF OpaqueSize, Opaque, n, v
<1>4. SubSeq(s, p + n + 1, p + (n + v)) \in Seq(Byte)
      /\ Len(SubSeq(s, p + n + 1, p + (n + v))) = v
  <2>1. \A i \in p + n + 1 .. p + (n + v) : s[i] \in Byte
    BY <1>1, <1>2, ElementOfSeq
  <2> QED  BY <1>1, <1>2, <2>1, SubSeqProperties
<1>5. SubSeq(s, p + 1, p + n) \o SubSeq(s, p + n + 1, p + (n + v))
        = SubSeq(s, p + 1, p + (n + v))
  BY <1>1, <1>2, Joined
<1>6. PutOpaque(Opaque(s, p)) = SubSeq(s, p + 1, p + n) \o SubSeq(s, p + n + 1, p + (n + v))
  BY <1>2, <1>3, <1>4 DEF PutOpaque
<1>7. n + v \in Nat /\ p + (n + v) <= Len(s)
  BY <1>1, <1>2
<1> QED  BY <1>3, <1>4, <1>5, <1>6, <1>7

\* The body of an IhatChallenge, cut into keys and put together again.
LEMMA KeysCanonical ==
    ASSUME NEW b \in Seq(Byte), Len(b) % KeySize = 0
    PROVE  Body(Keys(b)) = b
<1> DEFINE K == KeySize
           q == Len(b) \div K
           c == Body(Keys(b))
<1>1. K \in Nat \ {0} /\ Len(b) \in Nat
  BY WireAssumption
<1>2. q \in Nat /\ q * K = Len(b)
  BY <1>1
<1>3. Keys(b) = [i \in 1 .. q |-> SubSeq(b, (i - 1) * K + 1, i * K)]
  BY DEF Keys
<1>4. Len(Keys(b)) = q
  BY <1>2, <1>3
<1>5. c = [i \in 1 .. Len(b) |-> Keys(b)[((i - 1) \div K) + 1][((i - 1) % K) + 1]]
  BY <1>2, <1>4 DEF Body
<1>6. ASSUME NEW i \in 1 .. Len(b)
      PROVE  Keys(b)[((i - 1) \div K) + 1][((i - 1) % K) + 1] = b[i]
  <2> DEFINE d == (i - 1) \div K
             m == (i - 1) % K
  <2>1. /\ d \in Nat /\ m \in Nat /\ m < K /\ i - 1 = K * d + m
        /\ K * d = d * K /\ (d + 1) * K = d * K + K
    BY <1>1
  <2>2. d < q
    <3>1. SUFFICES ASSUME q <= d PROVE FALSE
      BY <1>2, <2>1
    <3>2. K * q <= K * d
      <4>1. CASE q = d
        BY <1>1, <1>2, <4>1
      <4>2. CASE q < d
        <5>1. K * q + K <= K * d
          BY <1>1, <1>2, <2>1, <4>2, Grows
        <5> QED  BY <1>1, <1>2, <2>1, <5>1
      <4> QED  BY <1>2, <2>1, <3>1, <4>1, <4>2
    <3>3. K * q = q * K
      BY <1>1, <1>2
    <3> QED  BY <1>1, <1>2, <2>1, <3>2, <3>3
  <2>3. d * K \in Nat /\ d * K + K <= Len(b)
    <3>1. K * d + K <= K * q
      BY <1>1, <1>2, <2>1, <2>2, Grows
    <3> QED  BY <1>1, <1>2, <2>1, <3>1
  <2> HIDE DEF d, m, q
  <2>4. Keys(b)[d + 1] = SubSeq(b, d * K + 1, d * K + K)
    <3>1. d \in Nat /\ q \in Nat
      BY <1>2, <2>1
    <3>2. d + 1 \in 1 .. q /\ (d + 1) - 1 = d
      BY <2>2, <3>1
    <3>3. Keys(b)[d + 1] = SubSeq(b, ((d + 1) - 1) * K + 1, (d + 1) * K)
      BY <1>3, <3>2
    <3> QED  BY <2>1, <3>2, <3>3
  <2>5. \A j \in d * K + 1 .. d * K + K : b[j] \in Byte
    BY <1>1, <2>3, ElementOfSeq
  <2>6. SubSeq(b, d * K + 1, d * K + K)[m + 1] = b[d * K + m + 1]
    <3>1. m + 1 \in 1 .. (d * K + K) - (d * K + 1) + 1
      BY <1>1, <2>1, <2>3
    <3>2. (d * K + 1) + (m + 1) - 1 = d * K + m + 1
      BY <2>1, <2>3
    <3> QED  BY <1>1, <2>3, <2>5, <3>1, <3>2, SubSeqProperties
  <2>7. d * K + m + 1 = i
    BY <2>1, <2>3
  <2> QED  BY <2>4, <2>6, <2>7 DEF d, m
<1>7. b = [i \in 1 .. Len(b) |-> b[i]]
  BY LenProperties
<1> QED  BY <1>5, <1>6, <1>7

----------------------------------------------------------------------------
(* The decoder.                                                            *)

\* The input is a byte string of which the decoder has consumed a part, and
\* the part is what encode writes for the fields decoded.
Inv ==
    /\ TypeOK
    /\ ReEncodes
    /\ status = "ok" => pos = Len(input)

\* One field more, if its encoding is what stands at the cursor.
LEMMA AcceptKeeps ==
    ASSUME Inv, NEW v, NEW n \in Nat, NEW more, Accept(v, n, more),
           status = "decoding", pos + n <= Len(input),
           Put(Head(todo), v) = SubSeq(input, pos + 1, pos + n)
    PROVE  Inv'
<1>1. input' = input /\ status' = status /\ pos' = pos + n
  BY DEF Accept
<1>2. again' = SubSeq(input, 1, pos) \o SubSeq(input, pos + 1, pos + n)
  BY DEF Accept, Inv, ReEncodes
<1>3. SubSeq(input, 1, pos) \o SubSeq(input, pos + 1, pos + n) = SubSeq(input, 1, pos + n)
  <2>1. /\ input \in Seq(Byte) /\ 1 \in 1 .. Len(input) + 1
        /\ pos \in 1 - 1 .. Len(input) /\ pos + n \in pos .. Len(input)
    BY DEF Inv, TypeOK
  <2> QED  BY <2>1, ConcatAdjacentSubSeq
<1>4. again' = SubSeq(input', 1, pos')
  BY <1>1, <1>2, <1>3
<1>5. pos' \in 0 .. Len(input') /\ input' \in Seq(Byte)
  BY <1>1 DEF Inv, TypeOK
<1> QED  BY <1>1, <1>4, <1>5 DEF Inv, TypeOK, ReEncodes

LEMMA StopKeeps ==
    ASSUME Inv, NEW e, Stop(e),
           e \in {"TrailingBytes", "UnexpectedEof", "NonMinimalVarint",
                  "OutOfRange", "Malformed", "MalformedOptional"}
    PROVE  Inv'
BY DEF Inv, TypeOK, ReEncodes, Stop

LEMMA InitInv == Init => Inv
<1> SUFFICES ASSUME Init PROVE Inv
  OBVIOUS
<1>1. input \in Seq(Byte)
  BY WireAssumption DEF Init
<1>2. SubSeq(input, 1, 0) = <<>>
  BY SubSeqEmpty
<1> QED  BY <1>1, <1>2 DEF Init, Inv, TypeOK, ReEncodes

LEMMA NextInv == Inv /\ [Next]_vars => Inv'
<1> SUFFICES ASSUME Inv, [Next]_vars PROVE Inv'
  OBVIOUS
<1>t. input \in Seq(Byte) /\ pos \in Nat /\ Len(input) \in Nat
  BY DEF Inv, TypeOK
<1>e. \A i \in 1 .. Len(input) : input[i] \in Byte
  BY <1>t, ElementOfSeq
<1>o. OpaqueError(input, pos) \in {"none", "UnexpectedEof", "NonMinimalVarint", "OutOfRange"}
  BY DEF OpaqueError, VarintError
<1>1. CASE GetU8
  <2>1. CASE Holds(input, pos, 1)
    <3>1. status = "decoding" /\ Accept(input[pos + 1], 1, <<>>) /\ Head(todo) = "u8" /\ pos + 1 <= Len(input)
      BY <1>1, <2>1 DEF GetU8, Awaits, Holds
    <3>2. Put("u8", input[pos + 1]) = SubSeq(input, pos + 1, pos + 1)
      BY <1>t, <3>1, Single DEF Put
    <3> QED  BY <3>1, <3>2, AcceptKeeps
  <2> QED  BY <1>1, <2>1, StopKeeps DEF GetU8
<1>2. CASE GetU16
  <2>1. CASE Holds(input, pos, 2)
    <3>1. status = "decoding" /\ Accept(From2(input, pos), 2, <<>>) /\ Head(todo) = "u16" /\ pos + 2 <= Len(input)
      BY <1>2, <2>1 DEF GetU16, Awaits, Holds
    <3>2. Put("u16", From2(input, pos)) = SubSeq(input, pos + 1, pos + 2)
      BY <1>t, <3>1, Inverse2 DEF Put
    <3> QED  BY <3>1, <3>2, AcceptKeeps
  <2> QED  BY <1>2, <2>1, StopKeeps DEF GetU16
<1>3. CASE GetU64
  <2>1. CASE Holds(input, pos, 8)
    <3>1. status = "decoding" /\ Accept(From8(input, pos), 8, <<>>) /\ Head(todo) = "u64" /\ pos + 8 <= Len(input)
      BY <1>3, <2>1 DEF GetU64, Awaits, Holds
    <3>2. Put("u64", From8(input, pos)) = SubSeq(input, pos + 1, pos + 8)
      BY <1>t, <3>1, Inverse8 DEF Put
    <3> QED  BY <3>1, <3>2, AcceptKeeps
  <2> QED  BY <1>3, <2>1, StopKeeps DEF GetU64
<1>4. CASE GetDigest
  <2>1. CASE Holds(input, pos, DigestSize)
    <3>1. /\ status = "decoding" /\ Accept(SubSeq(input, pos + 1, pos + DigestSize), DigestSize, <<>>)
          /\ Head(todo) = "digest" /\ pos + DigestSize <= Len(input)
      BY <1>4, <2>1 DEF GetDigest, Awaits, Holds
    <3>2. \A w : Put("digest", w) = w
      BY DEF Put
    <3> QED  BY <3>1, <3>2, AcceptKeeps, WireAssumption
  <2> QED  BY <1>4, <2>1, StopKeeps DEF GetDigest
<1>5. CASE GetOpaque
  <2>1. CASE OpaqueError(input, pos) = "none"
    <3>1. status = "decoding" /\ Accept(Opaque(input, pos), OpaqueSize(input, pos), <<>>) /\ Head(todo) = "opaque"
      BY <1>5, <2>1 DEF GetOpaque, Awaits
    <3>2. /\ OpaqueSize(input, pos) \in Nat
          /\ pos + OpaqueSize(input, pos) <= Len(input)
          /\ PutOpaque(Opaque(input, pos)) = SubSeq(input, pos + 1, pos + OpaqueSize(input, pos))
      BY <1>t, <2>1, OpaqueCanonical
    <3>3. \A w : Put("opaque", w) = PutOpaque(w)
      BY DEF Put
    <3> QED  BY <3>1, <3>2, <3>3, AcceptKeeps
  <2> QED  BY <1>5, <1>o, <2>1, StopKeeps DEF GetOpaque
<1>6. CASE GetKeys
  <2> DEFINE b == Opaque(input, pos)
  <2>1. CASE OpaqueError(input, pos) = "none" /\ Len(b) % KeySize = 0
    <3>1. status = "decoding" /\ Accept(Keys(b), OpaqueSize(input, pos), <<>>) /\ Head(todo) = "keys"
      BY <1>6, <2>1 DEF GetKeys, Awaits
    <3>2. /\ OpaqueSize(input, pos) \in Nat
          /\ pos + OpaqueSize(input, pos) <= Len(input)
          /\ b \in Seq(Byte)
          /\ PutOpaque(b) = SubSeq(input, pos + 1, pos + OpaqueSize(input, pos))
      BY <1>t, <2>1, OpaqueCanonical
    <3>3. Body(Keys(b)) = b
      BY <2>1, <3>2, KeysCanonical
    <3>4. \A w : Put("keys", w) = PutOpaque(Body(w))
      BY DEF Put
    <3> QED  BY <3>1, <3>2, <3>3, <3>4, AcceptKeeps
  <2> QED  BY <1>6, <1>o, <2>1, StopKeeps DEF GetKeys
<1>7. ASSUME NEW union \in {"request", "response"}, GetStep(union) PROVE Inv'
  <2>1. CASE Holds(input, pos, 1) /\ input[pos + 1] \in {1, 2}
    <3>1. /\ status = "decoding" /\ Accept(input[pos + 1], 1, StepOf(union, input[pos + 1]))
          /\ Head(todo) = union /\ pos + 1 <= Len(input)
      BY <1>7, <2>1 DEF GetStep, Awaits, Holds
    <3>2. Put(union, input[pos + 1]) = SubSeq(input, pos + 1, pos + 1)
      BY <1>t, <3>1, Single DEF Put
    <3> QED  BY <3>1, <3>2, AcceptKeeps
  <2> QED  BY <1>7, <2>1, StopKeeps DEF GetStep
<1>8. CASE GetOptional
  <2>1. CASE Holds(input, pos, 1) /\ input[pos + 1] \in {0, 1}
    <3>1. /\ status = "decoding" /\ Accept(input[pos + 1], 1, Present(input[pos + 1]))
          /\ Head(todo) = "optional" /\ pos + 1 <= Len(input)
      BY <1>8, <2>1 DEF GetOptional, Awaits, Holds
    <3>2. Put("optional", input[pos + 1]) = SubSeq(input, pos + 1, pos + 1)
      BY <1>t, <3>1, Single DEF Put
    <3> QED  BY <3>1, <3>2, AcceptKeeps
  <2> QED  BY <1>8, <2>1, StopKeeps DEF GetOptional
<1>9. CASE Finish
  <2>1. CASE pos = Len(input)
    BY <1>9, <2>1 DEF Finish, Stop, Inv, TypeOK, ReEncodes
  <2> QED  BY <1>9, <2>1, StopKeeps DEF Finish
<1>10. CASE UNCHANGED vars
  BY <1>10 DEF vars, Inv, TypeOK, ReEncodes
<1> QED  BY <1>1, <1>2, <1>3, <1>4, <1>5, <1>6, <1>7, <1>8, <1>9, <1>10 DEF Next

\* The decoder's cursor never leaves the input and a decoding ends with one of
\* the results from_bytes has (wire.rs:55).
THEOREM TypeCorrect == Spec => []TypeOK
<1>1. Inv => TypeOK
  BY DEF Inv
<1> QED  BY <1>1, InitInv, NextInv, PTL DEF Spec

\* At every point of every decoding, of every message and every byte string,
\* encoding what was decoded gives back the bytes consumed (wire.rs:52).
THEOREM Faithful == Spec => []ReEncodes
<1>1. Inv => ReEncodes
  BY DEF Inv
<1> QED  BY <1>1, InitInv, NextInv, PTL DEF Spec

\* What from_bytes accepts is the encoding of what it returns: two byte strings
\* never decode to the same message.
THEOREM OneSpelling == Spec => []Canonical
<1>1. Inv => Canonical
  <2> SUFFICES ASSUME Inv, status = "ok" PROVE again = input
    BY DEF Canonical
  <2>1. again = SubSeq(input, 1, Len(input)) /\ input \in Seq(Byte)
    BY DEF Inv, ReEncodes, TypeOK
  <2> QED  BY <2>1, SubSeqFull
<1> QED  BY <1>1, InitInv, NextInv, PTL DEF Spec

----------------------------------------------------------------------------
(* Chunks of bytes, one behind the other.                                  *)

\* The chunks of a byte string put together one after the other: what there
\* is up to each of them.
Joins(g, m, s) == g[1] = s[1] /\ \A i \in 2 .. m : g[i] = g[i - 1] \o s[i]

LEMMA JoinsExist ==
    ASSUME NEW n \in Nat, NEW s \in [1 .. n -> Seq(Byte)], NEW m \in 1 .. n
    PROVE  \E g \in [1 .. m -> Seq(Byte)] : Joins(g, m, s)
<1> DEFINE JoinsUpTo(i) == \E g \in [1 .. i -> Seq(Byte)] : Joins(g, i, s)
           Bad == {i \in 1 .. n : ~JoinsUpTo(i)}
<1> HIDE DEF JoinsUpTo
<1>1. ASSUME Bad # {} PROVE FALSE
  <2>1. PICK i \in Bad : \A j \in Bad : i <= j
    <3>1. Bad \subseteq Nat
      OBVIOUS
    <3> HIDE DEF Bad
    <3> QED  BY <1>1, <3>1, LeastExists
  <2>i. i \in 1 .. n /\ i \in Nat /\ s[i] \in Seq(Byte) /\ ~JoinsUpTo(i)
    BY <2>1
  <2>2. CASE i = 1
    <3> DEFINE h == [j \in 1 .. 1 |-> s[1]]
    <3>1. h \in [1 .. 1 -> Seq(Byte)] /\ h[1] = s[1]
      BY <2>i, <2>2
    <3>2. Joins(h, 1, s)
      BY <3>1 DEF Joins
    <3> HIDE DEF h
    <3>3. JoinsUpTo(1)
      BY <3>1, <3>2 DEF JoinsUpTo
    <3> QED  BY <2>i, <2>2, <3>3
  <2>3. CASE i # 1
    <3>1. i - 1 \in 1 .. n /\ i - 1 \notin Bad
      BY <2>1, <2>i, <2>3
    <3>2. PICK g \in [1 .. i - 1 -> Seq(Byte)] : Joins(g, i - 1, s)
      BY <3>1 DEF JoinsUpTo
    <3> DEFINE last == g[i - 1] \o s[i]
               h == [j \in 1 .. i |-> IF j = i THEN last ELSE g[j]]
    <3>3. i - 1 \in 1 .. i - 1 /\ g[i - 1] \in Seq(Byte)
      BY <3>1, <3>2
    <3>4. last \in Seq(Byte)
      BY <2>i, <3>3, ConcatProperties
    <3>5. \A j \in 1 .. i : j # i => j \in 1 .. i - 1
      BY <2>i
    <3> HIDE DEF last
    <3>6. h \in [1 .. i -> Seq(Byte)]
      BY <3>4, <3>5
    <3>7. h[1] = s[1] /\ h[i] = last /\ \A j \in 1 .. i - 1 : h[j] = g[j]
      BY <2>i, <2>3, <3>1, <3>2, <3>5 DEF Joins
    <3> HIDE DEF h
    <3>8. ASSUME NEW j \in 2 .. i PROVE h[j] = h[j - 1] \o s[j]
      <4>1. CASE j = i
        BY <3>3, <3>7, <4>1 DEF last
      <4>2. CASE j # i
        <5>1. j \in 2 .. i - 1 /\ j \in 1 .. i - 1 /\ j - 1 \in 1 .. i - 1
          BY <2>i, <4>2
        <5>2. g[j] = g[j - 1] \o s[j]
          BY <3>2, <5>1 DEF Joins
        <5> QED  BY <3>7, <5>1, <5>2
      <4> QED  BY <4>1, <4>2
    <3>9. Joins(h, i, s)
      BY <3>7, <3>8 DEF Joins
    <3> QED  BY <2>i, <3>6, <3>9 DEF JoinsUpTo
  <2> QED  BY <2>2, <2>3
<1>2. JoinsUpTo(m)
  BY <1>1
<1> QED  BY <1>2 DEF JoinsUpTo

LEMMA Flattened ==
    ASSUME NEW n \in Nat \ {0}, NEW s \in [1 .. n -> Seq(Byte)]
    PROVE  \E f \in [0 .. n -> Seq(Byte)] :
             /\ f[0] = <<>>
             /\ \A i \in 1 .. n : f[i] = f[i - 1] \o s[i]
             /\ f[n] = FlattenSeq(s)
<1> DEFINE flatten[i \in 1 .. Len(s)] == IF i = 1 THEN s[i] ELSE flatten[i - 1] \o s[i]
<1>1. s \in Seq(Seq(Byte)) /\ Len(s) = n /\ n \in Nat /\ n # 0
  OBVIOUS
<1>2. PICK g \in [1 .. n -> Seq(Byte)] : Joins(g, n, s)
  <2> HIDE DEF flatten
  <2> QED  BY <1>1, JoinsExist
<1>3. flatten = [i \in 1 .. Len(s) |-> IF i = 1 THEN s[i] ELSE flatten[i - 1] \o s[i]]
  <2> DEFINE h == [i \in 1 .. Len(s) |-> IF i = 1 THEN s[i] ELSE g[i - 1] \o s[i]]
  <2> HIDE DEF flatten
  <2>1. ASSUME NEW i \in 1 .. n PROVE g[i] = h[i]
    <3>1. h[i] = IF i = 1 THEN s[i] ELSE g[i - 1] \o s[i]
      BY <1>1
    <3>2. i # 1 => i \in 2 .. n
      BY <1>1
    <3> QED  BY <1>2, <3>1, <3>2 DEF Joins
  <2>2. DOMAIN h = 1 .. n /\ h = [i \in 1 .. n |-> h[i]]
    BY <1>1
  <2>3. g = [i \in 1 .. n |-> g[i]]
    BY <1>2
  <2> HIDE DEF h
  <2>4. g = h
    BY <2>1, <2>2, <2>3
  <2> QED  BY <2>4, Zenon DEF h, flatten
<1>4. FlattenSeq(s) = flatten[n]
  BY <1>1, Zenon DEF FlattenSeq
<1> HIDE DEF flatten
<1>5. ASSUME NEW i \in 1 .. n
      PROVE  flatten[i] = IF i = 1 THEN s[i] ELSE flatten[i - 1] \o s[i]
  BY <1>1, <1>3, Zenon
<1>6. \A i \in 1 .. n : flatten[i] = g[i]
  <2> DEFINE Bad == {i \in 1 .. n : flatten[i] # g[i]}
  <2>1. ASSUME Bad # {} PROVE FALSE
    <3>1. PICK i \in Bad : \A j \in Bad : i <= j
      <4>1. Bad \subseteq Nat
        OBVIOUS
      <4> HIDE DEF Bad
      <4> QED  BY <2>1, <4>1, LeastExists
    <3>2. i \in 1 .. n /\ flatten[i] # g[i]
      BY <3>1
    <3>3. i # 1
      BY <1>2, <1>5, <3>2 DEF Joins
    <3>4. i - 1 \in 1 .. n /\ i - 1 \notin Bad /\ i \in 2 .. n
      BY <3>1, <3>2, <3>3
    <3>5. flatten[i - 1] = g[i - 1]
      BY <3>4
    <3>6. g[i] = g[i - 1] \o s[i]
      BY <1>2, <3>4 DEF Joins
    <3> QED  BY <1>5, <3>2, <3>3, <3>5, <3>6
  <2> QED  BY <2>1
<1> DEFINE f == [i \in 0 .. n |-> IF i = 0 THEN <<>> ELSE g[i]]
<1>7. f \in [0 .. n -> Seq(Byte)] /\ f[0] = <<>> /\ \A i \in 1 .. n : f[i] = g[i]
  BY <1>1, <1>2
<1> HIDE DEF f
<1>8. f[n] = FlattenSeq(s)
  BY <1>1, <1>4, <1>6, <1>7
<1>9. ASSUME NEW i \in 1 .. n PROVE f[i] = f[i - 1] \o s[i]
  <2>1. CASE i = 1
    <3>1. <<>> \o s[1] = s[1]
      BY <1>1, ConcatEmptySeq
    <3>2. i - 1 = 0
      BY <2>1
    <3> QED  BY <1>2, <1>7, <2>1, <3>1, <3>2 DEF Joins
  <2>2. CASE i # 1
    <3>1. i \in 2 .. n /\ i - 1 \in 1 .. n
      BY <1>1, <2>2
    <3> QED  BY <1>2, <1>7, <3>1 DEF Joins
  <2> QED  BY <2>1, <2>2
<1> QED  BY <1>7, <1>8, <1>9

\* What is put together first stays at the front.
LEMMA StaysInFront ==
    ASSUME NEW n \in Nat, NEW s \in [1 .. n -> Seq(Byte)], NEW f \in [0 .. n -> Seq(Byte)],
           \A j \in 1 .. n : f[j] = f[j - 1] \o s[j],
           NEW i \in 0 .. n
    PROVE  /\ Len(f[i]) <= Len(f[n])
           /\ \A k \in 1 .. Len(f[i]) : f[n][k] = f[i][k]
<1> DEFINE AtFront(j) == /\ Len(f[i]) <= Len(f[j])
                         /\ \A k \in 1 .. Len(f[i]) : f[j][k] = f[i][k]
           Bad == {j \in i .. n : ~AtFront(j)}
<1> HIDE DEF AtFront
<1>1. ASSUME Bad # {} PROVE FALSE
  <2>1. PICK j \in Bad : \A k \in Bad : j <= k
    <3>1. Bad \subseteq Nat
      OBVIOUS
    <3> HIDE DEF Bad
    <3> QED  BY <1>1, <3>1, LeastExists
  <2>2. j \in i .. n /\ ~AtFront(j)
    BY <2>1
  <2>3. \A k \in 0 .. n : f[k] \in Seq(Byte) /\ Len(f[k]) \in Nat
    OBVIOUS
  <2>4. j # i
    BY <2>2, <2>3 DEF AtFront
  <2>5. j - 1 \in i .. n /\ j - 1 \notin Bad /\ j \in 1 .. n /\ j - 1 \in 0 .. n
    BY <2>1, <2>2, <2>4
  <2>6. AtFront(j - 1)
    BY <2>5
  <2>7. f[j] = f[j - 1] \o s[j] /\ s[j] \in Seq(Byte) /\ Len(s[j]) \in Nat
    BY <2>5
  <2> DEFINE a == f[j - 1]
             b == s[j]
  <2>8. a \in Seq(Byte) /\ b \in Seq(Byte) /\ Len(a) \in Nat /\ Len(b) \in Nat
    BY <2>3, <2>5, <2>7
  <2> HIDE DEF a, b
  <2>9. Len(a \o b) = Len(a) + Len(b) /\ \A k \in 1 .. Len(a) : (a \o b)[k] = a[k]
    <3>1. \A k \in 1 .. Len(a) : k \in 1 .. Len(a) + Len(b) /\ k <= Len(a)
      BY <2>8
    <3> QED  BY <2>8, <3>1, ConcatProperties
  <2>10. AtFront(j)
    BY <2>3, <2>6, <2>7, <2>8, <2>9 DEF AtFront, a, b
  <2> QED  BY <2>2, <2>10
<1>2. n \in i .. n
  OBVIOUS
<1>3. AtFront(n)
  BY <1>1, <1>2
<1> QED  BY <1>3 DEF AtFront

----------------------------------------------------------------------------
(* What was encoded, decoded.                                              *)

\* As far as the input reaches, c stands behind position p.
Stands(s, p, c) == \A j \in 1 .. Len(c) : p + j <= Len(s) => s[p + j] = c[j]

LEMMA Taken ==
    ASSUME NEW s \in Seq(Byte), NEW p \in Nat, NEW c \in Seq(Byte),
           Stands(s, p, c), p + Len(c) <= Len(s)
    PROVE  SubSeq(s, p + 1, p + Len(c)) = c
<1> DEFINE u == SubSeq(s, p + 1, p + Len(c))
<1>1. Len(c) \in Nat /\ Len(s) \in Nat
  OBVIOUS
<1>2. \A i \in p + 1 .. p + Len(c) : s[i] \in Byte
  BY <1>1, ElementOfSeq
<1>3. /\ u \in Seq(Byte) /\ Len(u) = IF p + 1 <= p + Len(c) THEN p + Len(c) - (p + 1) + 1 ELSE 0
      /\ \A i \in 1 .. p + Len(c) - (p + 1) + 1 : u[i] = s[p + 1 + i - 1]
  BY <1>1, <1>2, SubSeqProperties
<1> HIDE DEF u
<1>4. Len(u) = Len(c)
  BY <1>1, <1>3
<1>5. ASSUME NEW i \in 1 .. Len(u) PROVE u[i] = c[i]
  <2>1. i \in 1 .. p + Len(c) - (p + 1) + 1 /\ p + 1 + i - 1 = p + i /\ p + i <= Len(s)
    BY <1>1, <1>4
  <2> QED  BY <1>3, <1>4, <2>1 DEF Stands
<1>6. u = c
  BY <1>3, <1>4, <1>5, SeqEqual
<1> QED  BY <1>6 DEF u

\* The parts of a chunk stand one behind the other.
LEMMA StandsParts ==
    ASSUME NEW s \in Seq(Byte), NEW p \in Nat, NEW a \in Seq(Byte), NEW b \in Seq(Byte),
           Stands(s, p, a \o b)
    PROVE  Stands(s, p, a) /\ Stands(s, p + Len(a), b)
<1>1. /\ Len(a) \in Nat /\ Len(b) \in Nat /\ Len(a \o b) = Len(a) + Len(b)
      /\ \A i \in 1 .. Len(a) + Len(b) : (a \o b)[i] = IF i <= Len(a) THEN a[i] ELSE b[i - Len(a)]
  BY ConcatProperties
<1> DEFINE c == a \o b
<1> HIDE DEF c
<1>2. ASSUME NEW j \in 1 .. Len(a), p + j <= Len(s) PROVE s[p + j] = a[j]
  <2>1. j \in 1 .. Len(c) /\ c[j] = a[j]
    BY <1>1 DEF c
  <2> QED  BY <1>2, <2>1 DEF Stands, c
<1>3. ASSUME NEW j \in 1 .. Len(b), p + Len(a) + j <= Len(s) PROVE s[p + Len(a) + j] = b[j]
  <2>1. /\ Len(a) + j \in 1 .. Len(c) /\ (Len(a) + j) - Len(a) = j /\ ~(Len(a) + j <= Len(a))
        /\ p + (Len(a) + j) = p + Len(a) + j
    BY <1>1 DEF c
  <2>2. c[Len(a) + j] = b[j]
    BY <1>1, <2>1 DEF c
  <2> QED  BY <1>3, <2>1, <2>2 DEF Stands, c
<1> QED  BY <1>2, <1>3 DEF Stands

\* The two digits of a number, and what they are at least and below.
LEMMA Digits ==
    ASSUME NEW b \in Nat \ {0}, NEW d \in Nat, NEW v \in Nat, v < d * b
    PROVE  /\ v \div b \in Nat /\ v \div b < d
           /\ v % b \in Nat /\ v % b < b
           /\ v = (v \div b) * b + (v % b)
           /\ \A e \in Nat : /\ e * b <= v => e <= v \div b
                             /\ v < e * b => v \div b < e
<1> DEFINE q == v \div b
           r == v % b
<1>1. q \in Int /\ r \in Nat /\ r < b /\ v = b * q + r
  OBVIOUS
<1> HIDE DEF q, r
<1>2. q \in Nat
  <2>1. SUFFICES ASSUME q < 0 PROVE FALSE
    BY <1>1
  <2>2. b * q + b <= b * 0
    BY <1>1, <2>1, Grows
  <2>3. b * q \in Int
    BY <1>1
  <2> QED  BY <1>1, <2>2, <2>3
<1>3. v = q * b + r
  BY <1>1, <1>2
<1>4. \A e \in Nat : v < e * b => q < e
  <2>1. SUFFICES ASSUME NEW e \in Nat, v < e * b, e <= q PROVE FALSE
    BY <1>2
  <2>2. e = q \/ e * b + b <= q * b
    <3>1. e < q => b * e + b <= b * q
      BY <1>2, Grows
    <3>2. b * e = e * b /\ b * q = q * b
      BY <1>2
    <3> QED  BY <1>2, <2>1, <3>1, <3>2
  <2>3. e * b \in Nat /\ q * b \in Nat
    BY <1>2
  <2> QED  BY <1>1, <1>3, <2>1, <2>2, <2>3
<1>5. \A e \in Nat : e * b <= v => e <= q
  <2>1. SUFFICES ASSUME NEW e \in Nat, e * b <= v, q < e PROVE FALSE
    BY <1>2
  <2>2. q * b + r < e * b
    BY <1>1, <1>2, <2>1, Below
  <2>3. e * b \in Nat
    OBVIOUS
  <2> QED  BY <1>3, <2>1, <2>2, <2>3
<1>6. q < d
  BY <1>4
<1>7. q * b + r = v
  BY <1>3
<1> USE DEF q, r
<1>8. v \div b \in Nat /\ v \div b < d
  BY <1>2, <1>6
<1>9. v % b \in Nat /\ v % b < b /\ v = (v \div b) * b + (v % b)
  BY <1>1, <1>3
<1> QED  BY <1>4, <1>5, <1>8, <1>9

\* The first byte of a longer string.
LEMMA FirstOf ==
    ASSUME NEW a \in Seq(Byte), NEW b \in Seq(Byte), Len(a) # 0
    PROVE  /\ a \o b \in Seq(Byte)
           /\ Len(a \o b) = Len(a) + Len(b)
           /\ (a \o b)[1] = a[1]
<1>1. 1 \in 1 .. Len(a) + Len(b) /\ 1 <= Len(a)
  OBVIOUS
<1> QED  BY <1>1, ConcatProperties

\* A number of two, four and eight bytes: its bytes, what its first byte is at
\* least and below, and the number again from a place where the bytes stand.
LEMMA Reads2 ==
    ASSUME NEW v \in Nat, v < Word2
    PROVE  /\ Be2(v) \in Seq(Byte) /\ Len(Be2(v)) = 2
           /\ \A e \in Nat : /\ e * Octet <= v => e <= Be2(v)[1]
                             /\ v < e * Octet => Be2(v)[1] < e
           /\ \A s \in Seq(Byte), p \in Nat :
                Stands(s, p, Be2(v)) /\ p + 2 <= Len(s) => From2(s, p) = v
<1> DEFINE h == v \div Octet
           l == v % Octet
<1>1. /\ h \in Nat /\ h < Octet /\ l \in Nat /\ l < Octet
      /\ v = h * Octet + l
      /\ \A e \in Nat : /\ e * Octet <= v => e <= h
                        /\ v < e * Octet => h < e
  BY Widths, Digits DEF Word2
<1>2. Be2(v) = <<h, l>>
  BY DEF Be2
<1> HIDE DEF h, l
<1>3. /\ Be2(v) \in Seq(Byte) /\ Len(Be2(v)) = 2
      /\ Be2(v)[1] = h /\ Be2(v)[2] = l
  <2>1. h \in Byte /\ l \in Byte
    BY <1>1, Widths DEF Byte
  <2> QED  BY <1>2, <2>1
<1>4. ASSUME NEW s \in Seq(Byte), NEW p \in Nat, Stands(s, p, Be2(v)), p + 2 <= Len(s)
      PROVE  From2(s, p) = v
  <2>1. s[p + 1] = h /\ s[p + 2] = l
    <3>1. 1 \in 1 .. 2 /\ 2 \in 1 .. 2 /\ p + 1 <= Len(s)
      BY <1>4
    <3> QED  BY <1>3, <1>4, <3>1 DEF Stands
  <2> QED  BY <1>1, <2>1 DEF From2
<1> QED  BY <1>1, <1>3, <1>4

LEMMA Reads4 ==
    ASSUME NEW v \in Nat, v < Word4
    PROVE  /\ Be4(v) \in Seq(Byte) /\ Len(Be4(v)) = 4
           /\ \A e \in Nat : /\ (e * Octet) * Word2 <= v => e <= Be4(v)[1]
                             /\ v < (e * Octet) * Word2 => Be4(v)[1] < e
           /\ \A s \in Seq(Byte), p \in Nat :
                Stands(s, p, Be4(v)) /\ p + 4 <= Len(s) => From4(s, p) = v
<1> DEFINE h == v \div Word2
           l == v % Word2
<1>1. /\ h \in Nat /\ h < Word2 /\ l \in Nat /\ l < Word2
      /\ v = h * Word2 + l
      /\ \A e \in Nat : /\ e * Word2 <= v => e <= h
                        /\ v < e * Word2 => h < e
  BY Widths, Digits DEF Word4
<1>2. Be4(v) = Be2(h) \o Be2(l)
  BY DEF Be4
<1> HIDE DEF h, l
<1>3. /\ Be2(h) \in Seq(Byte) /\ Len(Be2(h)) = 2
      /\ \A e \in Nat : /\ e * Octet <= h => e <= Be2(h)[1]
                        /\ h < e * Octet => Be2(h)[1] < e
      /\ \A s \in Seq(Byte), p \in Nat :
           Stands(s, p, Be2(h)) /\ p + 2 <= Len(s) => From2(s, p) = h
  BY <1>1, Reads2
<1>4. /\ Be2(l) \in Seq(Byte) /\ Len(Be2(l)) = 2
      /\ \A s \in Seq(Byte), p \in Nat :
           Stands(s, p, Be2(l)) /\ p + 2 <= Len(s) => From2(s, p) = l
  BY <1>1, Reads2
<1>5. Be4(v) \in Seq(Byte) /\ Len(Be4(v)) = 4 /\ Be4(v)[1] = Be2(h)[1]
  <2>1. Len(Be2(h)) # 0 /\ Len(Be2(h)) + Len(Be2(l)) = 4
    BY <1>3, <1>4
  <2>2. Be2(h) \in Seq(Byte) /\ Be2(l) \in Seq(Byte)
    BY <1>3, <1>4
  <2> QED  BY <1>2, <2>1, <2>2, FirstOf
<1>6. ASSUME NEW e \in Nat
      PROVE  /\ (e * Octet) * Word2 <= v => e <= Be4(v)[1]
             /\ v < (e * Octet) * Word2 => Be4(v)[1] < e
  <2>1. e * Octet \in Nat
    BY Widths
  <2> QED  BY <1>1, <1>3, <1>5, <2>1
<1>7. ASSUME NEW s \in Seq(Byte), NEW p \in Nat, Stands(s, p, Be4(v)), p + 4 <= Len(s)
      PROVE  From4(s, p) = v
  <2>1. Stands(s, p, Be2(h)) /\ Stands(s, p + 2, Be2(l))
    BY <1>2, <1>3, <1>4, <1>7, StandsParts
  <2>2. p + 2 <= Len(s) /\ p + 2 \in Nat /\ (p + 2) + 2 <= Len(s)
    BY <1>7
  <2>3. From2(s, p) = h /\ From2(s, p + 2) = l
    BY <1>3, <1>4, <2>1, <2>2
  <2> QED  BY <1>1, <2>3 DEF From4
<1> QED  BY <1>5, <1>6, <1>7

LEMMA Reads8 ==
    ASSUME NEW v \in Nat, v < Word4 * Word4
    PROVE  /\ Be8(v) \in Seq(Byte) /\ Len(Be8(v)) = 8
           /\ \A e \in Nat : /\ ((e * Octet) * Word2) * Word4 <= v => e <= Be8(v)[1]
                             /\ v < ((e * Octet) * Word2) * Word4 => Be8(v)[1] < e
           /\ \A s \in Seq(Byte), p \in Nat :
                Stands(s, p, Be8(v)) /\ p + 8 <= Len(s) => From8(s, p) = v
<1> DEFINE h == v \div Word4
           l == v % Word4
<1>1. /\ h \in Nat /\ h < Word4 /\ l \in Nat /\ l < Word4
      /\ v = h * Word4 + l
      /\ \A e \in Nat : /\ e * Word4 <= v => e <= h
                        /\ v < e * Word4 => h < e
  BY Widths, Digits
<1>2. Be8(v) = Be4(h) \o Be4(l)
  BY DEF Be8
<1> HIDE DEF h, l
<1>3. /\ Be4(h) \in Seq(Byte) /\ Len(Be4(h)) = 4
      /\ \A e \in Nat : /\ (e * Octet) * Word2 <= h => e <= Be4(h)[1]
                        /\ h < (e * Octet) * Word2 => Be4(h)[1] < e
      /\ \A s \in Seq(Byte), p \in Nat :
           Stands(s, p, Be4(h)) /\ p + 4 <= Len(s) => From4(s, p) = h
  BY <1>1, Reads4
<1>4. /\ Be4(l) \in Seq(Byte) /\ Len(Be4(l)) = 4
      /\ \A s \in Seq(Byte), p \in Nat :
           Stands(s, p, Be4(l)) /\ p + 4 <= Len(s) => From4(s, p) = l
  BY <1>1, Reads4
<1>5. Be8(v) \in Seq(Byte) /\ Len(Be8(v)) = 8 /\ Be8(v)[1] = Be4(h)[1]
  <2>1. Len(Be4(h)) # 0 /\ Len(Be4(h)) + Len(Be4(l)) = 8
    BY <1>3, <1>4
  <2>2. Be4(h) \in Seq(Byte) /\ Be4(l) \in Seq(Byte)
    BY <1>3, <1>4
  <2> QED  BY <1>2, <2>1, <2>2, FirstOf
<1>6. ASSUME NEW e \in Nat
      PROVE  /\ ((e * Octet) * Word2) * Word4 <= v => e <= Be8(v)[1]
             /\ v < ((e * Octet) * Word2) * Word4 => Be8(v)[1] < e
  <2>1. (e * Octet) * Word2 \in Nat
    <3>1. e * Octet \in Nat
      BY Widths
    <3> QED  BY <3>1, Widths
  <2> QED  BY <1>1, <1>3, <1>5, <2>1
<1>7. ASSUME NEW s \in Seq(Byte), NEW p \in Nat, Stands(s, p, Be8(v)), p + 8 <= Len(s)
      PROVE  From8(s, p) = v
  <2>1. Stands(s, p, Be4(h)) /\ Stands(s, p + 4, Be4(l))
    BY <1>2, <1>3, <1>4, <1>7, StandsParts
  <2>2. p + 4 <= Len(s) /\ p + 4 \in Nat /\ (p + 4) + 4 <= Len(s)
    BY <1>7
  <2>3. From4(s, p) = h /\ From4(s, p + 4) = l
    BY <1>3, <1>4, <2>1, <2>2
  <2> QED  BY <1>1, <2>3 DEF From8
<1> QED  BY <1>5, <1>6, <1>7

\* A length prefix that put_varint writes: its size is the one its first byte
\* gives, no smaller one would do, and get_varint reads the length again.
LEMMA ReadsVarint ==
    ASSUME NEW v \in Nat, v < Bound8
    PROVE  /\ PutVarint(v) \in Seq(Byte)
           /\ Len(PutVarint(v)) # 0
           /\ Len(PutVarint(v)) = VarintSize(PutVarint(v)[1])
           /\ Least(Len(PutVarint(v))) <= v
           /\ \A s \in Seq(Byte), p \in Nat :
                Stands(s, p, PutVarint(v)) /\ p + Len(PutVarint(v)) <= Len(s)
                  => VarintValue(s, p) = v
<1> DEFINE c == PutVarint(v)
           \* The prefix c has n bytes, of which the first is in class m.
           Prefix(n) == /\ c \in Seq(Byte) /\ Len(c) = n /\ VarintSize(c[1]) = n
                        /\ Least(n) <= v
           Back == \A s \in Seq(Byte), p \in Nat :
                     Stands(s, p, c) /\ p + Len(c) <= Len(s) => VarintValue(s, p) = v
<1>q. Quarter \in Nat \ {0} /\ Octet = 4 * Quarter /\ Octet \in Nat
  BY WireAssumption, Widths DEF Octet
<1>w. /\ 2 * Bound2 = (2 * Quarter) * Octet /\ Bound2 = Quarter * Octet
      /\ Word2 = (4 * Quarter) * Octet /\ Word2 = 4 * Bound2
      /\ 2 * Bound4 = ((2 * Quarter) * Octet) * Word2
      /\ 3 * Bound4 = ((3 * Quarter) * Octet) * Word2
      /\ Word4 = 4 * Bound4
      /\ 3 * Bound8 = ((3 * Quarter) * Octet) * Word2 * Word4
      /\ Word4 * Word4 = 4 * Bound8
  <2>1. /\ Bound2 = Quarter * Octet /\ 2 * Bound2 = (2 * Quarter) * Octet
        /\ 3 * Bound2 = (3 * Quarter) * Octet
        /\ Word2 = (4 * Quarter) * Octet /\ Word2 = 4 * Bound2
    BY <1>q DEF Bound2, Word2
  <2>2. /\ Bound4 = Bound2 * Word2 /\ 2 * Bound4 = (2 * Bound2) * Word2
        /\ 3 * Bound4 = (3 * Bound2) * Word2 /\ Word4 = 4 * Bound4
    <3>1. Word4 = (4 * Bound2) * Word2
      BY <2>1 DEF Word4
    <3>2. (4 * Bound2) * Word2 = 4 * (Bound2 * Word2)
      BY Bounds, Widths
    <3> QED  BY <3>1, <3>2, Bounds, Widths DEF Bound4
  <2>3. Bound8 = Bound4 * Word4 /\ 3 * Bound8 = (3 * Bound4) * Word4
        /\ Word4 * Word4 = 4 * Bound8
    <3>1. Word4 * Word4 = (4 * Bound4) * Word4
      BY <2>2
    <3>2. (4 * Bound4) * Word4 = 4 * (Bound4 * Word4)
      BY Bounds, Widths
    <3> QED  BY <3>1, <3>2, Bounds, Widths DEF Bound8
  <2> QED  BY <2>1, <2>2, <2>3
<1>b. /\ Bound1 \in Nat /\ Bound2 \in Nat /\ Bound4 \in Nat /\ Bound8 \in Nat
      /\ Bound1 <= Bound2 /\ Bound2 <= Bound4 /\ Bound4 <= Bound8
  BY Bounds
<1>s. \A s \in Seq(Byte), p \in Nat : Stands(s, p, c) /\ p + Len(c) <= Len(s) /\ Len(c) >= 1
                                        /\ Len(c) \in Nat
                                      => s[p + 1] = c[1]
  <2>1. ASSUME NEW s \in Seq(Byte), NEW p \in Nat, Stands(s, p, c), p + Len(c) <= Len(s),
               Len(c) \in Nat, Len(c) >= 1
        PROVE  s[p + 1] = c[1]
    <3>1. 1 \in 1 .. Len(c) /\ p + 1 <= Len(s)
      BY <2>1
    <3> QED  BY <2>1, <3>1 DEF Stands
  <2> QED  BY <2>1
<1>1. CASE v < Bound1
  <2>1. c = <<v>> /\ v < Quarter
    BY <1>1 DEF PutVarint, Bound1
  <2>2. v \in Byte
    BY <1>q, <2>1 DEF Byte
  <2> HIDE DEF c
  <2>3. c \in Seq(Byte) /\ Len(c) = 1 /\ c[1] = v
    BY <2>1, <2>2
  <2>4. VarintSize(c[1]) = 1
    BY <2>1, <2>3 DEF VarintSize
  <2>5. Prefix(1)
    BY <2>3, <2>4 DEF Least
  <2>6. Back
    BY <1>s, <2>3, <2>4 DEF VarintValue
  <2> QED  BY <2>5, <2>6 DEF c
<1>2. CASE ~(v < Bound1) /\ v < Bound2
  <2> DEFINE w == v + Bound2
  <2>1. c = Be2(w)
    BY <1>2 DEF PutVarint
  <2>2. /\ w \in Nat /\ w < Word2 /\ Quarter * Octet <= w /\ w < (2 * Quarter) * Octet
        /\ w - Bound2 = v
    BY <1>2, <1>b, <1>w
  <2> HIDE DEF c, w
  <2>3. /\ c \in Seq(Byte) /\ Len(c) = 2
        /\ Quarter <= c[1] /\ c[1] < 2 * Quarter
        /\ \A s \in Seq(Byte), p \in Nat :
             Stands(s, p, c) /\ p + 2 <= Len(s) => From2(s, p) = w
    BY <1>q, <2>1, <2>2, Reads2
  <2>4. c[1] \in Nat
    <3>1. c[1] \in Byte
      BY <2>3
    <3> QED  BY <3>1, <1>q DEF Byte
  <2>5. VarintSize(c[1]) = 2
    BY <1>q, <2>3, <2>4 DEF VarintSize
  <2>6. Prefix(2)
    BY <1>2, <1>b, <2>3, <2>5 DEF Least
  <2>7. Back
    BY <1>s, <2>2, <2>3, <2>5 DEF VarintValue
  <2> QED  BY <2>6, <2>7 DEF c
<1>3. CASE ~(v < Bound2) /\ v < Bound4
  <2> DEFINE w == v + 2 * Bound4
  <2>1. c = Be4(w)
    BY <1>3, <1>b DEF PutVarint
  <2>2. /\ w \in Nat /\ w < Word4
        /\ ((2 * Quarter) * Octet) * Word2 <= w /\ w < ((3 * Quarter) * Octet) * Word2
        /\ w - 2 * Bound4 = v
    BY <1>3, <1>b, <1>w
  <2> HIDE DEF c, w
  <2>3. /\ c \in Seq(Byte) /\ Len(c) = 4
        /\ 2 * Quarter <= c[1] /\ c[1] < 3 * Quarter
        /\ \A s \in Seq(Byte), p \in Nat :
             Stands(s, p, c) /\ p + 4 <= Len(s) => From4(s, p) = w
    BY <1>q, <2>1, <2>2, Reads4
  <2>4. c[1] \in Nat
    <3>1. c[1] \in Byte
      BY <2>3
    <3> QED  BY <3>1, <1>q DEF Byte
  <2>5. VarintSize(c[1]) = 4
    BY <1>q, <2>3, <2>4 DEF VarintSize
  <2>6. Prefix(4)
    BY <1>3, <1>b, <2>3, <2>5 DEF Least
  <2>7. Back
    BY <1>s, <2>2, <2>3, <2>5 DEF VarintValue
  <2> QED  BY <2>6, <2>7 DEF c
<1>4. CASE ~(v < Bound4)
  <2> DEFINE w == v + 3 * Bound8
  <2>1. c = Be8(w)
    BY <1>4, <1>b DEF PutVarint
  <2>2. /\ w \in Nat /\ w < Word4 * Word4
        /\ ((3 * Quarter) * Octet) * Word2 * Word4 <= w
        /\ w - 3 * Bound8 = v
    BY <1>b, <1>w
  <2> HIDE DEF c, w
  <2>3. /\ c \in Seq(Byte) /\ Len(c) = 8
        /\ 3 * Quarter <= c[1]
        /\ \A s \in Seq(Byte), p \in Nat :
             Stands(s, p, c) /\ p + 8 <= Len(s) => From8(s, p) = w
    BY <1>q, <2>1, <2>2, Reads8
  <2>4. c[1] \in Nat
    <3>1. c[1] \in Byte
      BY <2>3
    <3> QED  BY <3>1, <1>q DEF Byte
  <2>5. VarintSize(c[1]) = 8
    BY <1>q, <2>3, <2>4 DEF VarintSize
  <2>6. Prefix(8)
    BY <1>4, <1>b, <2>3, <2>5 DEF Least
  <2>7. Back
    BY <1>s, <2>2, <2>3, <2>5 DEF VarintValue
  <2> QED  BY <2>6, <2>7 DEF c
<1> QED  BY <1>1, <1>2, <1>3, <1>4

\* A byte string with its length in front: where it stands get_opaque_v reads
\* it again, and where it is cut short get_opaque_v finds it cut short.
LEMMA ReadsOpaque ==
    ASSUME NEW s \in Seq(Byte), NEW p \in Nat, NEW b \in Seq(Byte), Fits(Len(b)),
           Stands(s, p, PutOpaque(b))
    PROVE  /\ PutOpaque(b) \in Seq(Byte)
           /\ p + Len(PutOpaque(b)) <= Len(s) =>
                /\ OpaqueError(s, p) = "none"
                /\ OpaqueSize(s, p) = Len(PutOpaque(b))
                /\ Opaque(s, p) = b
           /\ ~(p + Len(PutOpaque(b)) <= Len(s)) => OpaqueError(s, p) = "UnexpectedEof"
<1> DEFINE v == Len(b)
           c == PutVarint(v)
           n == Len(c)
<1>1. v \in Nat /\ v < Bound8 /\ v <= SizeMax /\ SizeMax \in Nat /\ Len(s) \in Nat
  BY WireAssumption DEF Fits
<1>2. PutOpaque(b) = c \o b
  BY DEF PutOpaque
<1> HIDE DEF v
<1>3. /\ c \in Seq(Byte) /\ n # 0 /\ n = VarintSize(c[1]) /\ Least(n) <= v
      /\ Stands(s, p, c) /\ p + n <= Len(s) => VarintValue(s, p) = v
  BY <1>1, ReadsVarint
<1> HIDE DEF c
<1>4. n \in Nat /\ n \in {1, 2, 4, 8} /\ Least(n) \in Nat
  <2>1. n \in Nat /\ n \in {1, 2, 4, 8}
    BY <1>3 DEF VarintSize
  <2> QED  BY <2>1, Bounds DEF Least
<1>5. PutOpaque(b) \in Seq(Byte) /\ Len(PutOpaque(b)) = n + v
  BY <1>2, <1>3, ConcatProperties DEF v
<1>6. Stands(s, p, c) /\ Stands(s, p + n, b)
  BY <1>2, <1>3, StandsParts
<1> HIDE DEF n
<1>7. CASE p + 1 <= Len(s) /\ p + n <= Len(s)
  <2>1. s[p + 1] = c[1]
    <3>1. 1 \in 1 .. Len(c)
      BY <1>3, <1>4 DEF n
    <3> QED  BY <1>6, <1>7, <3>1 DEF Stands
  <2>2. VarintSize(s[p + 1]) = n /\ VarintValue(s, p) = v
    BY <1>3, <1>6, <1>7, <2>1
  <2>3. VarintError(s, p) = "none"
    BY <1>1, <1>3, <1>4, <1>7, <2>2 DEF VarintError, Holds
  <2>4. OpaqueError(s, p) = IF p + n + v <= Len(s) THEN "none" ELSE "UnexpectedEof"
    BY <1>1, <2>2, <2>3 DEF OpaqueError, Holds
  <2>5. OpaqueSize(s, p) = n + v
    BY <2>2 DEF OpaqueSize
  <2>6. ASSUME p + (n + v) <= Len(s) PROVE Opaque(s, p) = b
    <3>1. SubSeq(s, (p + n) + 1, (p + n) + Len(b)) = b
      <4>1. p + n \in Nat /\ (p + n) + Len(b) <= Len(s)
        BY <1>1, <1>4, <2>6 DEF v
      <4> QED  BY <1>6, <4>1, Taken
    <3>2. Opaque(s, p) = SubSeq(s, p + n + 1, p + (n + v))
      BY <2>2, <2>5 DEF Opaque
    <3>3. p + n + 1 = (p + n) + 1 /\ p + (n + v) = (p + n) + Len(b)
      BY <1>1, <1>4 DEF v
    <3> QED  BY <3>1, <3>2, <3>3
  <2>7. p + n + v = p + (n + v)
    BY <1>1, <1>4
  <2> QED  BY <1>5, <2>4, <2>5, <2>6, <2>7
<1>8. CASE ~(p + 1 <= Len(s) /\ p + n <= Len(s))
  <2>1. ~(p + (n + v) <= Len(s))
    BY <1>1, <1>3, <1>4, <1>8
  <2>2. VarintError(s, p) = "UnexpectedEof"
    <3>1. CASE ~(p + 1 <= Len(s))
      BY <3>1 DEF VarintError, Holds
    <3>2. CASE p + 1 <= Len(s)
      <4>1. 1 \in 1 .. Len(c)
        BY <1>3, <1>4 DEF n
      <4>2. s[p + 1] = c[1]
        BY <1>6, <3>2, <4>1 DEF Stands
      <4> QED  BY <1>3, <1>8, <3>2, <4>2 DEF VarintError, Holds
    <3> QED  BY <3>1, <3>2
  <2> QED  BY <1>5, <2>1, <2>2 DEF OpaqueError
<1> QED  BY <1>7, <1>8

\* A list of keys, joined to a body and cut again.
LEMMA ReadsKeys ==
    ASSUME NEW k \in Seq({b \in Seq(Byte) : Len(b) = KeySize})
    PROVE  /\ Body(k) \in Seq(Byte)
           /\ Len(Body(k)) = Len(k) * KeySize
           /\ Len(Body(k)) % KeySize = 0
           /\ Keys(Body(k)) = k
<1> DEFINE K == KeySize
           q == Len(k)
           B == Body(k)
<1>1. K \in Nat \ {0} /\ q \in Nat /\ q * K \in Nat
  BY WireAssumption
<1>2. \A i \in 1 .. q : k[i] \in Seq(Byte) /\ Len(k[i]) = K
  <2>1. \A i \in 1 .. q : k[i] \in {b \in Seq(Byte) : Len(b) = K}
    BY ElementOfSeq
  <2> QED  BY <2>1
<1>3. B = [i \in 1 .. q * K |-> k[((i - 1) \div K) + 1][((i - 1) % K) + 1]]
  BY DEF Body
<1>4. ASSUME NEW i \in 1 .. q * K
      PROVE  k[((i - 1) \div K) + 1][((i - 1) % K) + 1] \in Byte
  <2> DEFINE d == (i - 1) \div K
             m == (i - 1) % K
  <2>1. i - 1 \in Nat /\ i - 1 < q * K
    BY <1>1
  <2>2. d \in Nat /\ d < q /\ m \in Nat /\ m < K
    BY <1>1, <2>1, Digits
  <2> HIDE DEF d, m
  <2>3. d + 1 \in 1 .. q /\ m + 1 \in 1 .. K
    BY <1>1, <2>2
  <2>4. k[d + 1] \in Seq(Byte) /\ m + 1 \in 1 .. Len(k[d + 1])
    BY <1>2, <2>3
  <2>5. k[d + 1][m + 1] \in Byte
    BY <2>4, ElementOfSeq
  <2> QED  BY <2>5 DEF d, m
<1> DEFINE Letter(i) == k[((i - 1) \div K) + 1][((i - 1) % K) + 1]
           L == q * K
<1> HIDE DEF B
<1>5. B \in Seq(Byte) /\ Len(B) = L /\ L \in Nat
  <2>1. B = [i \in 1 .. L |-> Letter(i)] /\ \A i \in 1 .. L : Letter(i) \in Byte
    BY <1>3, <1>4
  <2>2. L \in Nat
    BY <1>1
  <2> HIDE DEF L, Letter
  <2> QED  BY <2>1, <2>2
<1> HIDE DEF Letter
<1>6. (q * K) \div K = q /\ (q * K) % K = 0
  <2>1. q * K + 0 = q * K
    BY <1>1
  <2> QED  BY <1>1, <2>1, Quotient
<1>7. ASSUME NEW i \in 1 .. q PROVE SubSeq(B, (i - 1) * K + 1, i * K) = k[i]
  <2> DEFINE a == (i - 1) * K
             u == SubSeq(B, a + 1, i * K)
  <2>1. a \in Nat /\ i * K = a + K /\ a + K <= q * K
    <3>1. i - 1 \in Nat /\ i * K = (i - 1) * K + K
      BY <1>1
    <3>2. K * (i - 1) + K <= K * q
      BY <1>1, Grows
    <3>3. K * (i - 1) = (i - 1) * K /\ K * q = q * K /\ (i - 1) * K \in Nat
      BY <1>1, <3>1
    <3> QED  BY <3>1, <3>2, <3>3
  <2>2. \A j \in a + 1 .. a + K : B[j] \in Byte
    <3>1. \A j \in a + 1 .. a + K : j \in 1 .. Len(B)
      <4>1. a \in Nat /\ a + K <= L /\ Len(B) = L /\ L \in Nat /\ K \in Nat
        BY <1>1, <1>5, <2>1
      <4> HIDE DEF a, L
      <4> QED  BY <4>1
    <3> QED  BY <1>5, <3>1, ElementOfSeq
  <2>3. /\ u \in Seq(Byte) /\ Len(u) = K /\ \A j \in 1 .. K : u[j] = B[a + j]
    <3> HIDE DEF a
    <3>1. /\ u \in Seq(Byte)
          /\ Len(u) = IF a + 1 <= a + K THEN a + K - (a + 1) + 1 ELSE 0
          /\ \A j \in 1 .. a + K - (a + 1) + 1 : u[j] = B[a + 1 + j - 1]
      <4>1. a + 1 \in Int /\ a + K \in Int
        BY <1>1, <2>1
      <4> QED  BY <2>1, <2>2, <4>1, SubSeqProperties
    <3>2. a + K - (a + 1) + 1 = K /\ a + 1 <= a + K
      BY <1>1, <2>1
    <3>3. \A j \in 1 .. K : a + 1 + j - 1 = a + j
      BY <1>1, <2>1
    <3> HIDE DEF u
    <3> QED  BY <3>1, <3>2, <3>3
  <2>4. k[i] \in Seq(Byte) /\ Len(k[i]) = K
    BY <1>2
  <2>5. ASSUME NEW j \in 1 .. K PROVE u[j] = k[i][j]
    <3>1. a + j \in 1 .. L /\ (a + j) - 1 = a + (j - 1)
      <4>1. a \in Nat /\ a + K <= L /\ L \in Nat /\ K \in Nat
        BY <1>1, <1>5, <2>1
      <4> HIDE DEF a, L
      <4> QED  BY <4>1
    <3>2. ((a + j) - 1) \div K = i - 1 /\ ((a + j) - 1) % K = j - 1
      <4>1. i - 1 \in Nat /\ j - 1 \in Nat /\ j - 1 < K
        BY <1>1
      <4>2. ((i - 1) * K + (j - 1)) \div K = i - 1 /\ ((i - 1) * K + (j - 1)) % K = j - 1
        BY <1>1, <4>1, Quotient
      <4> QED  BY <3>1, <4>2
    <3>3. B[a + j] = k[(i - 1) + 1][(j - 1) + 1]
      <4> HIDE DEF a
      <4> QED  BY <1>3, <3>1, <3>2
    <3>4. (i - 1) + 1 = i /\ (j - 1) + 1 = j
      BY <1>1
    <3> HIDE DEF a, u
    <3> QED  BY <2>3, <3>3, <3>4
  <2> HIDE DEF u
  <2>6. u = k[i]
    BY <2>3, <2>4, <2>5, SeqEqual
  <2> QED  BY <2>1, <2>6 DEF u
<1>8. Keys(B) = [i \in 1 .. q |-> SubSeq(B, (i - 1) * K + 1, i * K)]
  BY <1>5, <1>6 DEF Keys
<1>9. k = [i \in 1 .. q |-> k[i]]
  BY LenProperties
<1>10. Keys(B) = k
  BY <1>7, <1>8, <1>9
<1> QED  BY <1>5, <1>6, <1>10 DEF B

----------------------------------------------------------------------------
(* One field.                                                              *)

Tags == {"optional", "request", "response"}
Plain == {"u8", "u16", "u64", "digest", "opaque", "keys"}
FieldKinds == Plain \union Tags

LEMMA PutIsBytes ==
    ASSUME NEW kind \in FieldKinds, NEW v \in Values(kind)
    PROVE  Put(kind, v) \in Seq(Byte)
<1>1. CASE kind \in {"u8"} \union Tags
  <2>1. v \in Byte
    <3>1. 0 \in Byte /\ 1 \in Byte /\ 2 \in Byte
      BY WireAssumption DEF Byte, Octet
    <3> QED  BY <1>1, <3>1 DEF Values, Tags
  <2> QED  BY <1>1, <2>1 DEF Put, Tags
<1>2. CASE kind = "u16"
  <2>1. v \in Nat /\ v < Word2
    BY <1>2, Widths DEF Values
  <2> QED  BY <1>2, <2>1, Reads2 DEF Put
<1>3. CASE kind = "u64"
  <2>1. Word4 * Word4 \in Nat
    BY Widths
  <2>2. v \in Nat /\ v < Word4 * Word4
    BY <1>3, <2>1 DEF Values
  <2> QED  BY <1>3, <2>2, Reads8 DEF Put
<1>4. ASSUME NEW b \in Seq(Byte), Fits(Len(b)) PROVE PutOpaque(b) \in Seq(Byte)
  <2>1. Len(b) \in Nat /\ Len(b) < Bound8
    BY <1>4 DEF Fits
  <2>2. PutVarint(Len(b)) \in Seq(Byte)
    BY <2>1, ReadsVarint
  <2> QED  BY <2>2, ConcatProperties DEF PutOpaque
<1>5. CASE kind = "opaque"
  BY <1>4, <1>5 DEF Values, Put
<1>6. CASE kind = "keys"
  <2>1. v \in Seq({b \in Seq(Byte) : Len(b) = KeySize}) /\ Fits(Len(v) * KeySize)
    BY <1>6 DEF Values
  <2>2. Body(v) \in Seq(Byte) /\ Fits(Len(Body(v)))
    BY <2>1, ReadsKeys
  <2> QED  BY <1>4, <1>6, <2>2 DEF Put
<1>7. CASE kind = "digest"
  BY <1>7 DEF Values, Put
<1> QED  BY <1>1, <1>2, <1>3, <1>5, <1>6, <1>7 DEF FieldKinds, Plain

\* What a step of the decoder does where the bytes of a field stand: it takes
\* the value if all of them are there, and else runs out of input.
LEMMA Decides ==
    ASSUME NEW kind \in FieldKinds, NEW v \in Values(kind),
           input \in Seq(Byte), pos \in Nat, Stands(input, pos, Put(kind, v)),
           Awaits(kind), Next
    PROVE  /\ pos + Len(Put(kind, v)) <= Len(input)
                => Accept(v, Len(Put(kind, v)), After(kind, v))
           /\ ~(pos + Len(Put(kind, v)) <= Len(input)) => Stop("UnexpectedEof")
<1> DEFINE c == Put(kind, v)
<1>a. /\ kind = "u8" => GetU8
      /\ kind = "u16" => GetU16
      /\ kind = "u64" => GetU64
      /\ kind = "digest" => GetDigest
      /\ kind = "opaque" => GetOpaque
      /\ kind = "keys" => GetKeys
      /\ kind = "request" => GetStep("request")
      /\ kind = "response" => GetStep("response")
      /\ kind = "optional" => GetOptional
  <2>1. todo # <<>> /\ Head(todo) = kind
    BY DEF Awaits
  <2> QED  BY <2>1 DEF Next, Awaits, GetU8, GetU16, GetU64, GetDigest, GetOpaque, GetKeys,
                 GetStep, GetOptional, Finish
<1>b. c \in Seq(Byte) /\ Len(c) \in Nat /\ Len(input) \in Nat
  <2>1. c \in Seq(Byte)
    BY PutIsBytes
  <2> QED  BY <2>1
<1>c. \A i \in 1 .. Len(c) : pos + i <= Len(input) => input[pos + i] = c[i]
  BY DEF Stands
<1>d. pos + Len(c) <= Len(input) => SubSeq(input, pos + 1, pos + Len(c)) = c
  BY <1>b, Taken
<1>1. CASE kind \in {"u8"} \union Tags
  <2>1. c = <<v>>
    BY <1>1 DEF Put, Tags
  <2> HIDE DEF c
  <2>2. Len(c) = 1 /\ c[1] = v /\ 1 \in 1 .. Len(c)
    BY <2>1
  <2>3. pos + 1 <= Len(input) => input[pos + 1] = v
    BY <1>c, <2>2
  <2>4. CASE kind = "u8"
    BY <1>a, <2>2, <2>3, <2>4 DEF GetU8, Holds, After, c
  <2>5. ASSUME NEW union \in {"request", "response"}, kind = union
        PROVE  /\ pos + Len(c) <= Len(input) => Accept(v, Len(c), After(kind, v))
               /\ ~(pos + Len(c) <= Len(input)) => Stop("UnexpectedEof")
    <3>1. GetStep(union) /\ v \in {1, 2}
      BY <1>a, <2>5 DEF Values
    <3> QED  BY <2>2, <2>3, <2>5, <3>1 DEF GetStep, Holds, After
  <2>6. CASE kind = "optional"
    <3>1. v \in {0, 1}
      BY <2>6 DEF Values
    <3> QED  BY <1>a, <2>2, <2>3, <2>6, <3>1 DEF GetOptional, Holds, After, c
  <2> QED  BY <1>1, <2>4, <2>5, <2>6 DEF Tags, c
<1>2. CASE kind = "u16"
  <2>1. v \in Nat /\ v < Word2 /\ c = Be2(v)
    BY <1>2, Widths DEF Values, Put
  <2>2. Len(c) = 2 /\ (pos + 2 <= Len(input) => From2(input, pos) = v)
    BY <2>1, Reads2
  <2> QED  BY <1>2, <1>a, <2>2 DEF GetU16, Holds, After
<1>3. CASE kind = "u64"
  <2>1. Word4 * Word4 \in Nat
    BY Widths
  <2>2. v \in Nat /\ v < Word4 * Word4 /\ c = Be8(v)
    BY <1>3, <2>1 DEF Values, Put
  <2>3. Len(c) = 8 /\ (pos + 8 <= Len(input) => From8(input, pos) = v)
    BY <2>2, Reads8
  <2> QED  BY <1>3, <1>a, <2>3 DEF GetU64, Holds, After
<1>4. CASE kind = "digest"
  <2>1. c = v /\ Len(c) = DigestSize
    BY <1>4 DEF Values, Put
  <2> HIDE DEF c
  <2> QED  BY <1>4, <1>a, <1>d, <2>1 DEF GetDigest, Holds, After, c
<1>5. CASE kind = "opaque"
  <2>1. v \in Seq(Byte) /\ Fits(Len(v)) /\ c = PutOpaque(v)
    BY <1>5 DEF Values, Put
  <2>2. /\ pos + Len(c) <= Len(input) =>
             /\ OpaqueError(input, pos) = "none"
             /\ OpaqueSize(input, pos) = Len(c)
             /\ Opaque(input, pos) = v
        /\ ~(pos + Len(c) <= Len(input)) => OpaqueError(input, pos) = "UnexpectedEof"
    BY <2>1, ReadsOpaque
  <2> QED  BY <1>5, <1>a, <2>2 DEF GetOpaque, After
<1>6. CASE kind = "keys"
  <2>1. v \in Seq({b \in Seq(Byte) : Len(b) = KeySize}) /\ Fits(Len(v) * KeySize)
        /\ c = PutOpaque(Body(v))
    BY <1>6 DEF Values, Put
  <2>2. Body(v) \in Seq(Byte) /\ Fits(Len(Body(v)))
        /\ Len(Body(v)) % KeySize = 0 /\ Keys(Body(v)) = v
    BY <2>1, ReadsKeys
  <2>3. /\ pos + Len(c) <= Len(input) =>
             /\ OpaqueError(input, pos) = "none"
             /\ OpaqueSize(input, pos) = Len(c)
             /\ Opaque(input, pos) = Body(v)
        /\ ~(pos + Len(c) <= Len(input)) => OpaqueError(input, pos) = "UnexpectedEof"
    BY <2>1, <2>2, ReadsOpaque
  <2> QED  BY <1>6, <1>a, <2>2, <2>3 DEF GetKeys, After
<1> QED  BY <1>1, <1>2, <1>3, <1>4, <1>5, <1>6 DEF FieldKinds, Plain

----------------------------------------------------------------------------
(* The layouts.                                                            *)

\* A layout that starts with a tag has no other field, and no tag stands in
\* another place.
LEMMA LayoutShapes ==
    ASSUME NEW m \in DOMAIN Layouts
    PROVE  /\ Layouts[m] \in Seq(FieldKinds) /\ Len(Layouts[m]) # 0
           /\ Layouts[m][1] \in Tags => Len(Layouts[m]) = 1
           /\ \A i \in 2 .. Len(Layouts[m]) : Layouts[m][i] \in Plain
<1> DEFINE Good(l) == /\ l \in Seq(FieldKinds) /\ Len(l) # 0
                      /\ l[1] \in Tags => Len(l) = 1
                      /\ \A i \in 2 .. Len(l) : l[i] \in Plain
<1>1. /\ Good(<<"u16", "opaque">>) /\ Good(<<"u16", "opaque", "u16", "opaque">>)
      /\ Good(<<"optional">>) /\ Good(<<"keys">>) /\ Good(<<"opaque">>)
      /\ Good(<<"request">>) /\ Good(<<"response">>)
      /\ Good(<<"opaque", "u64", "u64">>) /\ Good(<<"u8", "opaque">>)
      /\ Good(<<"digest", "digest", "opaque">>)
  BY DEF FieldKinds, Plain, Tags
<1>2. \/ Layouts[m] = <<"u16", "opaque">> \/ Layouts[m] = <<"u16", "opaque", "u16", "opaque">>
      \/ Layouts[m] = <<"optional">> \/ Layouts[m] = <<"keys">> \/ Layouts[m] = <<"opaque">>
      \/ Layouts[m] = <<"request">> \/ Layouts[m] = <<"response">>
      \/ Layouts[m] = <<"opaque", "u64", "u64">> \/ Layouts[m] = <<"u8", "opaque">>
      \/ Layouts[m] = <<"digest", "digest", "opaque">>
  <2>2. CASE m \in DOMAIN TransportLayouts
    BY <2>2 DEF Layouts, TransportLayouts, Typed
  <2>3. CASE m \notin DOMAIN TransportLayouts /\ m \in DOMAIN IhatLayouts
    BY <2>3 DEF Layouts, IhatLayouts
  <2>4. CASE m \notin DOMAIN TransportLayouts /\ m \notin DOMAIN IhatLayouts
    BY <2>4 DEF Layouts, ActLayouts
  <2> QED  BY <2>2, <2>3, <2>4
<1> HIDE DEF Good
<1>3. Good(Layouts[m])
  BY <1>1, <1>2
<1> QED  BY <1>3 DEF Good

LEMMA AfterShapes ==
    ASSUME NEW kind \in FieldKinds, NEW v
    PROVE  /\ After(kind, v) \in Seq(Plain)
           /\ kind \in Plain => After(kind, v) = <<>>
<1>1. /\ <<>> \in Seq(Plain) /\ <<"u16", "opaque">> \in Seq(Plain)
      /\ <<"opaque">> \in Seq(Plain) /\ <<"opaque", "opaque">> \in Seq(Plain)
  BY DEF Plain
<1> QED  BY <1>1 DEF After, Present, StepOf, Typed, FieldKinds, Plain, Tags

\* The kinds of an encodable message's fields: the first is that of its layout,
\* and what follows it is what the decoder then waits for.
LEMMA KindsFollow ==
    ASSUME NEW msg, NEW fs, Encodable(msg, fs)
    PROVE  /\ Len(fs) \in Nat \ {0}
           /\ Kinds(fs) \in Seq(FieldKinds) /\ Len(Kinds(fs)) = Len(fs)
           /\ Layouts[msg] # <<>> /\ Head(Layouts[msg]) = Kinds(fs)[1]
           /\ After(fs[1][1], fs[1][2]) \o Tail(Layouts[msg]) = Tail(Kinds(fs))
           /\ \A i \in 2 .. Len(fs) : Kinds(fs)[i] \in Plain
<1> DEFINE l == Layouts[msg]
           a == After(fs[1][1], fs[1][2])
           k == Kinds(fs)
           n == Len(fs)
<1>1. n \in Nat /\ k = l \o a /\ msg \in DOMAIN Layouts
  BY DEF Encodable
<1>2. k = [i \in 1 .. n |-> fs[i][1]]
  BY DEF Kinds
<1>3. /\ l \in Seq(FieldKinds) /\ Len(l) # 0
      /\ l[1] \in Tags => Len(l) = 1
      /\ \A i \in 2 .. Len(l) : l[i] \in Plain
  BY <1>1, LayoutShapes
<1> HIDE DEF l, k
<1>4. /\ Len(l) \in Nat /\ l # <<>> /\ Head(l) = l[1] /\ l[1] \in FieldKinds
      /\ Tail(l) \in Seq(FieldKinds) /\ Len(Tail(l)) = Len(l) - 1
  BY <1>3
<1>5. DOMAIN k = 1 .. n
  BY <1>2
<1>6. n # 0 /\ fs[1][1] = l[1] /\ k[1] = l[1]
  <2>1. CASE n = 0
    <3>1. k = <<>>
      BY <1>2, <2>1
    <3>2. Len(l \o a) = 0
      BY <1>1, <3>1
    <3> QED  BY <1>3, <1>4, <3>2
  <2>2. CASE n # 0
    <3>1. k[1] = fs[1][1]
      BY <1>1, <1>2, <2>2
    <3>2. (l \o a)[1] = l[1]
      BY <1>3, <1>4
    <3> QED  BY <1>1, <2>2, <3>1, <3>2
  <2> QED  BY <2>1, <2>2
<1>7. a \in Seq(Plain) /\ (l[1] \in Plain => a = <<>>)
  BY <1>4, <1>6, AfterShapes
<1> HIDE DEF a
<1>8. a \in Seq(FieldKinds) /\ Len(a) \in Nat
  BY <1>7, SeqMonotonic DEF FieldKinds
<1>9. /\ k \in Seq(FieldKinds) /\ Len(k) = Len(l) + Len(a)
      /\ \A i \in 1 .. Len(l) + Len(a) : k[i] = IF i <= Len(l) THEN l[i] ELSE a[i - Len(l)]
  BY <1>1, <1>3, <1>8, ConcatProperties
<1>10. Len(k) = n
  BY <1>1, <1>5, <1>9
<1>11. CASE l[1] \in Tags
  <2>1. Len(l) = 1 /\ Tail(l) = <<>>
    BY <1>3, <1>4, <1>11, EmptySeq
  <2>2. a \o Tail(l) = a
    BY <1>8, <2>1, ConcatEmptySeq
  <2>3. Tail(k) = a
    <3>1. k # <<>>
      BY <1>4, <1>8, <1>9, EmptySeq
    <3>2. /\ Tail(k) \in Seq(FieldKinds) /\ Len(Tail(k)) = Len(a)
          /\ \A i \in 1 .. Len(Tail(k)) : Tail(k)[i] = k[i + 1]
      BY <1>8, <1>9, <2>1, <3>1, HeadTailProperties
    <3>3. \A i \in 1 .. Len(a) : k[i + 1] = a[i]
      BY <1>8, <1>9, <2>1
    <3> DEFINE t == Tail(k)
    <3> HIDE DEF t
    <3>4. t \in Seq(FieldKinds) /\ Len(t) = Len(a) /\ \A i \in 1 .. Len(t) : t[i] = a[i]
      BY <3>2, <3>3 DEF t
    <3>5. t = a
      BY <1>8, <3>4, SeqEqual
    <3> QED  BY <3>5 DEF t
  <2>4. ASSUME NEW i \in 2 .. n PROVE k[i] \in Plain
    <3>1. i - 1 \in 1 .. Len(a) /\ i \in 1 .. Len(l) + Len(a) /\ ~(i <= Len(l))
      BY <1>1, <1>8, <1>9, <1>10, <2>1
    <3>2. k[i] = a[i - 1]
      BY <1>9, <2>1, <3>1
    <3>3. a[i - 1] \in Plain
      BY <1>7, <3>1, ElementOfSeq
    <3> QED  BY <3>2, <3>3
  <2> QED  BY <1>1, <1>4, <1>6, <1>9, <1>10, <2>2, <2>3, <2>4 DEF a, k, l
<1>12. CASE l[1] \in Plain
  <2>1. k = l /\ a \o Tail(l) = Tail(l)
    BY <1>1, <1>3, <1>4, <1>7, <1>12, ConcatEmptySeq
  <2> QED  BY <1>1, <1>3, <1>4, <1>6, <1>9, <1>10, <2>1 DEF a, k, l
<1> QED  BY <1>4, <1>11, <1>12 DEF FieldKinds

\* Where the fields' encodings end in the message's.
Chunks(fs) == [i \in 1 .. Len(fs) |-> Put(fs[i][1], fs[i][2])]

Ends(fs) ==
    CHOOSE f \in [0 .. Len(fs) -> Seq(Byte)] :
        /\ f[0] = <<>>
        /\ \A i \in 1 .. Len(fs) : f[i] = f[i - 1] \o Chunks(fs)[i]
        /\ f[Len(fs)] = Encode(fs)

LEMMA EndsOf ==
    ASSUME NEW msg, NEW fs, Encodable(msg, fs)
    PROVE  /\ Chunks(fs) \in [1 .. Len(fs) -> Seq(Byte)]
           /\ Ends(fs) \in [0 .. Len(fs) -> Seq(Byte)]
           /\ Ends(fs)[0] = <<>>
           /\ \A i \in 1 .. Len(fs) : Ends(fs)[i] = Ends(fs)[i - 1] \o Chunks(fs)[i]
           /\ Ends(fs)[Len(fs)] = Encode(fs)
<1> DEFINE n == Len(fs)
           c == Chunks(fs)
           IsEnds(f) == /\ f[0] = <<>>
                        /\ \A i \in 1 .. n : f[i] = f[i - 1] \o c[i]
                        /\ f[n] = Encode(fs)
<1>1. n \in Nat \ {0} /\ Kinds(fs) \in Seq(FieldKinds) /\ Len(Kinds(fs)) = n
  BY KindsFollow
<1>2. DOMAIN fs = 1 .. n
  BY DEF Encodable
<1>3. ASSUME NEW i \in 1 .. n PROVE Put(fs[i][1], fs[i][2]) \in Seq(Byte)
  <2>1. Kinds(fs)[i] \in FieldKinds
    BY <1>1, ElementOfSeq
  <2>2. Kinds(fs)[i] = fs[i][1]
    BY DEF Kinds
  <2>3. fs[i][2] \in Values(fs[i][1])
    BY DEF Encodable
  <2> QED  BY <2>1, <2>2, <2>3, PutIsBytes
<1>4. c \in [1 .. n -> Seq(Byte)]
  BY <1>3 DEF Chunks
<1>5. Encode(fs) = FlattenSeq(c)
  BY <1>2, Zenon DEF Encode, Chunks
<1> HIDE DEF n, c
<1>6. \E f \in [0 .. n -> Seq(Byte)] : IsEnds(f)
  BY <1>1, <1>4, <1>5, Flattened
<1>7. Ends(fs) = CHOOSE f \in [0 .. n -> Seq(Byte)] : IsEnds(f)
  BY Zenon DEF Ends, n, c
<1> HIDE DEF IsEnds
<1>8. Ends(fs) \in [0 .. n -> Seq(Byte)] /\ IsEnds(Ends(fs))
  BY <1>6, <1>7, Zenon
<1> QED  BY <1>4, <1>8 DEF IsEnds, n, c

\* Where a message's encoding stands, the next field's stands behind those
\* before it.
LEMMA NextChunk ==
    ASSUME NEW msg, NEW fs, Encodable(msg, fs), NEW n \in 0 .. Len(fs) - 1,
           NEW s \in Seq(Byte), Stands(s, 0, Encode(fs))
    PROVE  LET c == Put(fs[n + 1][1], fs[n + 1][2]) IN
           /\ c \in Seq(Byte)
           /\ Len(Ends(fs)[n]) \in Nat
           /\ Stands(s, Len(Ends(fs)[n]), c)
           /\ Len(Ends(fs)[n + 1]) = Len(Ends(fs)[n]) + Len(c)
           /\ Len(Ends(fs)[n + 1]) <= Len(Encode(fs))
<1> DEFINE f == Ends(fs)
           c == Chunks(fs)
           m == Len(fs)
<1>1. m \in Nat /\ n + 1 \in 1 .. m /\ (n + 1) - 1 = n /\ n \in 0 .. m /\ n + 1 \in 0 .. m
      /\ m \in 0 .. m
  BY KindsFollow
<1>2. /\ c \in [1 .. m -> Seq(Byte)] /\ f \in [0 .. m -> Seq(Byte)]
      /\ \A i \in 1 .. m : f[i] = f[i - 1] \o c[i]
      /\ f[m] = Encode(fs)
  BY EndsOf
<1>3. c[n + 1] = Put(fs[n + 1][1], fs[n + 1][2])
  BY <1>1 DEF Chunks
<1> HIDE DEF f, c
<1>4. /\ c[n + 1] \in Seq(Byte) /\ f[n] \in Seq(Byte) /\ f[n + 1] = f[n] \o c[n + 1]
      /\ f[n + 1] \in Seq(Byte) /\ f[m] \in Seq(Byte)
  <2>1. c[n + 1] \in Seq(Byte)
    BY <1>1, <1>2
  <2>2. f[n] \in Seq(Byte) /\ f[n + 1] \in Seq(Byte) /\ f[m] \in Seq(Byte)
    BY <1>1, <1>2
  <2>3. f[n + 1] = f[(n + 1) - 1] \o c[n + 1]
    BY <1>1, <1>2
  <2> QED  BY <1>1, <2>1, <2>2, <2>3
<1> HIDE DEF m
<1>5. /\ Len(f[n + 1]) <= Len(f[m])
      /\ \A k \in 1 .. Len(f[n + 1]) : f[m][k] = f[n + 1][k]
  BY <1>1, <1>2, StaysInFront
<1>6. Len(f[n + 1]) \in Nat /\ Len(f[m]) \in Nat
  BY <1>4, LenProperties
<1>7. Stands(s, 0, f[n + 1])
  <2>1. ASSUME NEW j \in 1 .. Len(f[n + 1]), 0 + j <= Len(s) PROVE s[0 + j] = f[n + 1][j]
    <3>1. j \in 1 .. Len(f[m])
      BY <1>5, <1>6
    <3> QED  BY <1>2, <1>5, <2>1, <3>1 DEF Stands
  <2> QED  BY <2>1 DEF Stands
<1>8. Stands(s, Len(f[n]), c[n + 1]) /\ Len(f[n]) \in Nat
  <2>1. Stands(s, 0 + Len(f[n]), c[n + 1])
    BY <1>4, <1>7, StandsParts
  <2>2. Len(f[n]) \in Nat /\ 0 + Len(f[n]) = Len(f[n])
    BY <1>4
  <2> QED  BY <2>1, <2>2
<1>9. Len(f[n + 1]) = Len(f[n]) + Len(c[n + 1])
  BY <1>4, ConcatProperties
<1> QED  BY <1>2, <1>3, <1>4, <1>5, <1>8, <1>9 DEF f

----------------------------------------------------------------------------
(* The decoder on a message's encoding.                                    *)

\* The input begins with the encoding, as far as it reaches.
Sent ==
    written # Nobody =>
        written \in Written /\ Stands(input, 0, Encode(written.fields))

\* The decoder has the first fields of the message, waits for the others, and
\* stands where the encoding of those ends.
Progress ==
    written # Nobody /\ status = "decoding" =>
        LET fs == written.fields
            n == Len(fields) IN
        /\ n \in 0 .. Len(fs)
        /\ fields = SubSeq(fs, 1, n)
        /\ todo = IF n = 0 THEN Layouts[written.msg] ELSE SubSeq(Kinds(fs), n + 1, Len(fs))
        /\ pos = Len(Ends(fs)[n])

FramedInv == Inv /\ Sent /\ Progress /\ Framed

LEMMA InitFramed == Init => FramedInv
<1> SUFFICES ASSUME Init PROVE FramedInv
  OBVIOUS
<1>1. Inv
  BY InitInv
<1>2. CASE written = Nobody
  BY <1>1, <1>2 DEF FramedInv, Sent, Progress, Framed
<1>3. CASE written # Nobody
  <2> DEFINE fs == written.fields
             whole == Encode(fs)
  <2>1. /\ written \in Written /\ todo = Layouts[written.msg]
        /\ (\E n \in 0 .. Len(whole) : input = SubSeq(whole, 1, n)) \/ input = Append(whole, 0)
        /\ pos = 0 /\ fields = <<>> /\ status = "decoding"
    BY <1>3 DEF Init
  <2>2. Encodable(written.msg, fs)
    BY <2>1, WrittenAssumption
  <2>3. /\ Len(fs) \in Nat /\ Ends(fs)[0] = <<>> /\ Ends(fs)[Len(fs)] = whole
        /\ Ends(fs) \in [0 .. Len(fs) -> Seq(Byte)]
    BY <2>2, KindsFollow, EndsOf
  <2>4. whole \in Seq(Byte)
    <3>1. Len(fs) \in 0 .. Len(fs)
      BY <2>3
    <3> QED  BY <2>3, <3>1
  <2> HIDE DEF whole
  <2>5. Stands(input, 0, whole)
    <3>1. CASE input = Append(whole, 0)
      <4>1. 0 \in Byte
        BY WireAssumption DEF Byte, Octet
      <4>2. \A i \in 1 .. Len(whole) : input[i] = whole[i]
        BY <2>4, <3>1, <4>1, AppendProperties
      <4>3. \A i \in 1 .. Len(whole) : 0 + i = i
        BY <2>4
      <4> QED  BY <4>2, <4>3 DEF Stands
    <3>2. ASSUME NEW n \in 0 .. Len(whole), input = SubSeq(whole, 1, n) PROVE Stands(input, 0, whole)
      <4>0. Len(whole) \in Nat
        BY <2>4
      <4>1. \A i \in 1 .. n : whole[i] \in Byte
        <5>1. \A i \in 1 .. n : i \in 1 .. Len(whole)
          BY <4>0
        <5> QED  BY <2>4, <5>1, ElementOfSeq
      <4>2. /\ Len(input) = IF 1 <= n THEN n - 1 + 1 ELSE 0
            /\ \A i \in 1 .. n - 1 + 1 : input[i] = whole[1 + i - 1]
        BY <3>2, <4>0, <4>1, SubSeqProperties
      <4>3. ASSUME NEW j \in 1 .. Len(whole), 0 + j <= Len(input) PROVE input[0 + j] = whole[j]
        <5>1. j \in 1 .. n - 1 + 1 /\ 1 + j - 1 = j /\ 0 + j = j
          BY <4>0, <4>2, <4>3
        <5> QED  BY <4>2, <5>1
      <4> QED  BY <4>3 DEF Stands
    <3> QED  BY <2>1, <3>1, <3>2
  <2>6. Len(fields) = 0 /\ fields = SubSeq(fs, 1, 0) /\ Len(Ends(fs)[0]) = 0
    <3>1. SubSeq(fs, 1, 0) = <<>>
      BY SubSeqEmpty
    <3> QED  BY <2>1, <2>3, <3>1
  <2>7. Progress
    BY <2>1, <2>3, <2>6 DEF Progress
  <2>8. Sent
    BY <2>1, <2>5 DEF Sent, whole
  <2> QED  BY <1>1, <2>1, <2>7, <2>8 DEF FramedInv, Framed
<1> QED  BY <1>2, <1>3

\* With a field to go, the decoder waits for that of the message.
LEMMA AwaitsNext ==
    ASSUME FramedInv, status = "decoding", written # Nobody, todo # <<>>
    PROVE  LET fs == written.fields
               n == Len(fields) IN
           /\ n \in 0 .. Len(fs) - 1
           /\ n + 1 \in 1 .. Len(fs)
           /\ Head(todo) = fs[n + 1][1]
           /\ fs[n + 1][1] \in FieldKinds
           /\ fs[n + 1][2] \in Values(fs[n + 1][1])
           /\ fs[n + 1] = <<fs[n + 1][1], fs[n + 1][2]>>
           /\ After(fs[n + 1][1], fs[n + 1][2]) \o Tail(todo)
                = SubSeq(Kinds(fs), n + 2, Len(fs))
<1> DEFINE fs == written.fields
           n == Len(fields)
           m == Len(fs)
           k == Kinds(fs)
<1>1. Encodable(written.msg, fs)
  BY WrittenAssumption DEF FramedInv, Sent
<1>2. /\ m \in Nat \ {0} /\ k \in Seq(FieldKinds) /\ Len(k) = m
      /\ Layouts[written.msg] # <<>> /\ Head(Layouts[written.msg]) = k[1]
      /\ After(fs[1][1], fs[1][2]) \o Tail(Layouts[written.msg]) = Tail(k)
      /\ \A i \in 2 .. m : k[i] \in Plain
  BY <1>1, KindsFollow
<1>3. /\ n \in 0 .. m
      /\ todo = IF n = 0 THEN Layouts[written.msg] ELSE SubSeq(k, n + 1, m)
  BY DEF FramedInv, Progress
<1>4. /\ \A i \in 1 .. m : k[i] = fs[i][1] /\ fs[i][2] \in Values(fs[i][1])
      /\ fs = [i \in 1 .. m |-> <<fs[i][1], fs[i][2]>>]
  BY <1>1 DEF Encodable, Kinds
<1>5. ASSUME NEW i \in 1 .. m PROVE fs[i] = <<fs[i][1], fs[i][2]>>
  <2> DEFINE g == [j \in 1 .. m |-> <<fs[j][1], fs[j][2]>>]
  <2>1. g[i] = <<fs[i][1], fs[i][2]>>
    OBVIOUS
  <2>2. fs = g
    BY <1>4
  <2> HIDE DEF g
  <2> QED  BY <2>1, <2>2
<1> HIDE DEF k, n, m
<1>6. CASE n = 0
  <2>1. 0 \in 0 .. m - 1 /\ 0 + 1 \in 1 .. m /\ 0 + 2 = 2 /\ 0 + 1 = 1
    BY <1>2
  <2>2. todo = Layouts[written.msg]
    BY <1>3, <1>6
  <2>3. Tail(k) = SubSeq(k, 2, m)
    <3>1. k # <<>>
      BY <1>2
    <3> QED  BY <1>2, <3>1, TailIsSubSeq
  <2>4. k[1] \in FieldKinds
    BY <1>2, <2>1
  <2> QED  BY <1>2, <1>4, <1>5, <1>6, <2>1, <2>2, <2>3, <2>4 DEF k, n, m
<1>7. CASE n # 0
  <2>1. todo = SubSeq(k, n + 1, m)
    BY <1>3, <1>7
  <2>2. n # m
    <3>1. SUFFICES ASSUME n = m PROVE FALSE
      OBVIOUS
    <3>2. m + 1 \in Int /\ m \in Int /\ m < m + 1
      BY <1>2
    <3>3. todo = <<>>
      BY <2>1, <3>1, <3>2, SubSeqEmpty
    <3> QED  BY <3>3
  <2>3. /\ n \in 0 .. m - 1 /\ n + 1 \in 2 .. m /\ n + 1 \in 1 .. m /\ m \in n + 1 .. m
        /\ (n + 1) + 1 = n + 2
    BY <1>2, <1>3, <1>7, <2>2
  <2>4. Head(todo) = k[n + 1] /\ Tail(todo) = SubSeq(k, n + 2, m)
    BY <1>2, <2>1, <2>3, HeadTailOfSubSeq
  <2>5. k[n + 1] \in Plain
    BY <1>2, <2>3
  <2>6. After(k[n + 1], fs[n + 1][2]) = <<>>
    <3>1. k[n + 1] \in FieldKinds
      BY <2>5 DEF FieldKinds
    <3> QED  BY <2>5, <3>1, AfterShapes
  <2>7. SubSeq(k, n + 2, m) \in Seq(FieldKinds)
    <3>1. \A i \in n + 2 .. m : k[i] \in FieldKinds
      <4>1. \A i \in n + 2 .. m : i \in 1 .. Len(k)
        BY <1>2, <2>3
      <4> QED  BY <1>2, <4>1, ElementOfSeq
    <3>2. n + 2 \in Int /\ m \in Int
      BY <1>2, <2>3
    <3> QED  BY <3>1, <3>2, SubSeqProperties
  <2>8. After(k[n + 1], fs[n + 1][2]) \o Tail(todo) = SubSeq(k, n + 2, m)
    BY <2>4, <2>6, <2>7, ConcatEmptySeq
  <2>9. k[n + 1] = fs[n + 1][1]
    BY <1>4, <2>3
  <2> QED  BY <1>4, <1>5, <2>3, <2>4, <2>5, <2>8, <2>9 DEF k, n, m, FieldKinds
<1> QED  BY <1>6, <1>7

\* One field more.
LEMMA AcceptFramed ==
    ASSUME FramedInv, Next, status = "decoding", written # Nobody, todo # <<>>
    PROVE  Sent' /\ Progress' /\ Framed'
<1> DEFINE fs == written.fields
           n == Len(fields)
           m == Len(fs)
           kind == fs[n + 1][1]
           v == fs[n + 1][2]
           c == Put(kind, v)
           S == {fs[i] : i \in 1 .. m}
<1>1. /\ n \in 0 .. m - 1 /\ n + 1 \in 1 .. m
      /\ Head(todo) = kind /\ kind \in FieldKinds /\ v \in Values(kind)
      /\ fs[n + 1] = <<kind, v>>
      /\ After(kind, v) \o Tail(todo) = SubSeq(Kinds(fs), n + 2, m)
  BY AwaitsNext
<1>2. /\ Encodable(written.msg, fs) /\ Stands(input, 0, Encode(fs))
      /\ input \in Seq(Byte) /\ pos \in Nat /\ Len(input) \in Nat
  <2>1. written \in Written /\ Stands(input, 0, Encode(fs))
    BY DEF FramedInv, Sent
  <2>2. input \in Seq(Byte) /\ pos \in 0 .. Len(input)
    BY DEF FramedInv, Inv, TypeOK
  <2> QED  BY <2>1, <2>2, WrittenAssumption
<1>3. /\ c \in Seq(Byte) /\ Stands(input, pos, c)
      /\ Len(Ends(fs)[n + 1]) = pos + Len(c)
      /\ Len(Ends(fs)[n + 1]) <= Len(Encode(fs))
  <2>1. pos = Len(Ends(fs)[n])
    BY DEF FramedInv, Progress
  <2> QED  BY <1>1, <1>2, <2>1, NextChunk
<1>4. Awaits(kind)
  BY <1>1 DEF Awaits
<1>5. /\ pos + Len(c) <= Len(input) => Accept(v, Len(c), After(kind, v))
      /\ ~(pos + Len(c) <= Len(input)) => Stop("UnexpectedEof")
  BY <1>1, <1>2, <1>3, <1>4, Decides
<1>6. Sent'
  <2>1. written' = written /\ input' = input
    BY <1>5 DEF Accept, Stop
  <2> QED  BY <2>1 DEF Sent, FramedInv
<1>7. CASE pos + Len(c) <= Len(input)
  <2>1. /\ pos' = pos + Len(c) /\ todo' = After(kind, v) \o Tail(todo)
        /\ fields' = Append(fields, <<kind, v>>)
        /\ written' = written /\ status' = "decoding"
    BY <1>1, <1>5, <1>7 DEF Accept
  <2>2. fields' = SubSeq(fs, 1, n + 1) /\ Len(fields') = n + 1
    <3>1. m \in Nat /\ fs \in Seq(S) /\ n \in Nat /\ n + 1 \in 1 .. m
      <4>1. m \in Nat /\ fs = [i \in 1 .. m |-> <<fs[i][1], fs[i][2]>>]
        BY <1>2 DEF Encodable
      <4>2. DOMAIN fs = 1 .. m /\ \A i \in 1 .. m : fs[i] \in S
        BY <4>1
      <4>3. fs = [i \in 1 .. m |-> fs[i]]
        BY <4>1
      <4> HIDE DEF S
      <4>4. fs \in Seq(S)
        BY <4>1, <4>2, <4>3
      <4> QED  BY <1>1, <4>1, <4>4
    <3>2. fields = SubSeq(fs, 1, n)
      BY DEF FramedInv, Progress
    <3> HIDE DEF S
    <3>3. \A i \in 1 .. m : fs[i] \in S
      BY <3>1, ElementOfSeq
    <3>4. fields \in Seq(S)
      <4>1. \A i \in 1 .. n : fs[i] \in S
        BY <1>1, <3>1, <3>3
      <4> QED  BY <3>1, <3>2, <4>1, SubSeqProperties
    <3>5. SubSeq(fs, 1, n + 1) = SubSeq(fs, 1, (n + 1) - 1) \o <<fs[n + 1]>>
      <4>1. 1 \in 1 .. m /\ n + 1 \in 1 .. m
        BY <3>1
      <4> QED  BY <3>1, <4>1, SubSeqRecursiveSecond
    <3>6. Append(fields, fs[n + 1]) = fields \o <<fs[n + 1]>>
      BY <3>1, <3>3, <3>4, AppendIsConcat
    <3>7. Len(Append(fields, fs[n + 1])) = n + 1
      BY <3>1, <3>3, <3>4, AppendProperties
    <3>8. (n + 1) - 1 = n
      BY <3>1
    <3> QED  BY <1>1, <2>1, <3>2, <3>5, <3>6, <3>7, <3>8
  <2>3. /\ n + 1 \in 0 .. m /\ n + 1 # 0 /\ (n + 1) + 1 = n + 2
    BY <1>1
  <2> HIDE DEF n, m, fs, c, kind, v
  <2>4. Progress'
    BY <1>1, <1>3, <2>1, <2>2, <2>3 DEF Progress, fs, m
  <2>5. Framed'
    BY <2>1 DEF Framed
  <2> QED  BY <1>6, <2>4, <2>5
<1>8. CASE ~(pos + Len(c) <= Len(input))
  <2>1. status' = "UnexpectedEof" /\ input' = input /\ written' = written
    BY <1>5, <1>8 DEF Stop
  <2>2. Len(input) < Len(Encode(fs))
    <3>1. Len(Ends(fs)[n + 1]) \in Nat /\ Len(Encode(fs)) \in Nat
      <4>1. /\ Ends(fs) \in [0 .. m -> Seq(Byte)] /\ Ends(fs)[m] = Encode(fs)
            /\ n + 1 \in 0 .. m /\ m \in 0 .. m
        <5>1. m \in Nat
          BY <1>2, KindsFollow
        <5>2. n + 1 \in 0 .. m /\ m \in 0 .. m
          <6> HIDE DEF n, m
          <6> QED  BY <1>1, <5>1
        <5>3. Ends(fs) \in [0 .. m -> Seq(Byte)] /\ Ends(fs)[m] = Encode(fs)
          BY <1>2, EndsOf
        <5> QED  BY <5>2, <5>3
      <4> QED  BY <4>1, LenProperties
    <3> QED  BY <1>2, <1>3, <1>8, <3>1
  <2> QED  BY <1>6, <2>1, <2>2 DEF Progress, Framed
<1> QED  BY <1>7, <1>8

\* The end.
LEMMA FinishFramed ==
    ASSUME FramedInv, Finish, written # Nobody
    PROVE  Sent' /\ Progress' /\ Framed'
<1> DEFINE fs == written.fields
           n == Len(fields)
           m == Len(fs)
<1>1. /\ status = "decoding" /\ todo = <<>>
      /\ status' = (IF pos = Len(input) THEN "ok" ELSE "TrailingBytes")
      /\ UNCHANGED <<input, written, fields>>
  BY DEF Finish, Stop
<1>2. /\ Encodable(written.msg, fs) /\ input \in Seq(Byte) /\ pos \in 0 .. Len(input)
  <2>1. written \in Written
    BY DEF FramedInv, Sent
  <2> QED  BY <2>1, WrittenAssumption DEF FramedInv, Inv, TypeOK
<1>3. /\ n \in 0 .. m /\ fields = SubSeq(fs, 1, n) /\ pos = Len(Ends(fs)[n])
      /\ todo = IF n = 0 THEN Layouts[written.msg] ELSE SubSeq(Kinds(fs), n + 1, m)
  BY <1>1 DEF FramedInv, Progress
<1>4. /\ m \in Nat /\ Kinds(fs) \in Seq(FieldKinds) /\ Len(Kinds(fs)) = m
      /\ Layouts[written.msg] # <<>> /\ Ends(fs)[m] = Encode(fs)
  BY <1>2, KindsFollow, EndsOf
<1>5. n = m
  <2>1. SUFFICES ASSUME n # m PROVE FALSE
    OBVIOUS
  <2>2. n # 0 /\ todo = SubSeq(Kinds(fs), n + 1, m)
    BY <1>1, <1>3, <1>4
  <2>3. n + 1 \in 1 .. m /\ n + 1 <= m /\ n + 1 \in Int /\ m \in Int
    BY <1>3, <1>4, <2>1, <2>2
  <2>4. \A i \in n + 1 .. m : Kinds(fs)[i] \in FieldKinds
    <3>1. \A i \in n + 1 .. m : i \in 1 .. Len(Kinds(fs))
      BY <1>4, <2>3
    <3> QED  BY <1>4, <3>1, ElementOfSeq
  <2>5. Len(todo) = m - (n + 1) + 1
    BY <2>2, <2>3, <2>4, SubSeqProperties
  <2>6. Len(todo) = 0
    BY <1>1
  <2> QED  BY <2>3, <2>5, <2>6
<1>6. pos = Len(Encode(fs)) /\ fields = fs
  <2>1. SubSeq(fs, 1, m) = fs
    <3> DEFINE S == {fs[i] : i \in 1 .. m}
    <3>1. m \in Nat /\ fs = [i \in 1 .. m |-> <<fs[i][1], fs[i][2]>>]
      BY <1>2 DEF Encodable
    <3>2. DOMAIN fs = 1 .. m /\ \A i \in 1 .. m : fs[i] \in S
      BY <3>1
    <3>3. fs = [i \in 1 .. m |-> fs[i]]
      BY <3>1
    <3> HIDE DEF S
    <3>4. fs \in Seq(S)
      BY <3>1, <3>2, <3>3
    <3> QED  BY <3>4, SubSeqFull
  <2> QED  BY <1>3, <1>4, <1>5, <2>1
<1>7. Len(input) \in Nat /\ pos \in Nat /\ pos <= Len(input)
  BY <1>2
<1>8. Sent' /\ Progress'
  BY <1>1 DEF FramedInv, Sent, Progress
<1>9. Framed'
  BY <1>1, <1>6, <1>7 DEF Framed
<1> QED  BY <1>8, <1>9

LEMMA NextFramed == FramedInv /\ [Next]_vars => FramedInv'
<1> SUFFICES ASSUME FramedInv, [Next]_vars PROVE FramedInv'
  OBVIOUS
<1>1. Inv'
  BY NextInv DEF FramedInv
<1>2. CASE UNCHANGED vars
  BY <1>1, <1>2 DEF FramedInv, Sent, Progress, Framed, vars
<1>3. CASE Next
  <2>1. status = "decoding" /\ (todo # <<>> \/ Finish) /\ written' = written
    BY <1>3 DEF Next, Awaits, GetU8, GetU16, GetU64, GetDigest, GetOpaque, GetKeys,
                GetStep, GetOptional, Finish, Accept, Stop
  <2>2. CASE written = Nobody
    BY <1>1, <2>1, <2>2 DEF FramedInv, Sent, Progress, Framed
  <2>3. CASE written # Nobody
    BY <1>1, <1>3, <2>1, <2>3, AcceptFramed, FinishFramed DEF FramedInv
  <2> QED  BY <2>2, <2>3
<1> QED  BY <1>2, <1>3

\* What encode writes, from_bytes reads: a message arrives as it was sent, and
\* cut short or with something behind it, it is refused for that (wire.rs:55).
THEOREM RoundTrip == Spec => []Framed
<1>1. FramedInv => Framed
  BY DEF FramedInv
<1> QED  BY <1>1, InitFramed, NextFramed, PTL DEF Spec
=============================================================================
