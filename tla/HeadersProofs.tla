--------------------------- MODULE HeadersProofs ---------------------------
(***************************************************************************)
(* Theorems of Headers: for any words, offers, values and bounds, what a   *)
(* server offers is what the Client finds and chooses, and what the two    *)
(* then send each other is understood.                                     *)
(*                                                                         *)
(* First what formatting, joining, splitting and trimming do to texts,     *)
(* position by position: which positions of a joined value begin a segment *)
(* (TokensJoined), which texts parse_params accepts (Parses), what         *)
(* get_param reads off a challenge whatever follows it (Reads).  Then the  *)
(* values of a response, taken apart (ValueFacts, Stretches), and one turn *)
(* of the loop: what it cuts off, pushes and leaves (Cut, SegmentFacts,    *)
(* Turn).                                                                  *)
(*                                                                         *)
(* The invariant (IInv) says which challenge the parser is at: what is     *)
(* left of the value is the value from that challenge on, the segments     *)
(* counted are the challenges of ours before it in its value, and those    *)
(* found are the survivors before it, each at its place (At).  The list of *)
(* those found alone would not be inductive: without what is left nothing  *)
(* is known of the next segment.  Of the Client it says that what it has   *)
(* chosen is the first of its type among those considered (IsFirst).       *)
(*                                                                         *)
(* The answers have an invariant of their own (AnswerInv): what a role     *)
(* wrote has been read as it was meant, and what has been read of a header *)
(* that others wrote, that header carries (Carried): its pieces lie within *)
(* the text, each where the parser cut it (Within).                        *)
(***************************************************************************)
EXTENDS Headers, NaturalLemmas, SequenceTheorems, TLAPS

----------------------------------------------------------------------------
(* Two texts in one header value.                                          *)

Texts == Seq(Symbols)

\* Two values made one.
Joined(a, b) == a \o (<<Comma, Space>> \o b)

\* The marks the formatting and the parsers look for are symbols, and differ.
LEMMA SymbolFacts ==
    /\ Scheme \in Symbols /\ Space \in Symbols /\ Comma \in Symbols /\ Equals \in Symbols
    /\ Quote \in Symbols
    /\ Scheme \notin {Space, Comma, Equals, Quote}
    /\ Space \notin {Comma, Equals, Quote} /\ Comma \notin {Equals, Quote} /\ Equals # Quote
BY DEF Scheme, Space, Comma, Equals, Quote, Symbols

\* An intermediary that joins two values puts a comma and a space between them.
LEMMA JoinedFacts ==
    ASSUME NEW a \in Texts, NEW b \in Texts
    PROVE  /\ Joined(a, b) \in Texts
           /\ Len(a) \in Nat /\ Len(b) \in Nat
           /\ Len(Joined(a, b)) = Len(a) + 2 + Len(b)
           /\ \A i \in 1 .. Len(a) : Joined(a, b)[i] = a[i]
           /\ Joined(a, b)[Len(a) + 1] = Comma /\ Joined(a, b)[Len(a) + 2] = Space
           /\ \A i \in 1 .. Len(b) : Joined(a, b)[Len(a) + 2 + i] = b[i]
<1> DEFINE s == <<Comma, Space>>
           c == s \o b
<1>1. s \in Texts /\ Len(s) = 2 /\ s[1] = Comma /\ s[2] = Space
  BY SymbolFacts DEF Texts
<1> HIDE DEF s
<1>2. /\ c \in Texts /\ Len(c) = 2 + Len(b)
      /\ \A i \in 1 .. 2 + Len(b) : c[i] = IF i <= 2 THEN s[i] ELSE b[i - 2]
  <2>1. /\ s \o b \in Texts /\ Len(s \o b) = Len(s) + Len(b)
        /\ \A i \in 1 .. Len(s) + Len(b) :
              (s \o b)[i] = IF i <= Len(s) THEN s[i] ELSE b[i - Len(s)]
    BY <1>1, ConcatProperties DEF Texts
  <2> QED  BY <1>1, <2>1
<1>3. /\ Len(a) \in Nat /\ Len(b) \in Nat
  BY LenProperties DEF Texts
<1> HIDE DEF c
<1>4. /\ a \o c \in Texts /\ Len(a \o c) = Len(a) + Len(c)
      /\ \A i \in 1 .. Len(a) + Len(c) : (a \o c)[i] =
            IF i <= Len(a) THEN a[i] ELSE c[i - Len(a)]
  BY <1>2, ConcatProperties DEF Texts
<1>5. Joined(a, b) = a \o c
  BY DEF Joined, c, s
<1>6. \A i \in 1 .. 2 + Len(b) : (a \o c)[Len(a) + i] = c[i]
  <2> TAKE i \in 1 .. 2 + Len(b)
  <2>1. Len(a) + i \in 1 .. Len(a) + Len(c) /\ ~(Len(a) + i <= Len(a))
        /\ Len(a) + i - Len(a) = i
    BY <1>2, <1>3
  <2> QED  BY <1>4, <2>1
<1>7. (a \o c)[Len(a) + 1] = Comma /\ (a \o c)[Len(a) + 2] = Space
  BY <1>1, <1>2, <1>3, <1>6
<1>8. \A i \in 1 .. Len(b) : (a \o c)[Len(a) + 2 + i] = b[i]
  <2> TAKE i \in 1 .. Len(b)
  <2>1. 2 + i \in 1 .. 2 + Len(b) /\ ~(2 + i <= 2) /\ (2 + i) - 2 = i
        /\ Len(a) + (2 + i) = Len(a) + 2 + i
    BY <1>3
  <2> QED  BY <1>2, <1>6, <2>1
<1>9. \A i \in 1 .. Len(a) : i \in 1 .. Len(a) + Len(c) /\ i <= Len(a)
  BY <1>2, <1>3
<1> QED  BY <1>2, <1>3, <1>4, <1>5, <1>7, <1>8, <1>9

\* The condition for a scheme token.
Leads(t, i) == \E c \in 0 .. i - 1 : /\ c # 0 => t[c] = Comma
                                     /\ \A j \in c + 1 .. i - 1 : t[j] = Space
IsToken(t, i) == t[i] = Scheme /\ i < Len(t) /\ t[i + 1] = Space /\ Leads(t, i)

\* find_scheme_token stops in a joined value where it stops in its two halves.
LEMMA TokensJoined ==
    ASSUME NEW a \in Texts, NEW b \in Texts
    PROVE  SchemeTokens(Joined(a, b)) =
               SchemeTokens(a) \union {Len(a) + 2 + j : j \in SchemeTokens(b)}
<1> DEFINE s == Joined(a, b)
           n == Len(a)
<1>1. /\ s \in Texts /\ n \in Nat /\ Len(b) \in Nat /\ Len(s) = n + 2 + Len(b)
      /\ \A i \in 1 .. n : s[i] = a[i]
      /\ s[n + 1] = Comma /\ s[n + 2] = Space
      /\ \A i \in 1 .. Len(b) : s[n + 2 + i] = b[i]
  BY JoinedFacts
<1>2. \A t \in Texts : DOMAIN t = 1 .. Len(t) /\ SchemeTokens(t) = {i \in 1 .. Len(t) : IsToken(t, i)}
  BY LenProperties DEF Texts, SchemeTokens, IsToken, Leads
<1> HIDE DEF s, n
<1>3. ASSUME NEW i \in 1 .. n PROVE IsToken(s, i) <=> IsToken(a, i)
  <2>1. \A j \in 0 .. i - 1 : j # 0 => s[j] = a[j]
    BY <1>1
  <2>2. s[i] = a[i] /\ (i < n => s[i + 1] = a[i + 1]) /\ (i = n => s[i + 1] = Comma)
    BY <1>1
  <2>3. Len(a) = n
    BY DEF n
  <2> QED  BY <1>1, <2>1, <2>2, <2>3, SymbolFacts DEF IsToken, Leads
<1>4. ~IsToken(s, n + 1) /\ ~IsToken(s, n + 2)
  BY <1>1, SymbolFacts DEF IsToken
<1>5. ASSUME NEW i \in 1 .. Len(b) PROVE IsToken(s, n + 2 + i) <=> IsToken(b, i)
  <2>1. s[n + 2 + i] = b[i] /\ (n + 2 + i < Len(s) <=> i < Len(b))
        /\ (i < Len(b) => s[n + 2 + i + 1] = b[i + 1])
    <3>1. i < Len(b) => i + 1 \in 1 .. Len(b) /\ n + 2 + (i + 1) = n + 2 + i + 1
      BY <1>1
    <3> QED  BY <1>1, <3>1
  <2>m. PICK m : m = n + 2 + i
    OBVIOUS
  <2>2. ASSUME Leads(s, m) PROVE Leads(b, i)
    <3>p. PICK c \in 0 .. m - 1 : /\ c # 0 => s[c] = Comma
                                  /\ \A j \in c + 1 .. m - 1 : s[j] = Space
      BY <2>2 DEF Leads
    <3>1. c >= n + 1 /\ c \in 0 .. n + 2 + i - 1
      <4>1. SUFFICES ASSUME c < n + 1 PROVE FALSE
        BY <1>1, <2>m
      <4>2. n + 1 \in c + 1 .. m - 1
        BY <1>1, <2>m, <4>1
      <4> QED  BY <1>1, <3>p, <4>2, SymbolFacts
    <3> DEFINE d == IF c > n + 2 THEN c - (n + 2) ELSE 0
    <3>2. d \in 0 .. i - 1 /\ (d # 0 => c = n + 2 + d /\ d \in 1 .. Len(b)) /\ n + 2 + d >= c
      BY <1>1, <3>1
    <3> HIDE DEF d
    <3>3. \A j \in d + 1 .. i - 1 : j \in 1 .. Len(b) /\ n + 2 + j \in c + 1 .. m - 1
      BY <1>1, <2>m, <3>1, <3>2
    <3>4. \A j \in d + 1 .. i - 1 : b[j] = Space
      BY <1>1, <3>p, <3>3
    <3>5. d # 0 => b[d] = Comma
      BY <1>1, <3>p, <3>2
    <3> QED  BY <3>2, <3>4, <3>5 DEF Leads
  <2>3. ASSUME Leads(b, i) PROVE Leads(s, m)
    <3>p. PICK d \in 0 .. i - 1 : /\ d # 0 => b[d] = Comma
                                  /\ \A j \in d + 1 .. i - 1 : b[j] = Space
      BY <2>3 DEF Leads
    <3> DEFINE c == IF d = 0 THEN n + 1 ELSE n + 2 + d
    <3>1. c \in 1 .. m - 1 /\ (d # 0 => d \in 1 .. Len(b))
      BY <1>1, <2>m
    <3>2. s[c] = Comma
      BY <1>1, <3>p, <3>1
    <3>3. ASSUME NEW j \in c + 1 .. m - 1 PROVE s[j] = Space
      <4>1. CASE j = n + 2
        BY <1>1, <4>1
      <4>2. CASE j # n + 2
        <5>1. j - (n + 2) \in d + 1 .. i - 1 /\ j - (n + 2) \in 1 .. Len(b)
              /\ j = n + 2 + (j - (n + 2))
          BY <1>1, <2>m, <3>1, <4>2
        <5> QED  BY <1>1, <3>p, <5>1
      <4> QED  BY <4>1, <4>2
    <3> HIDE DEF c
    <3> QED  BY <3>1, <3>2, <3>3 DEF Leads
  <2>4. Leads(s, n + 2 + i) <=> Leads(b, i)
    BY <2>2, <2>3, <2>m
  <2> QED  BY <2>1, <2>4 DEF IsToken
<1>n. n \in Nat /\ Len(b) \in Nat
  BY <1>1
<1>6. a \in Texts /\ b \in Texts /\ Len(a) = n
  BY DEF n
<1>7. \A i \in 1 .. n + 2 + Len(b) : \/ i \in 1 .. n \/ i = n + 1 \/ i = n + 2
                                     \/ \E j \in 1 .. Len(b) : i = n + 2 + j
  <2> TAKE i \in 1 .. n + 2 + Len(b)
  <2>1. i > n + 2 => i - (n + 2) \in 1 .. Len(b) /\ i = n + 2 + (i - (n + 2))
    BY <1>n
  <2> QED  BY <1>n, <2>1
<1>8. \A i \in 1 .. n : i \in 1 .. n + 2 + Len(b)
  BY <1>n
<1>9. \A i \in 1 .. Len(b) : n + 2 + i \in 1 .. n + 2 + Len(b)
  BY <1>n
<1>10. SchemeTokens(s) = SchemeTokens(a) \union {n + 2 + j : j \in SchemeTokens(b)}
  <2>1. ASSUME NEW i, i \in SchemeTokens(s)
        PROVE  i \in SchemeTokens(a) \union {n + 2 + j : j \in SchemeTokens(b)}
    <3>1. i \in 1 .. n + 2 + Len(b) /\ IsToken(s, i)
      BY <2>1, <1>1, <1>2
    <3>2. CASE i \in 1 .. n
      BY <1>2, <1>3, <1>6, <3>1, <3>2
    <3>3. CASE i \notin 1 .. n
      <4>1. PICK j \in 1 .. Len(b) : i = n + 2 + j
        BY <1>4, <1>7, <3>1, <3>3
      <4>2. j \in SchemeTokens(b)
        BY <1>2, <1>5, <1>6, <3>1, <4>1
      <4> QED  BY <4>1, <4>2
    <3> QED  BY <3>2, <3>3
  <2>2. ASSUME NEW i, i \in SchemeTokens(a) PROVE i \in SchemeTokens(s)
    BY <2>2, <1>1, <1>2, <1>3, <1>6, <1>8
  <2>3. ASSUME NEW j, j \in SchemeTokens(b) PROVE n + 2 + j \in SchemeTokens(s)
    BY <2>3, <1>1, <1>2, <1>5, <1>6, <1>9
  <2> QED  BY <2>1, <2>2, <2>3
<1> QED  BY <1>10 DEF s, n

----------------------------------------------------------------------------
(* Parts and parameters.                                                   *)

\* What Min chooses.
LEMMA Least ==
    ASSUME NEW S, S \subseteq Nat, S # {}
    PROVE  Min(S) \in S /\ \A j \in S : Min(S) <= j
BY LeastExists DEF Min

\* What Max chooses.
LEMMA Greatest ==
    ASSUME NEW n \in Nat, NEW S, S \subseteq 0 .. n, S # {}
    PROVE  Max(S) \in S /\ \A j \in S : Max(S) >= j
<1> DEFINE T == {n - i : i \in S}
<1>0. \A i \in S : i \in Nat /\ n - i \in Nat
  <2> TAKE i \in S
  <2>1. i \in 0 .. n
    OBVIOUS
  <2> QED  BY <2>1
<1>1. T \subseteq Nat /\ T # {}
  <2>1. ASSUME NEW k \in T PROVE k \in Nat
    BY <1>0
  <2>2. PICK i \in S : TRUE
    OBVIOUS
  <2>3. n - i \in T
    BY <2>2
  <2> QED  BY <2>1, <2>3
<1>2. PICK k \in T : \A j \in T : k <= j
  BY <1>1, LeastExists
<1>3. PICK i \in S : k = n - i
  BY <1>2
<1>4. ASSUME NEW j \in S PROVE i >= j
  <2>1. i \in Int /\ j \in Int
    BY <1>0
  <2>3. n - j \in T
    OBVIOUS
  <2>2. k <= n - j
    BY <1>2, <2>3
  <2> QED  BY <1>3, <2>1, <2>2
<1> QED  BY <1>3, <1>4 DEF Max

\* The part that begins at i runs to e: to a comma or the end.
RunsTo(s, i, e) ==
    /\ e \in i - 1 .. Len(s)
    /\ \A j \in i .. e : s[j] # Comma
    /\ e = Len(s) \/ s[e + 1] = Comma

\* str::split gives what stands from one comma to the next.
LEMMA PartFacts ==
    ASSUME NEW s \in Texts, NEW i \in 1 .. Len(s) + 1
    PROVE  \E e \in 0 .. Len(s) :
               /\ RunsTo(s, i, e)
               /\ Part(s, i) = SubSeq(s, i, e)
               /\ Part(s, i) \in Texts
               /\ Len(Part(s, i)) = e - i + 1
               /\ \A j \in 1 .. e - i + 1 : Part(s, i)[j] = s[i + j - 1]
<1> DEFINE S == {Len(s) + 1} \union {j \in i .. Len(s) : s[j] = Comma}
           m == Min(S)
<1>1. Len(s) \in Nat
  BY LenProperties DEF Texts
<1>2. S \subseteq Nat /\ S # {} /\ S \subseteq i .. Len(s) + 1
  BY <1>1
<1>3. m \in S /\ \A j \in S : m <= j
  <2> HIDE DEF S
  <2> QED  BY <1>2, Least
<1> HIDE DEF m
<1>4. m \in i .. Len(s) + 1 /\ (m = Len(s) + 1 \/ s[m] = Comma)
      /\ \A j \in i .. m - 1 : j \in i .. Len(s) /\ s[j] # Comma
  <2>1. m \in i .. Len(s) + 1 /\ (m = Len(s) + 1 \/ s[m] = Comma)
    BY <1>2, <1>3
  <2>2. ASSUME NEW j \in i .. m - 1 PROVE j \in i .. Len(s) /\ s[j] # Comma
    <3>1. j \in i .. Len(s) /\ ~(m <= j)
      BY <1>1, <2>1
    <3>2. j \notin S
      BY <1>3, <3>1
    <3> QED  BY <3>1, <3>2
  <2> QED  BY <2>1, <2>2
<1>5. PICK e \in Int : e = m - 1
  BY <1>1, <1>4
<1>6. Part(s, i) = SubSeq(s, i, e)
  BY <1>5 DEF Part, m, S
<1>7. e \in 0 .. Len(s) /\ e \in i - 1 .. Len(s) /\ e + 1 = m
  BY <1>1, <1>4, <1>5
<1>8. \A j \in i .. e : j \in 1 .. Len(s)
  BY <1>1, <1>7
<1>9. \A j \in i .. e : s[j] \in Symbols
  BY <1>8, ElementOfSeq DEF Texts
<1>10. i \in Int /\ (IF i <= e THEN e - i + 1 ELSE 0) = e - i + 1
  BY <1>1, <1>7
<1>11. /\ SubSeq(s, i, e) \in Seq(Symbols)
       /\ Len(SubSeq(s, i, e)) = e - i + 1
       /\ \A j \in 1 .. e - i + 1 : SubSeq(s, i, e)[j] = s[i + j - 1]
  BY <1>9, <1>10, SubSeqProperties
<1>12. RunsTo(s, i, e)
  BY <1>4, <1>5, <1>7 DEF RunsTo
<1> QED  BY <1>6, <1>7, <1>11, <1>12 DEF Texts

\* parse_params skips a part if all of it is blank.
LEMMA TrimBlank ==
    ASSUME NEW t \in Texts
    PROVE  Trim(t) # <<>> <=> \E j \in 1 .. Len(t) : t[j] # Space
<1> DEFINE solid == Solid(t, {Space})
<1>1. solid = {j \in 1 .. Len(t) : t[j] # Space} /\ Len(t) \in Nat
  BY LenProperties DEF Texts, Solid
<1> HIDE DEF solid
<1>2. CASE solid = {}
  BY <1>1, <1>2 DEF Trim, solid
<1>3. CASE solid # {}
  <2>1. solid \subseteq Nat /\ solid \subseteq 0 .. Len(t)
    BY <1>1
  <2>2. Min(solid) \in solid /\ Max(solid) \in solid /\ Min(solid) <= Max(solid)
    BY <1>1, <1>3, <2>1, Least, Greatest
  <2> DEFINE a == Min(solid)
             b == Max(solid)
  <2>3. a \in 1 .. Len(t) /\ b \in 1 .. Len(t) /\ a <= b
    BY <1>1, <2>2
  <2> HIDE DEF a, b
  <2>4. \A j \in a .. b : j \in 1 .. Len(t)
    BY <1>1, <2>3
  <2>5. \A j \in a .. b : t[j] \in Symbols
    BY <2>4, ElementOfSeq DEF Texts
  <2>6. Len(SubSeq(t, a, b)) = b - a + 1
    BY <2>3, <2>5, SubSeqProperties
  <2>7. SubSeq(t, a, b) # <<>>
    BY <2>3, <2>6
  <2>8. Trim(t) = SubSeq(t, a, b)
    BY <1>3 DEF Trim, solid, a, b
  <2> QED  BY <1>1, <1>3, <2>7, <2>8
<1> QED  BY <1>2, <1>3

\* A part begins at the beginning or behind a comma.
LEMMA StartFacts ==
    ASSUME NEW s \in Texts
    PROVE  /\ PartStarts(s) \subseteq 1 .. Len(s) + 1
           /\ \A i \in PartStarts(s) : i = 1 \/ s[i - 1] = Comma
           /\ \A j \in 1 .. Len(s) : s[j] = Comma => j + 1 \in PartStarts(s)
           /\ 1 \in PartStarts(s)
<1>1. DOMAIN s = 1 .. Len(s) /\ Len(s) \in Nat
  BY LenProperties DEF Texts
<1> QED  BY <1>1 DEF PartStarts

\* Whatever is no comma is in a part.
LEMMA InPart ==
    ASSUME NEW s \in Texts, NEW p \in 1 .. Len(s), s[p] # Comma
    PROVE  \E i \in PartStarts(s) : i <= p /\ \A j \in i .. p : s[j] # Comma
<1> DEFINE S == {0} \union {j \in 1 .. p : s[j] = Comma}
           m == Max(S)
<1>1. S \subseteq 0 .. p /\ S # {} /\ p \in Nat /\ Len(s) \in Nat
  BY LenProperties DEF Texts
<1>2. m \in S /\ \A j \in S : m >= j
  <2> HIDE DEF S
  <2> QED  BY <1>1, Greatest
<1> HIDE DEF m
<1>3. m \in 0 .. p - 1 /\ (m # 0 => s[m] = Comma /\ m \in 1 .. Len(s))
  BY <1>1, <1>2
<1>4. m + 1 \in PartStarts(s)
  BY <1>3, StartFacts
<1>5. ASSUME NEW j \in m + 1 .. p PROVE s[j] # Comma
  <2>1. j \in 1 .. p /\ ~(m >= j)
    BY <1>1, <1>3
  <2> QED  BY <1>2, <2>1
<1>6. m + 1 <= p
  BY <1>1, <1>3
<1> QED  BY <1>4, <1>5, <1>6

\* No comma stands between p and q.
Near(s, p, q) == \A j \in p .. q \union q .. p : s[j] # Comma

\* Whatever is not blank shares its part with an equals sign.
Equated(s) ==
    \A p \in 1 .. Len(s) :
        s[p] \notin {Space, Comma} =>
            \E q \in 1 .. Len(s) : s[q] = Equals /\ Near(s, p, q)

\* parse_params has something to parse.
HasParams(s) == \E p \in 1 .. Len(s) : s[p] \notin {Space, Comma}

\* What parse_params accepts, without its parts.
LEMMA Parses ==
    ASSUME NEW s \in Texts
    PROVE  ParamsParse(s) <=> HasParams(s) /\ Equated(s)
<1>1. Len(s) \in Nat
  BY LenProperties DEF Texts
<1>2. ASSUME NEW p \in 1 .. Len(s), s[p] \notin {Space, Comma}
      PROVE  \E i \in Params(s) : \E e \in 0 .. Len(s) :
                 /\ RunsTo(s, i, e) /\ p \in i .. e
                 /\ i \in 1 .. Len(s) + 1
                 /\ DOMAIN Part(s, i) = 1 .. e - i + 1
                 /\ \A j \in 1 .. e - i + 1 : Part(s, i)[j] = s[i + j - 1]
  <2>1. PICK i \in PartStarts(s) : i <= p /\ \A j \in i .. p : s[j] # Comma
    BY <1>2, InPart
  <2>2. i \in 1 .. Len(s) + 1
    BY StartFacts
  <2>3. PICK e \in 0 .. Len(s) :
               /\ RunsTo(s, i, e)
               /\ Part(s, i) \in Texts
               /\ Len(Part(s, i)) = e - i + 1
               /\ \A j \in 1 .. e - i + 1 : Part(s, i)[j] = s[i + j - 1]
    BY <2>2, PartFacts
  <2>4. p \in i .. e
    <3>1. e + 1 \in i .. p => e = Len(s)
      BY <2>1, <2>3 DEF RunsTo
    <3> QED  BY <1>1, <2>1, <2>2, <2>3, <3>1 DEF RunsTo
  <2>5. p - i + 1 \in 1 .. e - i + 1 /\ i + (p - i + 1) - 1 = p
    BY <1>1, <2>2, <2>4
  <2>6. Part(s, i)[p - i + 1] = s[p]
    BY <2>3, <2>5
  <2>7. i \in Params(s)
    BY <1>2, <2>3, <2>5, <2>6, TrimBlank DEF Params
  <2>8. DOMAIN Part(s, i) = 1 .. e - i + 1
    BY <2>3, LenProperties DEF Texts
  <2> QED  BY <2>2, <2>3, <2>4, <2>7, <2>8
<1>3. ASSUME NEW i \in Params(s)
      PROVE  \E e \in 0 .. Len(s) : \E p \in i .. e :
                 /\ RunsTo(s, i, e)
                 /\ i \in 1 .. Len(s) + 1
                 /\ p \in 1 .. Len(s) /\ s[p] \notin {Space, Comma}
                 /\ DOMAIN Part(s, i) = 1 .. e - i + 1
                 /\ \A j \in 1 .. e - i + 1 : Part(s, i)[j] = s[i + j - 1]
  <2>2. i \in 1 .. Len(s) + 1 /\ Trim(Part(s, i)) # <<>>
    BY StartFacts DEF Params
  <2>3. PICK e \in 0 .. Len(s) :
               /\ RunsTo(s, i, e)
               /\ Part(s, i) \in Texts
               /\ Len(Part(s, i)) = e - i + 1
               /\ \A j \in 1 .. e - i + 1 : Part(s, i)[j] = s[i + j - 1]
    BY <2>2, PartFacts
  <2>4. PICK j \in 1 .. e - i + 1 : Part(s, i)[j] # Space
    BY <2>2, <2>3, TrimBlank
  <2>5. i + j - 1 \in i .. e /\ i + j - 1 \in 1 .. Len(s)
    BY <1>1, <2>2, <2>3
  <2>6. s[i + j - 1] \notin {Space, Comma}
    BY <2>3, <2>4, <2>5 DEF RunsTo
  <2>8. DOMAIN Part(s, i) = 1 .. e - i + 1
    BY <2>3, LenProperties DEF Texts
  <2> QED  BY <2>2, <2>3, <2>5, <2>6, <2>8
<1>4. Params(s) # {} <=> HasParams(s)
  BY <1>2, <1>3 DEF HasParams
<1>5. ASSUME Equated(s), NEW i \in Params(s) PROVE Equals \in ToSet(Part(s, i))
  <2>1. PICK e \in 0 .. Len(s) : \E p \in i .. e :
                 /\ RunsTo(s, i, e)
                 /\ i \in 1 .. Len(s) + 1
                 /\ p \in 1 .. Len(s) /\ s[p] \notin {Space, Comma}
                 /\ DOMAIN Part(s, i) = 1 .. e - i + 1
                 /\ \A j \in 1 .. e - i + 1 : Part(s, i)[j] = s[i + j - 1]
    BY <1>3
  <2>p. PICK p \in i .. e : p \in 1 .. Len(s) /\ s[p] \notin {Space, Comma}
    BY <2>1
  <2>2. PICK q \in 1 .. Len(s) : s[q] = Equals /\ Near(s, p, q)
    BY <1>5, <2>p DEF Equated
  <2>3. q >= i
    <3>1. SUFFICES ASSUME q < i PROVE FALSE
      BY <1>1, <2>1
    <3>2. i - 1 \in q .. p /\ i # 1
      BY <1>1, <2>1, <3>1
    <3>3. s[i - 1] = Comma
      BY <3>2, StartFacts DEF Params
    <3> QED  BY <2>2, <3>2, <3>3 DEF Near
  <2>4. q <= e
    <3>1. SUFFICES ASSUME q > e PROVE FALSE
      BY <1>1, <2>1
    <3>2. e + 1 \in p .. q /\ e # Len(s)
      BY <1>1, <2>1, <3>1
    <3> QED  BY <2>1, <2>2, <3>2 DEF RunsTo, Near
  <2>5. q - i + 1 \in 1 .. e - i + 1 /\ i + (q - i + 1) - 1 = q
    BY <1>1, <2>1, <2>3, <2>4
  <2> QED  BY <2>1, <2>2, <2>5 DEF ToSet
<1>6. ASSUME \A i \in Params(s) : Equals \in ToSet(Part(s, i)) PROVE Equated(s)
  <2>1. SUFFICES ASSUME NEW p \in 1 .. Len(s), s[p] \notin {Space, Comma}
                 PROVE  \E q \in 1 .. Len(s) : s[q] = Equals /\ Near(s, p, q)
    BY DEF Equated
  <2>2. PICK i \in Params(s), e \in 0 .. Len(s) :
                 /\ RunsTo(s, i, e) /\ p \in i .. e
                 /\ i \in 1 .. Len(s) + 1
                 /\ DOMAIN Part(s, i) = 1 .. e - i + 1
                 /\ \A j \in 1 .. e - i + 1 : Part(s, i)[j] = s[i + j - 1]
    BY <1>2, <2>1
  <2>3. PICK j \in 1 .. e - i + 1 : Part(s, i)[j] = Equals
    BY <1>6, <2>2 DEF ToSet
  <2>4. PICK q \in Int : q = i + j - 1
    BY <2>2
  <2>5. q \in i .. e /\ q \in 1 .. Len(s) /\ s[q] = Equals
    BY <1>1, <2>2, <2>3, <2>4
  <2>6. Near(s, p, q)
    <3>1. \A k \in p .. q \union q .. p : k \in i .. e
      BY <2>2, <2>5
    <3> QED  BY <2>2, <3>1 DEF Near, RunsTo
  <2> QED  BY <2>5, <2>6
<1> QED  BY <1>4, <1>5, <1>6 DEF ParamsParse

\* parse_params accepts a joined value if it accepts what is no blank half.
LEMMA ParsesJoined ==
    ASSUME NEW a \in Texts, NEW b \in Texts
    PROVE  /\ Equated(Joined(a, b)) <=> Equated(a) /\ Equated(b)
           /\ HasParams(Joined(a, b)) <=> HasParams(a) \/ HasParams(b)
<1> DEFINE s == Joined(a, b)
           n == Len(a)
           m == Len(b)
<1>1. /\ s \in Texts /\ n \in Nat /\ m \in Nat /\ Len(s) = n + 2 + m
      /\ \A i \in 1 .. n : s[i] = a[i]
      /\ s[n + 1] = Comma /\ s[n + 2] = Space
      /\ \A i \in 1 .. m : s[n + 2 + i] = b[i]
  BY JoinedFacts
<1> HIDE DEF s, n, m
<1>2. n \in Nat /\ m \in Nat
  BY <1>1
<1>3. \A i \in 1 .. n + 2 + m : s[i] \notin {Space, Comma} =>
          i \in 1 .. n \/ \E j \in 1 .. m : i = n + 2 + j
  <2> TAKE i \in 1 .. n + 2 + m
  <2>1. i > n + 2 => i - (n + 2) \in 1 .. m /\ i = n + 2 + (i - (n + 2))
    BY <1>2
  <2>2. i <= n \/ i = n + 1 \/ i = n + 2 \/ i > n + 2
    BY <1>2
  <2> QED  BY <1>1, <1>2, <2>1, <2>2
<1>4. (\A i \in 1 .. n : i \in 1 .. n + 2 + m) /\ \A i \in 1 .. m : n + 2 + i \in 1 .. n + 2 + m
  BY <1>2
<1>5. ASSUME NEW p \in 1 .. n, NEW q \in 1 .. n
      PROVE  Near(s, p, q) <=> Near(a, p, q)
  <2>1. \A j \in p .. q \union q .. p : j \in 1 .. n
    BY <1>2
  <2> QED  BY <1>1, <2>1 DEF Near
<1>6. ASSUME NEW p \in 1 .. m, NEW q \in 1 .. m, NEW x, x = n + 2 + p, NEW y, y = n + 2 + q
      PROVE  Near(s, x, y) <=> Near(b, p, q)
  <2>1. \A j \in p .. q \union q .. p : j \in 1 .. m /\ n + 2 + j \in x .. y \union y .. x
    BY <1>2, <1>6
  <2>2. ASSUME NEW k \in x .. y \union y .. x
        PROVE  \E j \in p .. q \union q .. p : k = n + 2 + j /\ j \in 1 .. m
    <3>1. k - (n + 2) \in p .. q \union q .. p /\ k = n + 2 + (k - (n + 2))
      BY <1>2, <1>6
    <3> QED  BY <2>1, <3>1
  <2>3. \A j \in 1 .. m : s[n + 2 + j] = b[j]
    BY <1>1
  <2> QED  BY <2>1, <2>2, <2>3 DEF Near
<1>7. ASSUME NEW p \in 1 .. n, NEW q \in 1 .. m, NEW y, y = n + 2 + q
      PROVE  ~Near(s, p, y) /\ ~Near(s, y, p)
  <2>1. n + 1 \in p .. y
    BY <1>2, <1>7
  <2> QED  BY <1>1, <2>1 DEF Near
<1>8. HasParams(s) <=> HasParams(a) \/ HasParams(b)
  <2>1. ASSUME HasParams(s) PROVE HasParams(a) \/ HasParams(b)
    <3>1. PICK i \in 1 .. n + 2 + m : s[i] \notin {Space, Comma}
      BY <1>1, <2>1 DEF HasParams
    <3>2. CASE i \in 1 .. n
      BY <1>1, <3>1, <3>2 DEF HasParams, n
    <3>3. CASE i \notin 1 .. n
      <4>1. PICK j \in 1 .. m : i = n + 2 + j
        BY <1>3, <3>1, <3>3
      <4> QED  BY <1>1, <3>1, <4>1 DEF HasParams, m
    <3> QED  BY <3>2, <3>3
  <2>2. ASSUME HasParams(a) PROVE HasParams(s)
    <3>1. PICK i \in 1 .. n : a[i] \notin {Space, Comma}
      BY <2>2 DEF HasParams, n
    <3> QED  BY <1>1, <1>4, <3>1 DEF HasParams
  <2>3. ASSUME HasParams(b) PROVE HasParams(s)
    <3>1. PICK i \in 1 .. m : b[i] \notin {Space, Comma}
      BY <2>3 DEF HasParams, m
    <3>2. PICK k \in 1 .. n + 2 + m : k = n + 2 + i
      BY <1>4
    <3>3. s[k] = b[i]
      BY <1>1, <3>2
    <3> QED  BY <1>1, <3>1, <3>3 DEF HasParams
  <2> QED  BY <2>1, <2>2, <2>3
<1>9. ASSUME Equated(s) PROVE Equated(a)
  <2>1. SUFFICES ASSUME NEW p \in 1 .. n, a[p] \notin {Space, Comma}
                 PROVE  \E q \in 1 .. n : a[q] = Equals /\ Near(a, p, q)
    BY DEF Equated, n
  <2>2. PICK q \in 1 .. Len(s) : s[q] = Equals /\ Near(s, p, q)
    BY <1>1, <1>4, <1>9, <2>1 DEF Equated
  <2>3. q \in 1 .. n
    BY <1>1, <1>3, <1>7, <2>2, SymbolFacts
  <2> QED  BY <1>1, <1>5, <2>2, <2>3
<1>10. ASSUME Equated(s) PROVE Equated(b)
  <2>1. SUFFICES ASSUME NEW p \in 1 .. m, b[p] \notin {Space, Comma}
                 PROVE  \E q \in 1 .. m : b[q] = Equals /\ Near(b, p, q)
    BY DEF Equated, m
  <2>x. PICK x : x = n + 2 + p
    OBVIOUS
  <2>2. PICK q \in 1 .. Len(s) : s[q] = Equals /\ Near(s, x, q)
    BY <1>1, <1>4, <1>10, <2>1, <2>x DEF Equated
  <2>3. PICK j \in 1 .. m : q = n + 2 + j
    BY <1>1, <1>3, <1>7, <2>x, <2>2, SymbolFacts
  <2>4. b[j] = Equals
    BY <1>1, <2>2, <2>3
  <2>5. Near(b, p, j)
    BY <1>6, <2>x, <2>2, <2>3
  <2> QED  BY <2>4, <2>5
<1>11. ASSUME Equated(a), Equated(b) PROVE Equated(s)
  <2>1. SUFFICES ASSUME NEW x \in 1 .. Len(s), s[x] \notin {Space, Comma}
                 PROVE  \E y \in 1 .. Len(s) : s[y] = Equals /\ Near(s, x, y)
    BY DEF Equated
  <2>2. CASE x \in 1 .. n
    <3>1. PICK q \in 1 .. n : a[q] = Equals /\ Near(a, x, q)
      BY <1>1, <1>11, <2>1, <2>2 DEF Equated, n
    <3> QED  BY <1>1, <1>4, <1>5, <2>2, <3>1
  <2>3. CASE x \notin 1 .. n
    <3>1. PICK p \in 1 .. m : x = n + 2 + p
      BY <1>1, <1>3, <2>1, <2>3
    <3>2. PICK q \in 1 .. m : b[q] = Equals /\ Near(b, p, q)
      BY <1>1, <1>11, <2>1, <3>1 DEF Equated, m
    <3>y. PICK y : y = n + 2 + q
      OBVIOUS
    <3>3. y \in 1 .. Len(s) /\ s[y] = Equals /\ Near(s, x, y)
      BY <1>1, <1>4, <1>6, <3>1, <3>2, <3>y
    <3> QED  BY <3>3
  <2> QED  BY <2>2, <2>3
<1> QED  BY <1>8, <1>9, <1>10, <1>11 DEF s

\* What a formatted parameter looks like, symbol by symbol.
LEMMA ParamText ==
    ASSUME NEW name \in Symbols, NEW v \in Texts
    PROVE  /\ Param(name, v) \in Texts
           /\ Len(v) \in Nat /\ Len(Param(name, v)) = Len(v) + 4
           /\ Param(name, v)[1] = name /\ Param(name, v)[2] = Equals
           /\ Param(name, v)[3] = Quote
           /\ \A i \in 1 .. Len(v) : Param(name, v)[3 + i] = v[i]
           /\ Param(name, v)[Len(v) + 4] = Quote
<1> DEFINE a == <<name, Equals, Quote>>
           b == a \o v
           c == <<Quote>>
<1>1. a \in Texts /\ Len(a) = 3 /\ a[1] = name /\ a[2] = Equals /\ a[3] = Quote
  BY SymbolFacts DEF Texts
<1>2. c \in Texts /\ Len(c) = 1 /\ c[1] = Quote
  BY SymbolFacts DEF Texts
<1> HIDE DEF a, c
<1>3. Len(v) \in Nat
  BY LenProperties DEF Texts
<1>4. /\ b \in Texts /\ Len(b) = Len(a) + Len(v)
      /\ \A i \in 1 .. Len(a) + Len(v) : b[i] = IF i <= Len(a) THEN a[i] ELSE v[i - Len(a)]
  BY <1>1, ConcatProperties DEF Texts
<1> HIDE DEF b
<1>5. /\ b \o c \in Texts /\ Len(b \o c) = Len(b) + Len(c)
      /\ \A i \in 1 .. Len(b) + Len(c) : (b \o c)[i] = IF i <= Len(b) THEN b[i] ELSE c[i - Len(b)]
  <2>1. b \in Seq(Symbols) /\ c \in Seq(Symbols)
    BY <1>2, <1>4 DEF Texts
  <2> QED  BY <2>1, ConcatProperties DEF Texts
<1>6. Param(name, v) = b \o c
  BY DEF Param, a, b, c
<1>7. Len(b) = 3 + Len(v)
      /\ \A i \in 1 .. 3 + Len(v) : b[i] = IF i <= 3 THEN a[i] ELSE v[i - 3]
  BY <1>1, <1>4
<1>8. Len(b \o c) = Len(v) + 4
      /\ \A i \in 1 .. Len(v) + 4 : (b \o c)[i] = IF i <= 3 + Len(v) THEN b[i] ELSE c[i - (3 + Len(v))]
  BY <1>2, <1>3, <1>5, <1>7
<1>9. (b \o c)[1] = name /\ (b \o c)[2] = Equals /\ (b \o c)[3] = Quote
  BY <1>1, <1>3, <1>7, <1>8
<1>10. (b \o c)[Len(v) + 4] = Quote
  <2>1. ~(Len(v) + 4 <= 3 + Len(v)) /\ Len(v) + 4 - (3 + Len(v)) = 1 /\ Len(v) + 4 \in 1 .. Len(v) + 4
    BY <1>3
  <2> QED  BY <1>2, <1>8, <2>1
<1>11. ASSUME NEW i \in 1 .. Len(v) PROVE (b \o c)[3 + i] = v[i]
  <2>1. 3 + i \in 1 .. Len(v) + 4 /\ 3 + i \in 1 .. 3 + Len(v) /\ 3 + i <= 3 + Len(v)
        /\ ~(3 + i <= 3) /\ (3 + i) - 3 = i
    BY <1>3
  <2> QED  BY <1>7, <1>8, <2>1
<1> QED  BY <1>3, <1>5, <1>6, <1>8, <1>9, <1>10, <1>11

\* trim leaves alone what neither begins nor ends with a space.
LEMMA TrimSame ==
    ASSUME NEW t \in Texts, t # <<>>, t[1] # Space, t[Len(t)] # Space
    PROVE  Trim(t) = t
<1> DEFINE solid == Solid(t, {Space})
<1>1. solid = {j \in 1 .. Len(t) : t[j] # Space} /\ Len(t) \in Nat \ {0}
  BY LenProperties, EmptySeq DEF Texts, Solid
<1> HIDE DEF solid
<1>2. 1 \in solid /\ Len(t) \in solid /\ solid \subseteq 1 .. Len(t)
  BY <1>1
<1>3. Min(solid) \in solid /\ Min(solid) <= 1 /\ Max(solid) \in solid /\ Max(solid) >= Len(t)
  BY <1>1, <1>2, Least, Greatest
<1>4. Min(solid) = 1 /\ Max(solid) = Len(t)
  <2>1. Min(solid) \in 1 .. Len(t) /\ Max(solid) \in 1 .. Len(t)
    BY <1>2, <1>3
  <2> HIDE DEF solid
  <2> QED  BY <1>1, <1>3, <2>1
<1>5. SubSeq(t, 1, Len(t)) = t
  BY SubSeqFull DEF Texts
<1> QED  BY <1>2, <1>4, <1>5 DEF Trim, solid

\* What follows position i in a text.
LEMMA AfterFacts ==
    ASSUME NEW s \in Texts, NEW i \in 0 .. Len(s)
    PROVE  /\ After(s, i) \in Texts /\ Len(s) \in Nat
           /\ Len(After(s, i)) = Len(s) - i
           /\ \A j \in 1 .. Len(s) - i : After(s, i)[j] = s[i + j]
<1>1. Len(s) \in Nat
  BY LenProperties DEF Texts
<1>2. \A j \in i + 1 .. Len(s) : s[j] \in Symbols
  <2>1. \A j \in i + 1 .. Len(s) : j \in 1 .. Len(s)
    BY <1>1
  <2> QED  BY <2>1, ElementOfSeq DEF Texts
<1>3. PICK k \in Int : k = i + 1
  BY <1>1
<1>4. /\ SubSeq(s, k, Len(s)) \in Seq(Symbols)
      /\ Len(SubSeq(s, k, Len(s))) = IF k <= Len(s) THEN Len(s) - k + 1 ELSE 0
      /\ \A j \in 1 .. Len(s) - k + 1 : SubSeq(s, k, Len(s))[j] = s[k + j - 1]
  BY <1>1, <1>2, <1>3, SubSeqProperties
<1>5. Len(s) - k + 1 = Len(s) - i /\ (k <= Len(s) \/ Len(s) - i = 0)
  BY <1>1, <1>3
<1>6. \A j \in 1 .. Len(s) - i : k + j - 1 = i + j
  BY <1>1, <1>3
<1> QED  BY <1>1, <1>3, <1>4, <1>5, <1>6 DEF After, Texts

\* The quotes that the formatting puts are taken off again, whatever they enclose.
LEMMA Unquotes ==
    ASSUME NEW v \in Texts, NEW q \in Texts, Len(q) = Len(v) + 2,
           q[1] = Quote, q[Len(q)] = Quote,
           \A i \in 1 .. Len(v) : q[1 + i] = v[i]
    PROVE  Unquoted(Trim(q)) = v
<1>1. Len(v) \in Nat /\ Len(q) \in Nat /\ q # <<>>
  BY LenProperties, EmptySeq DEF Texts
<1>2. Trim(q) = q
  BY <1>1, TrimSame, SymbolFacts
<1>3. /\ Tail(q) \in Texts /\ Len(Tail(q)) = Len(v) + 1
      /\ \A i \in 1 .. Len(v) : Tail(q)[i] = v[i]
  <2>1. /\ Tail(q) \in Texts /\ Len(Tail(q)) = Len(q) - 1
        /\ \A i \in 1 .. Len(Tail(q)) : Tail(q)[i] = q[i + 1]
    BY <1>1, HeadTailProperties DEF Texts
  <2>2. Len(Tail(q)) = Len(v) + 1 /\ \A i \in 1 .. Len(v) : i \in 1 .. Len(Tail(q)) /\ i + 1 = 1 + i
    BY <1>1, <2>1
  <2> QED  BY <2>1, <2>2
<1> DEFINE t == Tail(q)
           f == SubSeq(t, 1, Len(v))
<1>4. /\ f \in Texts /\ Len(f) = Len(v) /\ \A i \in 1 .. Len(v) : f[i] = v[i]
  <2> HIDE DEF t
  <2>1. \A i \in 1 .. Len(v) : t[i] \in Symbols
    BY <1>3, ElementOfSeq DEF Texts, t
  <2>2. /\ SubSeq(t, 1, Len(v)) \in Seq(Symbols)
        /\ Len(SubSeq(t, 1, Len(v))) = IF 1 <= Len(v) THEN Len(v) - 1 + 1 ELSE 0
        /\ \A i \in 1 .. Len(v) - 1 + 1 : SubSeq(t, 1, Len(v))[i] = t[1 + i - 1]
    BY <1>1, <2>1, SubSeqProperties
  <2>3. \A i \in 1 .. Len(v) : i \in 1 .. Len(v) - 1 + 1 /\ 1 + i - 1 = i
    BY <1>1
  <2> QED  BY <1>1, <1>3, <2>2, <2>3 DEF Texts, t
<1>5. f = v
  <2> HIDE DEF f
  <2> QED  BY <1>4, SeqEqual DEF Texts
<1>6. Front(t) = f
  <2>1. Len(t) - 1 = Len(v)
    BY <1>1, <1>3
  <2> QED  BY <2>1 DEF Front
<1>7. Len(q) > 1 /\ Head(q) = Quote /\ Last(q) = Quote
  BY <1>1 DEF Last, Texts
<1> QED  BY <1>2, <1>5, <1>6, <1>7 DEF Unquoted

\* A part that holds our parameter, with or without a space before it.
Holds(part, name, v) ==
    \E d \in 0 .. 1 :
        /\ Len(part) = d + (Len(v) + 4)
        /\ d = 1 => part[1] = Space
        /\ \A i \in 1 .. Len(v) + 4 : part[d + i] = Param(name, v)[i]

\* A part that holds our parameter is read as its name and its value.
LEMMA KeyValue ==
    ASSUME NEW name \in Symbols \ {Space, Equals}, NEW v \in Texts,
           NEW part \in Texts, Holds(part, name, v)
    PROVE  /\ Trim(part) # <<>>
           /\ Key(part) = <<name>>
           /\ Value(part) = v
<1>1. /\ Len(v) \in Nat
      /\ Param(name, v)[1] = name /\ Param(name, v)[2] = Equals /\ Param(name, v)[3] = Quote
      /\ \A i \in 1 .. Len(v) : Param(name, v)[3 + i] = v[i]
      /\ Param(name, v)[Len(v) + 4] = Quote
  BY ParamText
<1>2. PICK d \in 0 .. 1 : /\ Len(part) = d + (Len(v) + 4)
                          /\ d = 1 => part[1] = Space
                          /\ \A i \in 1 .. Len(v) + 4 : part[d + i] = Param(name, v)[i]
  BY DEF Holds
<1>3. /\ part[d + 1] = name /\ part[d + 2] = Equals /\ part[d + 3] = Quote
      /\ \A i \in 1 .. Len(v) : part[d + (3 + i)] = v[i]
      /\ part[d + (Len(v) + 4)] = Quote
  <2>1. \A i \in 1 .. Len(v) : 3 + i \in 1 .. Len(v) + 4
    BY <1>1
  <2> QED  BY <1>1, <1>2, <2>1
<1>4. Trim(part) # <<>>
  <2>1. d + 1 \in 1 .. Len(part)
    BY <1>1, <1>2
  <2> QED  BY <1>3, <2>1, TrimBlank
<1>5. FirstEquals(part) = d + 2
  <2> DEFINE S == {i \in DOMAIN part : part[i] = Equals}
  <2>1. S \subseteq Nat /\ d + 2 \in S /\ \A i \in S : i >= d + 2
    <3>1. DOMAIN part = 1 .. Len(part)
      BY LenProperties DEF Texts
    <3>2. d + 2 \in 1 .. Len(part)
      BY <1>1, <1>2
    <3>3. ASSUME NEW i \in 1 .. Len(part), i < d + 2 PROVE part[i] # Equals
      <4>1. i = d + 1 \/ (d = 1 /\ i = 1)
        BY <1>2, <3>3
      <4> QED  BY <1>2, <1>3, <4>1, SymbolFacts
    <3> QED  BY <1>1, <1>2, <1>3, <3>1, <3>2, <3>3
  <2>2. Min(S) \in S /\ Min(S) <= d + 2
    <3> HIDE DEF S
    <3> QED  BY <2>1, Least
  <2>3. Min(S) = d + 2
    <3>1. Min(S) \in Nat /\ Min(S) >= d + 2
      BY <2>1, <2>2
    <3> HIDE DEF S
    <3> QED  BY <2>2, <3>1
  <2> QED  BY <2>3 DEF FirstEquals
<1>6. Key(part) = <<name>>
  <2> DEFINE k == SubSeq(part, 1, d + 1)
             u == SubSeq(k, d + 1, d + 1)
  <2>1. \A i \in 1 .. d + 1 : part[i] \in Symbols
    <3>1. \A i \in 1 .. d + 1 : i \in 1 .. Len(part)
      BY <1>1, <1>2
    <3> QED  BY <3>1, ElementOfSeq DEF Texts
  <2>2. /\ k \in Texts /\ Len(k) = d + 1 /\ \A i \in 1 .. d + 1 : k[i] = part[i]
    <3>1. /\ k \in Seq(Symbols) /\ Len(k) = IF 1 <= d + 1 THEN d + 1 - 1 + 1 ELSE 0
          /\ \A i \in 1 .. d + 1 - 1 + 1 : k[i] = part[1 + i - 1]
      <4>1. d + 1 \in Int
        BY <1>2
      <4> QED  BY <2>1, <4>1, SubSeqProperties
    <3> HIDE DEF k
    <3> QED  BY <1>2, <3>1 DEF Texts
  <2> HIDE DEF k
  <2>3. Solid(k, {Space}) = {d + 1}
    <3>1. DOMAIN k = 1 .. d + 1
      BY <2>2, LenProperties DEF Texts
    <3>2. k[d + 1] # Space /\ (d = 1 => k[1] = Space)
      BY <1>2, <1>3, <2>2
    <3> QED  BY <1>2, <3>1, <3>2 DEF Solid
  <2>4. Min({d + 1}) = d + 1 /\ Max({d + 1}) = d + 1
    BY <1>2 DEF Min, Max
  <2>5. u \in Texts /\ Len(u) = 1 /\ u[1] = name
    <3>1. k[d + 1] = name /\ d + 1 \in Int /\ \A i \in d + 1 .. d + 1 : k[i] \in Symbols
      BY <1>2, <1>3, <2>2
    <3>e. PICK e \in Int : e = d + 1
      BY <3>1
    <3>2. /\ SubSeq(k, e, e) \in Seq(Symbols)
          /\ Len(SubSeq(k, e, e)) = IF e <= e THEN e - e + 1 ELSE 0
          /\ \A i \in 1 .. e - e + 1 : SubSeq(k, e, e)[i] = k[e + i - 1]
      BY <3>1, <3>e, SubSeqProperties
    <3>3. u = SubSeq(k, e, e)
      BY <3>e
    <3> HIDE DEF u
    <3> QED  BY <3>1, <3>e, <3>2, <3>3 DEF Texts
  <2>6. <<name>> \in Texts /\ Len(<<name>>) = 1 /\ <<name>>[1] = name
    BY DEF Texts
  <2>7. u = <<name>>
    <3> HIDE DEF u
    <3>1. \A i \in 1 .. Len(u) : u[i] = <<name>>[i]
      BY <2>5, <2>6
    <3> QED  BY <2>5, <2>6, <3>1, SeqEqual DEF Texts
  <2>8. Trim(k) = u
    BY <2>3, <2>4 DEF Trim
  <2>9. Key(part) = Trim(k)
    <3>1. d + 2 - 1 = d + 1
      BY <1>2
    <3> QED  BY <1>5, <3>1 DEF Key, k
  <2> QED  BY <2>7, <2>8, <2>9
<1>7. Value(part) = v
  <2> DEFINE q == After(part, d + 2)
  <2>1. d + 2 \in 0 .. Len(part) /\ Len(part) - (d + 2) = Len(v) + 2
    BY <1>1, <1>2
  <2>2. /\ q \in Texts /\ Len(q) = Len(v) + 2
        /\ \A i \in 1 .. Len(v) + 2 : q[i] = part[d + 2 + i]
    BY <2>1, AfterFacts
  <2> HIDE DEF q
  <2>3. q[1] = Quote /\ q[Len(q)] = Quote
    <3>1. 1 \in 1 .. Len(v) + 2 /\ Len(v) + 2 \in 1 .. Len(v) + 2
          /\ d + 2 + 1 = d + 3 /\ d + 2 + (Len(v) + 2) = d + (Len(v) + 4)
      BY <1>1, <1>2
    <3> QED  BY <1>3, <2>2, <3>1
  <2>4. \A i \in 1 .. Len(v) : q[1 + i] = v[i]
    <3> TAKE i \in 1 .. Len(v)
    <3>1. 1 + i \in 1 .. Len(v) + 2 /\ d + 2 + (1 + i) = d + (3 + i)
      BY <1>1, <1>2
    <3> QED  BY <1>3, <2>2, <3>1
  <2>5. Unquoted(Trim(q)) = v
    BY <2>2, <2>3, <2>4, Unquotes
  <2> QED  BY <1>5, <2>5 DEF Value, q
<1> QED  BY <1>4, <1>6, <1>7

\* Nothing separates.
NoComma(a) == \A i \in 1 .. Len(a) : a[i] # Comma

\* No comma is in a parameter whose value has none.
LEMMA PlainParam ==
    ASSUME NEW name \in Symbols \ {Comma}, NEW v, IsPlain(v)
    PROVE  /\ v \in Texts /\ NoComma(v) /\ Len(v) \in Nat
           /\ NoComma(Param(name, v))
<1>1. v \in Texts /\ NoComma(v)
  BY LenProperties DEF IsPlain, Texts, ToSet, NoComma
<1> DEFINE p == Param(name, v)
<1>2. /\ Len(v) \in Nat /\ Len(p) = Len(v) + 4
      /\ p[1] = name /\ p[2] = Equals /\ p[3] = Quote
      /\ \A j \in 1 .. Len(v) : p[3 + j] = v[j]
      /\ p[Len(v) + 4] = Quote
  BY <1>1, ParamText
<1> HIDE DEF p
<1>3. ASSUME NEW j \in 1 .. Len(v) + 4 PROVE p[j] # Comma
  <2>0. Len(v) \in Nat
    BY <1>2
  <2>1. CASE j \in {1, 2, 3, Len(v) + 4}
    BY <1>2, <2>1, SymbolFacts
  <2>2. CASE j \notin {1, 2, 3, Len(v) + 4}
    <3>1. j - 3 \in 1 .. Len(v) /\ j = 3 + (j - 3)
      BY <2>0, <2>2
    <3>2. PICK k \in 1 .. Len(v) : j = 3 + k
      BY <3>1
    <3>3. p[j] = v[k] /\ v[k] # Comma
      BY <1>1, <1>2, <3>2 DEF NoComma
    <3> QED  BY <3>3
  <2> QED  BY <2>1, <2>2
<1> QED  BY <1>1, <1>2, <1>3 DEF NoComma, p

\* Where a part runs to is unique.
LEMMA HoldsAt ==
    ASSUME NEW name \in Symbols \ {Comma}, NEW v, IsPlain(v),
           NEW s \in Texts, NEW d \in 0 .. 1, NEW i \in 1 .. Len(s),
           d = 1 => s[i] = Space,
           \A j \in 1 .. Len(v) + 4 : s[i + d + j - 1] = Param(name, v)[j],
           i + d + Len(v) + 3 <= Len(s),
           i + d + Len(v) + 3 = Len(s) \/ s[i + d + Len(v) + 4] = Comma
    PROVE  Holds(Part(s, i), name, v)
<1>1. v \in Texts /\ \A j \in 1 .. Len(v) : v[j] # Comma
  BY LenProperties DEF IsPlain, Texts, ToSet
<1>2. /\ Len(v) \in Nat /\ Len(s) \in Nat
      /\ Param(name, v)[1] = name /\ Param(name, v)[2] = Equals /\ Param(name, v)[3] = Quote
      /\ \A j \in 1 .. Len(v) : Param(name, v)[3 + j] = v[j]
      /\ Param(name, v)[Len(v) + 4] = Quote
  BY <1>1, ParamText, LenProperties DEF Texts
<1>3. \A j \in 1 .. Len(v) + 4 : Param(name, v)[j] # Comma
  BY <1>1, ParamText, PlainParam DEF NoComma
<1>4. PICK e \in 0 .. Len(s) :
               /\ RunsTo(s, i, e)
               /\ Len(Part(s, i)) = e - i + 1
               /\ \A j \in 1 .. e - i + 1 : Part(s, i)[j] = s[i + j - 1]
  <2>1. i \in 1 .. Len(s) + 1
    BY <1>2
  <2> QED  BY <2>1, PartFacts
<1>5. PICK x \in Nat : x = i + d + Len(v) + 3
  BY <1>2
<1>6. \A k \in i .. x : s[k] # Comma
  <2> TAKE k \in i .. x
  <2>1. CASE d = 1 /\ k = i
    BY <2>1, SymbolFacts
  <2>2. CASE ~(d = 1 /\ k = i)
    <3>1. k - i - d + 1 \in 1 .. Len(v) + 4 /\ k = i + d + (k - i - d + 1) - 1
      BY <1>2, <1>5, <2>2
    <3> QED  BY <1>3, <3>1
  <2> QED  BY <2>1, <2>2
<1>7. e = x
  <2>1. e < x => e + 1 \in i .. x /\ e # Len(s)
    BY <1>2, <1>4, <1>5 DEF RunsTo
  <2>2. e > x => x + 1 \in i .. e /\ x # Len(s)
    BY <1>2, <1>4, <1>5 DEF RunsTo
  <2>3. x = Len(s) \/ s[x + 1] = Comma
    <3>1. x + 1 = i + d + Len(v) + 4
      BY <1>2, <1>5
    <3> QED  BY <1>5, <3>1
  <2> QED  BY <1>4, <1>5, <1>6, <2>1, <2>2, <2>3 DEF RunsTo
<1>8. Len(Part(s, i)) = d + (Len(v) + 4)
  BY <1>2, <1>4, <1>5, <1>7
<1>9. d = 1 => Part(s, i)[1] = Space
  <2>1. 1 \in 1 .. e - i + 1 /\ i + 1 - 1 = i
    BY <1>2, <1>4, <1>5, <1>7
  <2> QED  BY <1>4, <2>1
<1>10. ASSUME NEW j \in 1 .. Len(v) + 4 PROVE Part(s, i)[d + j] = Param(name, v)[j]
  <2>1. d + j \in 1 .. e - i + 1 /\ i + (d + j) - 1 = i + d + j - 1
    BY <1>2, <1>4, <1>5, <1>7
  <2> QED  BY <1>4, <2>1
<1> QED  BY <1>8, <1>9, <1>10 DEF Holds

\* The first parameter of a name is the one that counts.
LEMMA FirstGiven ==
    ASSUME NEW name \in Symbols \ {Space, Equals}, NEW v \in Texts, NEW s \in Texts,
           NEW i \in PartStarts(s), Holds(Part(s, i), name, v),
           \A j \in PartStarts(s) : j < i => Key(Part(s, j)) # <<name>>
    PROVE  Given(s, name) # {} /\ Get(s, name) = v
<1>1. Part(s, i) \in Texts /\ i \in 1 .. Len(s) + 1 /\ Len(s) \in Nat
  BY StartFacts, PartFacts, LenProperties DEF Texts
<1>2. i \in Given(s, name) /\ Value(Part(s, i)) = v
  BY <1>1, KeyValue DEF Given, Params
<1>3. Given(s, name) \subseteq PartStarts(s) /\ PartStarts(s) \subseteq Nat
      /\ \A j \in Given(s, name) : Key(Part(s, j)) = <<name>>
  BY StartFacts DEF Given, Params
<1>4. Min(Given(s, name)) \in Given(s, name) /\ Min(Given(s, name)) <= i
  BY <1>2, <1>3, Least
<1>5. Min(Given(s, name)) = i
  <2>1. PICK k \in Given(s, name) : k = Min(Given(s, name))
    BY <1>4
  <2>2. k \in PartStarts(s) /\ k \in Nat /\ i \in Nat /\ k <= i /\ ~(k < i)
    BY <1>1, <1>3, <1>4, <2>1
  <2> QED  BY <2>1, <2>2
<1> QED  BY <1>2, <1>5 DEF Get

----------------------------------------------------------------------------
(* A challenge of ours, and what may follow it.                            *)

\* Without a comma only spaces may stand before a scheme token.
LEMMA NoCommaTokens ==
    ASSUME NEW a \in Texts, NoComma(a)
    PROVE  \A i \in SchemeTokens(a) :
              /\ i \in 1 .. Len(a) /\ a[i] = Scheme
              /\ \A j \in 1 .. i - 1 : a[j] = Space
<1> TAKE i \in SchemeTokens(a)
<1>1. i \in 1 .. Len(a) /\ a[i] = Scheme /\ Len(a) \in Nat
  BY LenProperties DEF Texts, SchemeTokens
<1>2. PICK c \in 0 .. i - 1 : /\ c # 0 => a[c] = Comma
                              /\ \A j \in c + 1 .. i - 1 : a[j] = Space
  BY DEF SchemeTokens
<1>3. c = 0
  BY <1>1, <1>2 DEF NoComma
<1> QED  BY <1>1, <1>2, <1>3

\* Without a comma one equals sign is enough for parse_params.
LEMMA NoCommaEquated ==
    ASSUME NEW a \in Texts, NoComma(a), NEW q \in 1 .. Len(a), a[q] = Equals
    PROVE  Equated(a) /\ HasParams(a)
<1>1. Len(a) \in Nat
  BY LenProperties DEF Texts
<1>2. \A p \in 1 .. Len(a) : Near(a, p, q)
  BY <1>1 DEF Near, NoComma
<1> QED  BY <1>2, SymbolFacts DEF Equated, HasParams

\* What follows the first symbol.
LEMMA TailFacts ==
    ASSUME NEW s \in Texts, s # <<>>
    PROVE  /\ Tail(s) \in Texts /\ Len(s) \in Nat \ {0}
           /\ Len(Tail(s)) = Len(s) - 1
           /\ \A i \in 1 .. Len(s) - 1 : Tail(s)[i] = s[i + 1]
           /\ Tail(s) = After(s, 1)
<1>1. Len(s) \in Nat \ {0}
  BY EmptySeq DEF Texts
<1>2. Tail(s) = SubSeq(s, 2, Len(s))
  BY TailIsSubSeq DEF Texts
<1>3. 1 + 1 = 2
  OBVIOUS
<1> QED  BY <1>1, <1>2, <1>3, HeadTailProperties DEF Texts, After

\* Cutting off the scheme commutes with joining.
LEMMA TailJoined ==
    ASSUME NEW a \in Texts, a # <<>>, NEW b \in Texts
    PROVE  /\ Joined(a, b) # <<>>
           /\ Tail(Joined(a, b)) = Joined(Tail(a), b)
<1> DEFINE s == Joined(a, b)
           t == Joined(Tail(a), b)
           n == Len(a)
           m == Len(b)
<1>1. /\ s \in Texts /\ n \in Nat /\ m \in Nat /\ Len(s) = n + 2 + m
      /\ \A i \in 1 .. n : s[i] = a[i]
      /\ s[n + 1] = Comma /\ s[n + 2] = Space
      /\ \A i \in 1 .. m : s[n + 2 + i] = b[i]
  BY JoinedFacts
<1>2. /\ Tail(a) \in Texts /\ n # 0 /\ Len(Tail(a)) = n - 1
      /\ \A i \in 1 .. n - 1 : Tail(a)[i] = a[i + 1]
  BY TailFacts
<1>3. /\ t \in Texts /\ Len(t) = Len(Tail(a)) + 2 + m
      /\ \A i \in 1 .. Len(Tail(a)) : t[i] = Tail(a)[i]
      /\ t[Len(Tail(a)) + 1] = Comma /\ t[Len(Tail(a)) + 2] = Space
      /\ \A i \in 1 .. m : t[Len(Tail(a)) + 2 + i] = b[i]
  BY <1>2, JoinedFacts
<1> HIDE DEF s, t, n, m
<1>4. s # <<>>
  <2>1. Len(s) # 0
    BY <1>1
  <2> QED  BY <2>1, EmptySeq
<1>5. /\ Tail(s) \in Texts /\ Len(Tail(s)) = Len(s) - 1
      /\ \A i \in 1 .. Len(s) - 1 : Tail(s)[i] = s[i + 1]
  BY <1>1, <1>4, TailFacts
<1>6. Len(t) = n + 1 + m /\ Len(s) - 1 = n + 1 + m
  <2>1. n \in Nat /\ m \in Nat /\ n # 0 /\ Len(Tail(a)) = n - 1
        /\ Len(t) = Len(Tail(a)) + 2 + m /\ Len(s) = n + 2 + m
    BY <1>1, <1>2, <1>3
  <2> QED  BY <2>1
<1>7. ASSUME NEW i \in 1 .. n + 1 + m PROVE Tail(s)[i] = t[i]
  <2>1. Tail(s)[i] = s[i + 1]
    BY <1>5, <1>6
  <2>2. CASE i <= n - 1
    <3>1. i \in 1 .. n - 1 /\ i + 1 \in 1 .. n
      BY <1>1, <1>2, <2>2
    <3> QED  BY <1>1, <1>2, <1>3, <2>1, <3>1
  <2>3. CASE i = n \/ i = n + 1
    BY <1>1, <1>2, <1>3, <2>1, <2>3
  <2>4. CASE i > n + 1
    <3>1. PICK j \in 1 .. m : i = n + 1 + j
      <4>1. i - (n + 1) \in 1 .. m /\ i = n + 1 + (i - (n + 1))
        BY <1>1, <2>4
      <4> QED  BY <4>1
    <3>2. i + 1 = n + 2 + j /\ Len(Tail(a)) + 2 + j = i
      BY <1>1, <1>2, <3>1
    <3> QED  BY <1>1, <1>3, <2>1, <3>2
  <2> QED  BY <1>1, <2>2, <2>3, <2>4
<1>8. Tail(s) = t
  BY <1>3, <1>5, <1>6, <1>7, SeqEqual DEF Texts
<1> QED  BY <1>4, <1>8 DEF s, t

\* A challenge of ours begins with the only scheme token it has, and what follows
\* the scheme are its parameters.
LEMMA MoleText ==
    ASSUME NEW o, IsPlain(o.challenge), IsPlain(o.realm)
    PROVE  LET M == MoleValue(o)
               T == Tail(M)
               n == Len(o.challenge)
               m == Len(o.realm)
           IN  /\ n \in Nat /\ m \in Nat
               /\ M \in Texts /\ M # <<>> /\ M[1] = Scheme /\ M[Len(M)] = Quote
               /\ SchemeTokens(M) = {1} /\ SchemeTokens(T) = {}
               /\ Equated(T) /\ HasParams(T)
               /\ T[1] = Space /\ \A j \in 1 .. n + 4 : T[1 + j] = Param("challenge", o.challenge)[j]
               /\ o.realm = NoRealm => Len(T) = n + 5
               /\ o.realm # NoRealm =>
                      /\ T[n + 6] = Comma /\ T[n + 7] = Space
                      /\ \A j \in 1 .. m + 4 : T[n + 7 + j] = Param("realm", o.realm)[j]
                      /\ Len(T) = n + m + 11
<1> DEFINE C == "challenge"
           R == "realm"
           P == Param(C, o.challenge)
           Q == Param(R, o.realm)
           h == <<Scheme, Space>>
           A == h \o P
           B == Tail(A)
           M == MoleValue(o)
           n == Len(o.challenge)
           m == Len(o.realm)
<1>1. /\ C \in Symbols /\ R \in Symbols
      /\ C \notin {Scheme, Space, Comma, Equals} /\ R \notin {Scheme, Space, Comma, Equals}
  BY DEF Symbols, Scheme, Space, Comma, Equals
<1> HIDE DEF C, R
<1>2. /\ o.challenge \in Texts /\ n \in Nat /\ P \in Texts /\ NoComma(P) /\ Len(P) = n + 4
      /\ P[1] = C /\ P[2] = Equals /\ P[n + 4] = Quote
  BY <1>1, PlainParam, ParamText
<1>3. /\ o.realm \in Texts /\ m \in Nat /\ Q \in Texts /\ NoComma(Q) /\ Len(Q) = m + 4
      /\ Q[1] = R /\ Q[2] = Equals /\ Q[m + 4] = Quote
  BY <1>1, PlainParam, ParamText
<1> HIDE DEF P, Q
<1>4. h \in Texts /\ Len(h) = 2 /\ h[1] = Scheme /\ h[2] = Space
  BY SymbolFacts DEF Texts
<1> HIDE DEF h
<1>5. /\ A \in Texts /\ Len(A) = n + 6
      /\ A[1] = Scheme /\ A[2] = Space
      /\ \A j \in 1 .. n + 4 : A[2 + j] = P[j]
  <2>1. /\ A \in Texts /\ Len(A) = Len(h) + Len(P)
        /\ \A i \in 1 .. Len(h) + Len(P) : A[i] = IF i <= Len(h) THEN h[i] ELSE P[i - Len(h)]
    BY <1>2, <1>4, ConcatProperties DEF Texts
  <2> HIDE DEF A
  <2> HIDE DEF n
  <2>2. Len(A) = n + 6 /\ \A i \in 1 .. n + 6 : A[i] = IF i <= 2 THEN h[i] ELSE P[i - 2]
    <3>1. Len(h) = 2 /\ Len(P) = n + 4 /\ n \in Nat
      BY <1>2, <1>4
    <3>2. Len(h) + Len(P) = n + 6
      BY <3>1
    <3> QED  BY <2>1, <3>1, <3>2
  <2>3. \A j \in 1 .. n + 4 : 2 + j \in 1 .. n + 6 /\ ~(2 + j <= 2) /\ (2 + j) - 2 = j
    BY <1>2
  <2>4. 1 \in 1 .. n + 6 /\ 2 \in 1 .. n + 6
    BY <1>2
  <2> QED  BY <1>4, <2>1, <2>2, <2>3, <2>4
<1> HIDE DEF A, n
<1>6. A # <<>>
  <2>1. Len(A) # 0
    BY <1>2, <1>5
  <2> QED  BY <2>1, EmptySeq
<1>7. /\ B \in Texts /\ Len(B) = n + 5 /\ B[1] = Space
      /\ \A j \in 1 .. n + 4 : B[1 + j] = P[j]
  <2>1. /\ B \in Texts /\ Len(B) = Len(A) - 1
        /\ \A i \in 1 .. Len(A) - 1 : B[i] = A[i + 1]
    BY <1>5, <1>6, TailFacts
  <2>2. Len(A) - 1 = n + 5 /\ 1 \in 1 .. n + 5 /\ 1 + 1 = 2
    BY <1>2, <1>5
  <2>3. \A j \in 1 .. n + 4 : 1 + j \in 1 .. n + 5 /\ (1 + j) + 1 = 2 + j
    BY <1>2
  <2> HIDE DEF B
  <2> QED  BY <1>5, <2>1, <2>2, <2>3
<1> HIDE DEF B
<1>8. NoComma(A)
  <2> SUFFICES ASSUME NEW i \in 1 .. n + 6 PROVE A[i] # Comma
    BY <1>5 DEF NoComma
  <2>1. CASE i \in {1, 2}
    BY <1>5, <2>1, SymbolFacts
  <2>2. CASE i \notin {1, 2}
    <3>1. i - 2 \in 1 .. n + 4 /\ i = 2 + (i - 2)
      BY <1>2, <2>2
    <3>2. PICK k \in 1 .. n + 4 : i = 2 + k
      BY <3>1
    <3> QED  BY <1>2, <1>5, <3>2 DEF NoComma
  <2> QED  BY <2>1, <2>2
<1>9. NoComma(B)
  <2> SUFFICES ASSUME NEW i \in 1 .. n + 5 PROVE B[i] # Comma
    BY <1>7 DEF NoComma
  <2>1. CASE i = 1
    BY <1>7, <2>1, SymbolFacts
  <2>2. CASE i # 1
    <3>1. i - 1 \in 1 .. n + 4 /\ i = 1 + (i - 1)
      BY <1>2, <2>2
    <3>2. PICK k \in 1 .. n + 4 : i = 1 + k
      BY <3>1
    <3> QED  BY <1>2, <1>7, <3>2 DEF NoComma
  <2> QED  BY <2>1, <2>2
<1>10. SchemeTokens(A) = {1}
  <2>1. 1 \in SchemeTokens(A)
    <3>1. DOMAIN A = 1 .. n + 6
      BY <1>5, LenProperties DEF Texts
    <3>2. 1 \in 1 .. n + 6 /\ 1 < n + 6 /\ 0 \in 0 .. 1 - 1 /\ 1 + 1 = 2
      BY <1>2
    <3> QED  BY <1>5, <3>1, <3>2 DEF SchemeTokens
  <2>2. ASSUME NEW i \in SchemeTokens(A) PROVE i = 1
    <3>1. i \in 1 .. Len(A) /\ \A j \in 1 .. i - 1 : A[j] = Space
      BY <1>5, <1>8, NoCommaTokens
    <3>2. A[1] # Space
      BY <1>5, SymbolFacts
    <3> QED  BY <1>2, <1>5, <3>1, <3>2
  <2> QED  BY <2>1, <2>2
<1>11. SchemeTokens(B) = {}
  <2> SUFFICES ASSUME NEW i \in SchemeTokens(B) PROVE FALSE
    OBVIOUS
  <2>1. i \in 1 .. Len(B) /\ B[i] = Scheme /\ \A j \in 1 .. i - 1 : B[j] = Space
    BY <1>7, <1>9, NoCommaTokens
  <2>2. B[2] = C
    <3>1. 1 \in 1 .. n + 4 /\ 1 + 1 = 2
      BY <1>2
    <3> QED  BY <1>2, <1>7, <3>1
  <2>3. CASE i = 1
    BY <1>7, <2>1, <2>3, SymbolFacts
  <2>4. CASE i = 2
    BY <1>1, <2>1, <2>2, <2>4
  <2>5. CASE i > 2
    <3>1. 2 \in 1 .. i - 1
      BY <2>1, <2>5
    <3> QED  BY <1>1, <2>1, <2>2, <3>1
  <2> QED  BY <1>2, <1>7, <2>1, <2>3, <2>4, <2>5
<1>12. SchemeTokens(Q) = {}
  <2> SUFFICES ASSUME NEW i \in SchemeTokens(Q) PROVE FALSE
    OBVIOUS
  <2>1. i \in 1 .. Len(Q) /\ Q[i] = Scheme /\ \A j \in 1 .. i - 1 : Q[j] = Space
    BY <1>3, NoCommaTokens
  <2>2. CASE i = 1
    BY <1>1, <1>3, <2>1, <2>2
  <2>3. CASE i # 1
    <3>1. 1 \in 1 .. i - 1
      BY <2>1, <2>3
    <3> QED  BY <1>1, <1>3, <2>1, <3>1
  <2> QED  BY <2>2, <2>3
<1>13. Equated(B) /\ HasParams(B)
  <2>1. 1 + 2 \in 1 .. n + 5 /\ 2 \in 1 .. n + 4
    BY <1>2
  <2>2. B[1 + 2] = Equals
    BY <1>2, <1>7, <2>1
  <2> QED  BY <1>7, <1>9, <2>1, <2>2, NoCommaEquated
<1>14. Equated(Q) /\ HasParams(Q)
  <2>1. 2 \in 1 .. Len(Q)
    BY <1>3
  <2> QED  BY <1>3, <2>1, NoCommaEquated
<1>15. CASE o.realm = NoRealm
  <2>1. M = A
    <3>1. M = A \o <<>>
      BY <1>15 DEF MoleValue, A, P, C, h
    <3> QED  BY <1>5, <3>1, ConcatEmptySeq DEF Texts
  <2>2. A[n + 6] = Quote
    <3>1. n + 4 \in 1 .. n + 4 /\ 2 + (n + 4) = n + 6
      BY <1>2
    <3> QED  BY <1>2, <1>5, <3>1
  <2> HIDE DEF M, m
  <2>3. Tail(M) = B
    BY <2>1 DEF B
  <2> QED  BY <1>2, <1>3, <1>5, <1>6, <1>7, <1>10, <1>11, <1>13, <1>15, <2>1, <2>2, <2>3 DEF M, m, n, P, C
<1>16. CASE o.realm # NoRealm
  <2>1. M = Joined(A, Q)
    BY <1>16 DEF MoleValue, A, P, Q, C, R, h, Joined
  <2>2. Tail(M) = Joined(B, Q) /\ M # <<>>
    BY <1>3, <1>5, <1>6, <2>1, TailJoined DEF B
  <2>3. /\ M \in Texts /\ Len(M) = n + 6 + 2 + (m + 4)
        /\ \A i \in 1 .. n + 6 : M[i] = A[i]
        /\ \A i \in 1 .. m + 4 : M[n + 6 + 2 + i] = Q[i]
    <3>1. /\ Joined(A, Q) \in Texts /\ Len(Joined(A, Q)) = Len(A) + 2 + Len(Q)
          /\ \A i \in 1 .. Len(A) : Joined(A, Q)[i] = A[i]
          /\ \A i \in 1 .. Len(Q) : Joined(A, Q)[Len(A) + 2 + i] = Q[i]
      BY <1>3, <1>5, JoinedFacts
    <3>2. Len(A) = n + 6 /\ Len(Q) = m + 4
      BY <1>3, <1>5
    <3> HIDE DEF M, m
    <3> QED  BY <2>1, <3>1, <3>2
  <2>4. /\ Joined(B, Q) \in Texts /\ Len(Joined(B, Q)) = n + 5 + 2 + (m + 4)
        /\ \A i \in 1 .. n + 5 : Joined(B, Q)[i] = B[i]
        /\ Joined(B, Q)[n + 5 + 1] = Comma /\ Joined(B, Q)[n + 5 + 2] = Space
        /\ \A i \in 1 .. m + 4 : Joined(B, Q)[n + 5 + 2 + i] = Q[i]
    <3>1. /\ Joined(B, Q) \in Texts /\ Len(Joined(B, Q)) = Len(B) + 2 + Len(Q)
          /\ \A i \in 1 .. Len(B) : Joined(B, Q)[i] = B[i]
          /\ Joined(B, Q)[Len(B) + 1] = Comma /\ Joined(B, Q)[Len(B) + 2] = Space
          /\ \A i \in 1 .. Len(Q) : Joined(B, Q)[Len(B) + 2 + i] = Q[i]
      BY <1>3, <1>7, JoinedFacts
    <3>2. Len(B) = n + 5 /\ Len(Q) = m + 4
      BY <1>3, <1>7
    <3> HIDE DEF M, m
    <3> QED  BY <3>1, <3>2
  <2>5. SchemeTokens(M) = {1} /\ SchemeTokens(Joined(B, Q)) = {}
    BY <1>3, <1>5, <1>7, <1>10, <1>11, <1>12, <2>1, TokensJoined
  <2>6. Equated(Joined(B, Q)) /\ HasParams(Joined(B, Q))
    BY <1>3, <1>7, <1>13, <1>14, ParsesJoined
  <2> DEFINE T == Joined(B, Q)
  <2> HIDE DEF M, T, m
  <2>7. M[1] = Scheme /\ M[Len(M)] = Quote
    <3>1. 1 \in 1 .. n + 6 /\ m + 4 \in 1 .. m + 4
      BY <1>2, <1>3
    <3> QED  BY <1>3, <1>5, <2>3, <3>1
  <2>8. T[1] = Space /\ \A j \in 1 .. n + 4 : T[1 + j] = P[j]
    <3>1. 1 \in 1 .. n + 5 /\ \A j \in 1 .. n + 4 : 1 + j \in 1 .. n + 5
      BY <1>2
    <3> QED  BY <1>7, <2>4, <3>1 DEF T
  <2>9. /\ T[n + 6] = Comma /\ T[n + 7] = Space
        /\ \A j \in 1 .. m + 4 : T[n + 7 + j] = Q[j]
        /\ Len(T) = n + m + 11
    <3>1. n + 5 + 1 = n + 6 /\ n + 5 + 2 = n + 7 /\ n + 5 + 2 + (m + 4) = n + m + 11
      BY <1>2, <1>3
    <3> QED  BY <2>4, <3>1 DEF T
  <2> QED  BY <1>2, <1>3, <1>16, <2>2, <2>3, <2>5, <2>6, <2>7, <2>8, <2>9 DEF M, m, n, P, C, Q, R, T
<1> QED  BY <1>15, <1>16

\* What get_param reads off a challenge of ours, whatever follows it.
LEMMA Reads ==
    ASSUME NEW o, IsPlain(o.challenge), IsPlain(o.realm), NEW s \in Texts,
           Len(Tail(MoleValue(o))) <= Len(s),
           \A i \in 1 .. Len(Tail(MoleValue(o))) : s[i] = Tail(MoleValue(o))[i],
           \/ Len(s) = Len(Tail(MoleValue(o)))
           \/ s[Len(Tail(MoleValue(o))) + 1] = Comma
    PROVE  /\ Given(s, "challenge") # {} /\ Get(s, "challenge") = o.challenge
           /\ o.realm # NoRealm =>
                  Given(s, "realm") # {} /\ Get(s, "realm") = o.realm
           /\ \A i \in PartStarts(s) :
                  i <= Len(Tail(MoleValue(o))) => Key(Part(s, i)) \in {<<"challenge">>, <<"realm">>}
<1> DEFINE C == "challenge"
           R == "realm"
           T == Tail(MoleValue(o))
           P == Param(C, o.challenge)
           Q == Param(R, o.realm)
           n == Len(o.challenge)
           m == Len(o.realm)
           l == Len(T)
<1>1. /\ C \in Symbols /\ R \in Symbols /\ C # R
      /\ C \notin {Scheme, Space, Comma, Equals} /\ R \notin {Scheme, Space, Comma, Equals}
  BY DEF Symbols, Scheme, Space, Comma, Equals
<1>2. /\ n \in Nat /\ m \in Nat
      /\ T[1] = Space /\ \A j \in 1 .. n + 4 : T[1 + j] = P[j]
      /\ o.realm = NoRealm => l = n + 5
      /\ o.realm # NoRealm =>
             /\ T[n + 6] = Comma /\ T[n + 7] = Space
             /\ \A j \in 1 .. m + 4 : T[n + 7 + j] = Q[j]
             /\ l = n + m + 11
  BY MoleText
<1>3. /\ Len(s) \in Nat /\ l <= Len(s)
      /\ \A i \in 1 .. l : s[i] = T[i]
      /\ l = Len(s) \/ s[l + 1] = Comma
  BY LenProperties DEF Texts
<1> HIDE DEF C, R
<1>4. /\ NoComma(P) /\ Len(P) = n + 4 /\ o.challenge \in Texts /\ o.realm \in Texts
      /\ NoComma(Q) /\ Len(Q) = m + 4
  BY <1>1, PlainParam, ParamText
<1> HIDE DEF T, P, Q, n, m, l
<1>5. /\ n + 5 <= l /\ n + 5 <= Len(s) /\ l \in Nat
      /\ \A j \in 1 .. n + 5 : j \in 1 .. l
      /\ 1 \in 1 .. l
  BY <1>2, <1>3
<1>6. s[1] = Space /\ \A j \in 1 .. n + 4 : s[1 + j] = P[j]
  <2>1. \A j \in 1 .. n + 4 : 1 + j \in 1 .. n + 5
    BY <1>2
  <2> QED  BY <1>2, <1>3, <1>5, <2>1
<1>7. n + 5 = Len(s) \/ s[n + 6] = Comma
  <2>1. CASE o.realm = NoRealm
    <3>1. l = n + 5 /\ l + 1 = n + 6
      BY <1>2, <2>1
    <3> QED  BY <1>3, <3>1
  <2>2. CASE o.realm # NoRealm
    <3>1. n + 6 \in 1 .. l
      BY <1>2, <2>2
    <3> QED  BY <1>2, <1>3, <2>2, <3>1
  <2> QED  BY <2>1, <2>2
<1>8. Holds(Part(s, 1), C, o.challenge)
  <2>1. /\ \A j \in 1 .. n + 4 : 1 + 1 + j - 1 = 1 + j
        /\ 1 + 1 + n + 3 = n + 5 /\ 1 + 1 + n + 4 = n + 6 /\ 1 \in 1 .. Len(s) /\ 1 \in 0 .. 1
    BY <1>2, <1>3, <1>5
  <2>2. /\ \A j \in 1 .. Len(o.challenge) + 4 : s[1 + 1 + j - 1] = Param(C, o.challenge)[j]
        /\ 1 + 1 + Len(o.challenge) + 3 <= Len(s)
        /\ 1 + 1 + Len(o.challenge) + 3 = Len(s) \/ s[1 + 1 + Len(o.challenge) + 4] = Comma
    BY <1>5, <1>6, <1>7, <2>1 DEF n, P
  <2> QED  BY <1>1, <1>6, <2>1, <2>2, HoldsAt
<1>k. Key(Part(s, 1)) = <<C>>
  <2>1. 1 \in 1 .. Len(s) + 1
    BY <1>3
  <2>2. Part(s, 1) \in Texts
    BY <2>1, PartFacts
  <2> QED  BY <1>1, <1>4, <1>8, <2>2, KeyValue
<1>s. \A i \in PartStarts(s) : i # 1 => /\ i \in 1 .. Len(s) + 1 /\ s[i - 1] = Comma
                                       /\ ~(i - 1 <= n + 5)
  <2> TAKE i \in PartStarts(s)
  <2>1. SUFFICES ASSUME i # 1, i - 1 <= n + 5, i \in 1 .. Len(s) + 1, s[i - 1] = Comma
                 PROVE  FALSE
    BY <1>3, StartFacts
  <2>2. PICK k \in 1 .. n + 5 : k = i - 1
    BY <1>2, <1>3, <2>1
  <2>3. CASE k = 1
    BY <1>6, <2>1, <2>2, <2>3, SymbolFacts
  <2>4. CASE k # 1
    <3>1. k - 1 \in 1 .. n + 4 /\ k = 1 + (k - 1)
      BY <1>2, <2>4
    <3>2. PICK q \in 1 .. n + 4 : k = 1 + q
      BY <3>1
    <3> QED  BY <1>4, <1>6, <2>1, <2>2, <3>2 DEF NoComma
  <2> QED  BY <2>3, <2>4
<1>9. Given(s, C) # {} /\ Get(s, C) = o.challenge
  <2>1. \A j \in PartStarts(s) : ~(j < 1) /\ 1 \in PartStarts(s)
    BY <1>3, StartFacts
  <2> QED  BY <1>1, <1>4, <1>8, <2>1, StartFacts, FirstGiven
<1>10. ASSUME o.realm # NoRealm
       PROVE  /\ Given(s, R) # {} /\ Get(s, R) = o.realm
              /\ \A j \in PartStarts(s) : j <= l => Key(Part(s, j)) \in {<<C>>, <<R>>}
  <2>0. /\ n + 6 \in 1 .. l /\ n + 7 \in 1 .. l
        /\ \A j \in 1 .. m + 4 : n + 7 + j \in 1 .. l
        /\ n + 6 \in 1 .. Len(s) /\ n + 7 \in 1 .. Len(s) /\ l = n + m + 11
    BY <1>2, <1>3, <1>10
  <2>i. PICK i \in 1 .. Len(s) : i = n + 7
    BY <2>0
  <2>1. /\ s[n + 6] = Comma /\ s[i] = Space
        /\ \A j \in 1 .. m + 4 : s[i + j] = Q[j]
    BY <1>2, <1>3, <1>10, <2>0, <2>i
  <2>2. Holds(Part(s, i), R, o.realm)
    <3>1. /\ \A j \in 1 .. m + 4 : i + 1 + j - 1 = i + j
          /\ i + 1 + m + 3 = l /\ i + 1 + m + 4 = l + 1 /\ 1 \in 0 .. 1
      BY <1>2, <1>3, <2>0, <2>i
    <3>2. /\ \A j \in 1 .. Len(o.realm) + 4 : s[i + 1 + j - 1] = Param(R, o.realm)[j]
          /\ i + 1 + Len(o.realm) + 3 <= Len(s)
          /\ i + 1 + Len(o.realm) + 3 = Len(s) \/ s[i + 1 + Len(o.realm) + 4] = Comma
      BY <1>3, <2>1, <3>1 DEF m, Q
    <3> QED  BY <1>1, <2>1, <3>1, <3>2, HoldsAt
  <2>3. i \in PartStarts(s)
    <3>1. n + 6 + 1 = i
      BY <1>2, <2>i
    <3> QED  BY <2>0, <2>1, <3>1, StartFacts
  <2>4. ASSUME NEW j \in PartStarts(s), j < i PROVE j = 1
    <3>1. SUFFICES ASSUME j # 1 PROVE FALSE
      OBVIOUS
    <3>2. j \in 1 .. Len(s) + 1 /\ ~(j - 1 <= n + 5)
      BY <1>s, <3>1
    <3> QED  BY <1>2, <1>3, <2>4, <2>i, <3>2
  <2>5. Given(s, R) # {} /\ Get(s, R) = o.realm
    BY <1>1, <1>4, <1>k, <2>2, <2>3, <2>4, FirstGiven
  <2>6. ASSUME NEW j \in PartStarts(s), j <= l PROVE Key(Part(s, j)) \in {<<C>>, <<R>>}
    <3>0. j \in Nat
      BY <1>3, StartFacts
    <3>1. CASE j < i
      BY <1>k, <2>4, <3>1
    <3>2. CASE j = i
      <4>1. i \in 1 .. Len(s) + 1
        BY <1>3
      <4>2. Part(s, i) \in Texts
        BY <4>1, PartFacts
      <4> QED  BY <1>1, <1>4, <2>2, <3>2, <4>2, KeyValue
    <3>3. CASE j > i
      <4>1. j # 1 /\ j - i \in 1 .. m + 4 /\ i + (j - 1 - i) = j - 1
        BY <1>2, <1>3, <2>0, <2>i, <2>6, <3>0, <3>3
      <4>2. s[j - 1] = Comma
        BY <1>s, <4>1
      <4>3. CASE j - 1 = i
        BY <2>1, <4>2, <4>3, SymbolFacts
      <4>4. CASE j - 1 # i
        <5>1. j - 1 - i \in 1 .. m + 4
          BY <1>2, <3>0, <4>1, <4>4
        <5>2. Q[j - 1 - i] = Comma
          BY <2>1, <4>1, <4>2, <5>1
        <5> QED  BY <1>4, <5>1, <5>2 DEF NoComma
      <4> QED  BY <4>3, <4>4
    <3> QED  BY <2>0, <3>0, <3>1, <3>2, <3>3
  <2> QED  BY <2>5, <2>6
<1>11. ASSUME o.realm = NoRealm, NEW j \in PartStarts(s), j <= l PROVE Key(Part(s, j)) = <<C>>
  <2>1. j = 1
    <3>1. SUFFICES ASSUME j # 1 PROVE FALSE
      OBVIOUS
    <3>2. j \in 1 .. Len(s) + 1 /\ ~(j - 1 <= n + 5)
      BY <1>s, <3>1
    <3>3. j <= n + 5
      BY <1>2, <1>11
    <3> QED  BY <1>2, <1>3, <3>2, <3>3
  <2> QED  BY <1>k, <2>1
<1>12. \A j \in PartStarts(s) : j <= l => Key(Part(s, j)) \in {<<C>>, <<R>>}
  BY <1>10, <1>11
<1> QED  BY <1>9, <1>10, <1>12 DEF C, R, T, l

\* What every challenge is as a text.
LEMMA TextFacts ==
    ASSUME NEW o \in Offers
    PROVE  /\ Text(o) \in Texts /\ Text(o) # <<>> /\ Len(Text(o)) \in Nat \ {0}
           /\ Text(o)[1] \notin {Space, Comma}
           /\ Text(o)[Len(Text(o))] \notin {Space, Comma}
           /\ o.scheme = Scheme => IsPlain(o.challenge) /\ IsPlain(o.realm)
           /\ o.scheme # Scheme =>
                  /\ SchemeTokens(Text(o)) = {} /\ HasParams(Text(o))
                  /\ Text(o) = o.text
<1>1. CASE o.scheme = Scheme
  <2>1. IsPlain(o.challenge) /\ IsPlain(o.realm)
    BY <1>1, HeadersAssumption
  <2>2. /\ MoleValue(o) \in Texts /\ MoleValue(o) # <<>> /\ MoleValue(o)[1] = Scheme
        /\ MoleValue(o)[Len(MoleValue(o))] = Quote
    BY <2>1, MoleText
  <2>3. Len(MoleValue(o)) \in Nat \ {0}
    BY <2>2, TailFacts
  <2> QED  BY <1>1, <2>1, <2>2, <2>3, SymbolFacts DEF Text
<1>2. CASE o.scheme # Scheme
  <2>1. Text(o) = o.text /\ IsForeign(o.text)
    BY <1>2, HeadersAssumption DEF Text
  <2> DEFINE t == o.text
  <2>2. t \in Texts /\ t # <<>> /\ Head(t) \notin {Space, Comma} /\ Last(t) \notin {Space, Comma}
        /\ SchemeTokens(t) = {}
    BY <2>1 DEF IsForeign, Texts
  <2> HIDE DEF t
  <2>3. Len(t) \in Nat \ {0}
    BY <2>2, TailFacts
  <2>4. Head(t) = t[1] /\ Last(t) = t[Len(t)]
    BY <2>2 DEF Last, Texts
  <2>5. HasParams(t)
    <3>1. 1 \in 1 .. Len(t)
      BY <2>3
    <3> QED  BY <2>2, <2>4, <3>1 DEF HasParams
  <2> QED  BY <1>2, <2>1, <2>2, <2>3, <2>4, <2>5 DEF t
<1> QED  BY <1>1, <1>2

\* Entries of responses, without the bounds.
Entries == Seq([offer : Offers, joined : BOOLEAN])

\* The i-th text, and whether the next challenge continues the value.
TextAt(i) == Text(offered[i].offer)
Goes(i) == i < Len(offered) /\ offered[i + 1].joined

\* A text and, if it goes on, the rest of its value.
Extended(t, goes, r) == t \o IF goes THEN <<Comma, Space>> \o r ELSE <<>>

\* A text, joined to what follows it or not.
LEMMA ExtendedFacts ==
    ASSUME NEW t \in Texts, NEW goes \in BOOLEAN, NEW r, goes => r \in Texts
    PROVE  /\ Extended(t, goes, r) \in Texts
           /\ Extended(t, goes, r) = IF goes THEN Joined(t, r) ELSE t
<1>1. CASE goes
  BY <1>1, JoinedFacts DEF Extended, Joined
<1>2. CASE ~goes
  <2>1. t \o <<>> = t
    BY ConcatEmptySeq DEF Texts
  <2> QED  BY <1>2, <2>1 DEF Extended
<1> QED  BY <1>1, <1>2

\* The entries of a response are offers.
LEMMA EntryFacts ==
    ASSUME offered \in Entries, NEW i \in 1 .. Len(offered)
    PROVE  /\ offered[i].offer \in Offers /\ TextAt(i) \in Texts
           /\ Len(offered) \in Nat /\ Goes(i) \in BOOLEAN
           /\ DOMAIN offered = 1 .. Len(offered)
<1>1. offered[i] \in [offer : Offers, joined : BOOLEAN]
  BY ElementOfSeq DEF Entries
<1>2. Len(offered) \in Nat /\ DOMAIN offered = 1 .. Len(offered)
  BY LenProperties DEF Entries
<1>3. offered[i].offer \in Offers
  BY <1>1
<1> QED  BY <1>2, <1>3, TextFacts DEF TextAt, Goes

\* The values from each challenge on, from i.
ValuesFrom(i, g) ==
    /\ g \in [i .. Len(offered) -> Texts]
    /\ \A k \in i .. Len(offered) : g[k] = Extended(TextAt(k), Goes(k), g[k + 1])

\* The recursion of ValueFrom has a solution: backwards from the last entry.
LEMMA ValuesExist ==
    ASSUME offered \in Entries, offered # <<>>
    PROVE  \E g : ValuesFrom(1, g)
<1> DEFINE n == Len(offered)
           Have(i) == \E g : ValuesFrom(i, g)
           Bad == {i \in 1 .. n : ~Have(i)}
<1>n. n \in Nat \ {0}
  BY EmptySeq, LenProperties DEF Entries
<1>t. \A k \in 1 .. n : TextAt(k) \in Texts /\ Goes(k) \in BOOLEAN
  BY EntryFacts
<1>g. \A k \in 1 .. n : Goes(k) => k < n
  BY DEF Goes
<1> HIDE DEF Have, n
<1>1. ASSUME Bad # {} PROVE FALSE
  <2>1. PICK i \in Bad : \A j \in Bad : i >= j
    <3>1. Bad \subseteq 0 .. n
      BY <1>n
    <3> HIDE DEF Bad
    <3> QED  BY <1>n, <1>1, <3>1, Greatest
  <2>i. i \in 1 .. n /\ ~Have(i)
    BY <2>1
  <2>2. CASE i = n
    <3> DEFINE h == [k \in n .. n |-> TextAt(n)]
    <3>1. h \in [n .. n -> Texts] /\ h[n] = TextAt(n) /\ ~Goes(n)
      BY <1>n, <1>t, <1>g
    <3> HIDE DEF h
    <3>2. h[n] = Extended(TextAt(n), Goes(n), h[n + 1])
      BY <1>n, <1>t, <3>1, ExtendedFacts
    <3>3. \A k \in n .. n : k = n
      BY <1>n
    <3>4. ValuesFrom(n, h)
      BY <3>1, <3>2, <3>3 DEF ValuesFrom, n
    <3> QED  BY <2>i, <2>2, <3>4 DEF Have
  <2>3. CASE i # n
    <3>1. i + 1 \in 1 .. n /\ i + 1 \notin Bad
      BY <1>n, <2>1, <2>i, <2>3
    <3>2. PICK g : ValuesFrom(i + 1, g)
      BY <3>1 DEF Have
    <3>g. /\ g \in [i + 1 .. n -> Texts]
          /\ \A k \in i + 1 .. n : g[k] = Extended(TextAt(k), Goes(k), g[k + 1])
      BY <3>2 DEF ValuesFrom, n
    <3> DEFINE first == Extended(TextAt(i), Goes(i), g[i + 1])
               h == [k \in i .. n |-> IF k = i THEN first ELSE g[k]]
    <3>3. g[i + 1] \in Texts
      <4>1. i + 1 \in i + 1 .. n
        BY <3>1
      <4> QED  BY <3>g, <4>1
    <3>4. first \in Texts
      BY <1>t, <2>i, <3>3, ExtendedFacts
    <3>5. \A k \in i .. n : k # i => k \in i + 1 .. n
      BY <2>i
    <3> HIDE DEF first
    <3>6. h \in [i .. n -> Texts]
      BY <3>g, <3>4, <3>5
    <3>7. h[i] = first /\ \A k \in i + 1 .. n : h[k] = g[k]
      BY <2>i
    <3> HIDE DEF h
    <3>8. ASSUME NEW k \in i .. n PROVE h[k] = Extended(TextAt(k), Goes(k), h[k + 1])
      <4>1. CASE k = i
        <5>1. h[k + 1] = g[k + 1]
          <6>1. k + 1 \in i + 1 .. n
            BY <3>1, <4>1
          <6> QED  BY <3>7, <6>1
        <5> QED  BY <3>7, <4>1, <5>1 DEF first
      <4>2. CASE k # i
        <5>1. k \in i + 1 .. n /\ k \in 1 .. n
          BY <2>i, <4>2
        <5>2. h[k] = Extended(TextAt(k), Goes(k), g[k + 1])
          BY <3>g, <3>7, <5>1
        <5>3. CASE Goes(k)
          <6>1. k + 1 \in i + 1 .. n
            BY <1>g, <1>n, <2>i, <5>1, <5>3
          <6> QED  BY <3>7, <5>2, <6>1
        <5>4. CASE ~Goes(k)
          BY <5>2, <5>4 DEF Extended
        <5> QED  BY <5>3, <5>4
      <4> QED  BY <4>1, <4>2
    <3>9. ValuesFrom(i, h)
      BY <3>6, <3>8 DEF ValuesFrom, n
    <3> QED  BY <2>i, <3>9 DEF Have
  <2> QED  BY <2>2, <2>3
<1>2. Have(1)
  BY <1>n, <1>1
<1> QED  BY <1>2 DEF Have

\* The value from a challenge on is its text, joined to the value from the next one
\* on if that one continues it.
LEMMA ValueFacts ==
    ASSUME offered \in Entries, NEW i \in 1 .. Len(offered)
    PROVE  /\ ValueFrom(i) \in Texts
           /\ ValueFrom(i) = IF Goes(i) THEN Joined(TextAt(i), ValueFrom(i + 1)) ELSE TextAt(i)
<1> DEFINE n == Len(offered)
           from[k \in DOMAIN offered] ==
               Text(offered[k].offer) \o
               IF k < Len(offered) /\ offered[k + 1].joined
               THEN <<Comma, Space>> \o from[k + 1] ELSE <<>>
<1>n. n \in Nat /\ DOMAIN offered = 1 .. n /\ offered # <<>>
  BY EntryFacts, LenProperties DEF Entries
<1>1. PICK g : ValuesFrom(1, g)
  <2> HIDE DEF from
  <2> QED  BY <1>n, ValuesExist
<1>g. /\ g \in [1 .. n -> Texts]
      /\ \A k \in 1 .. n : g[k] = Extended(TextAt(k), Goes(k), g[k + 1])
  BY <1>1 DEF ValuesFrom
<1>2. from = [k \in DOMAIN offered |->
                Text(offered[k].offer) \o
                IF k < Len(offered) /\ offered[k + 1].joined
                THEN <<Comma, Space>> \o from[k + 1] ELSE <<>>]
  <2> DEFINE h == [k \in DOMAIN offered |->
                Text(offered[k].offer) \o
                IF k < Len(offered) /\ offered[k + 1].joined
                THEN <<Comma, Space>> \o g[k + 1] ELSE <<>>]
  <2> HIDE DEF from
  <2>1. ASSUME NEW k \in 1 .. n PROVE g[k] = h[k]
    <3>1. h[k] = Extended(TextAt(k), Goes(k), g[k + 1])
      BY <1>n, Zenon DEF Extended, TextAt, Goes
    <3> HIDE DEF h
    <3> QED  BY <1>g, <3>1
  <2>2. DOMAIN h = 1 .. n /\ h = [k \in 1 .. n |-> h[k]]
    BY <1>n
  <2>3. g = [k \in 1 .. n |-> g[k]]
    BY <1>g
  <2> HIDE DEF h
  <2>4. g = h
    BY <2>1, <2>2, <2>3
  <2> QED  BY <2>4, Zenon DEF h, from
<1>3. \A k \in 1 .. n : ValueFrom(k) = from[k]
  BY Zenon DEF ValueFrom
<1> HIDE DEF from
<1>4. ASSUME NEW k \in 1 .. n PROVE from[k] = Extended(TextAt(k), Goes(k), from[k + 1])
  BY <1>2, <1>n, Zenon DEF Extended, TextAt, Goes
<1>t. \A k \in 1 .. n : TextAt(k) \in Texts /\ Goes(k) \in BOOLEAN /\ (Goes(k) => k < n)
  BY EntryFacts DEF Goes
<1> HIDE DEF n
<1>5. ASSUME NEW k \in 1 .. n PROVE from[k] \in Texts
  <2> DEFINE Bad == {x \in 1 .. n : from[x] \notin Texts}
  <2>1. SUFFICES ASSUME Bad # {} PROVE FALSE
    OBVIOUS
  <2>2. PICK x \in Bad : \A y \in Bad : x >= y
    <3>1. Bad \subseteq 0 .. n
      BY <1>n
    <3> HIDE DEF Bad
    <3> QED  BY <1>n, <2>1, <3>1, Greatest
  <2>3. x \in 1 .. n /\ from[x] \notin Texts
    BY <2>2
  <2>4. Goes(x) => from[x + 1] \in Texts
    <3>1. SUFFICES ASSUME Goes(x) PROVE from[x + 1] \in Texts
      OBVIOUS
    <3>2. x + 1 \in 1 .. n /\ ~(x >= x + 1)
      BY <1>n, <1>t, <2>3, <3>1
    <3> QED  BY <2>2, <3>2
  <2>5. Extended(TextAt(x), Goes(x), from[x + 1]) \in Texts
    BY <1>t, <2>3, <2>4, ExtendedFacts
  <2> QED  BY <1>4, <2>3, <2>5
<1>6. i \in 1 .. n
  BY DEF n
<1>7. CASE Goes(i)
  <2>1. i + 1 \in 1 .. n
    BY <1>n, <1>t, <1>6, <1>7
  <2>2. Extended(TextAt(i), Goes(i), from[i + 1]) = Joined(TextAt(i), from[i + 1])
    BY <1>5, <1>6, <1>7, <1>t, <2>1, ExtendedFacts
  <2> QED  BY <1>3, <1>4, <1>5, <1>6, <1>7, <2>1, <2>2
<1>8. CASE ~Goes(i)
  <2>1. Extended(TextAt(i), Goes(i), from[i + 1]) = TextAt(i)
    BY <1>6, <1>8, <1>t, ExtendedFacts
  <2> QED  BY <1>3, <1>4, <1>5, <1>6, <1>8, <2>1
<1> QED  BY <1>7, <1>8

\* A value begins and ends with something solid, so nothing is trimmed off it.
LEMMA ValueSolid ==
    ASSUME offered \in Entries, NEW i \in 1 .. Len(offered)
    PROVE  /\ ValueFrom(i) # <<>> /\ Len(ValueFrom(i)) \in Nat \ {0}
           /\ ValueFrom(i)[1] \notin {Space, Comma}
           /\ ValueFrom(i)[Len(ValueFrom(i))] \notin {Space, Comma}
           /\ Trim(ValueFrom(i)) = ValueFrom(i)
<1> DEFINE n == Len(offered)
           Fine(v) == /\ v # <<>> /\ Len(v) \in Nat \ {0}
                      /\ v[1] \notin {Space, Comma} /\ v[Len(v)] \notin {Space, Comma}
           Bad == {x \in 1 .. n : ~Fine(ValueFrom(x))}
<1>n. n \in Nat
  BY EntryFacts
<1>t. \A k \in 1 .. n : /\ TextAt(k) \in Texts /\ Fine(TextAt(k)) /\ ValueFrom(k) \in Texts
                        /\ Goes(k) => k < n
  BY EntryFacts, TextFacts, ValueFacts DEF TextAt, Goes
<1>v. \A k \in 1 .. n : ValueFrom(k) = IF Goes(k) THEN Joined(TextAt(k), ValueFrom(k + 1)) ELSE TextAt(k)
  BY ValueFacts
<1> HIDE DEF n
<1>1. ASSUME NEW a \in Texts, NEW b \in Texts, Fine(a), Fine(b) PROVE Fine(Joined(a, b))
  <2>1. /\ Joined(a, b) \in Texts
        /\ Len(a) \in Nat /\ Len(b) \in Nat
        /\ Len(Joined(a, b)) = Len(a) + 2 + Len(b)
        /\ \A k \in 1 .. Len(a) : Joined(a, b)[k] = a[k]
        /\ \A k \in 1 .. Len(b) : Joined(a, b)[Len(a) + 2 + k] = b[k]
    BY JoinedFacts
  <2>2. 1 \in 1 .. Len(a) /\ Len(b) \in 1 .. Len(b)
    BY <1>1
  <2>3. Joined(a, b)[1] = a[1] /\ Joined(a, b)[Len(Joined(a, b))] = b[Len(b)]
    BY <2>1, <2>2
  <2>4. Len(Joined(a, b)) \in Nat \ {0}
    BY <2>1
  <2>5. Joined(a, b) # <<>>
    BY <2>4, EmptySeq
  <2> QED  BY <1>1, <2>3, <2>4, <2>5
<1> HIDE DEF Fine
<1>2. ASSUME Bad # {} PROVE FALSE
  <2>2. PICK x \in Bad : \A y \in Bad : x >= y
    <3>1. Bad \subseteq 0 .. n
      BY <1>n
    <3> HIDE DEF Bad
    <3> QED  BY <1>n, <1>2, <3>1, Greatest
  <2>3. x \in 1 .. n /\ ~Fine(ValueFrom(x))
    BY <2>2
  <2>4. CASE Goes(x)
    <3>2. x + 1 \in 1 .. n /\ ~(x >= x + 1)
      BY <1>n, <1>t, <2>3, <2>4
    <3>3. Fine(ValueFrom(x + 1))
      BY <2>2, <3>2
    <3> QED  BY <1>1, <1>t, <1>v, <2>3, <2>4, <3>2, <3>3
  <2>5. CASE ~Goes(x)
    BY <1>t, <1>v, <2>3, <2>5
  <2> QED  BY <2>4, <2>5
<1>3. Fine(ValueFrom(i)) /\ ValueFrom(i) \in Texts
  <2>1. i \in 1 .. n
    BY DEF n
  <2> QED  BY <1>2, <1>t, <2>1
<1> QED  BY <1>3, TrimSame DEF Fine

\* ConcatAssociative for texts.
LEMMA Regroup ==
    \A x, y, z \in Seq(Symbols) : (x \o y) \o z = x \o (y \o z)
BY ONLY ConcatAssociative

\* It does not matter in which order values are joined.
LEMMA JoinedAssociative ==
    ASSUME NEW a \in Texts, NEW b \in Texts, NEW c \in Texts
    PROVE  Joined(a, Joined(b, c)) = Joined(Joined(a, b), c)
<1> DEFINE s == <<Comma, Space>>
<1>1. s \in Seq(Symbols) /\ a \in Seq(Symbols) /\ b \in Seq(Symbols) /\ c \in Seq(Symbols)
  BY SymbolFacts DEF Texts
<1> HIDE DEF s
<1>2. s \o c \in Seq(Symbols) /\ s \o b \in Seq(Symbols)
  BY <1>1, ConcatProperties
<1>3. b \o (s \o c) \in Seq(Symbols)
  BY <1>1, <1>2, ConcatProperties
<1>4. s \o (b \o (s \o c)) = (s \o b) \o (s \o c)
  BY <1>1, <1>2, Regroup
<1>5. a \o ((s \o b) \o (s \o c)) = (a \o (s \o b)) \o (s \o c)
  BY <1>1, <1>2, Regroup
<1> QED  BY <1>4, <1>5 DEF Joined, s

\* The challenges behind x up to e continue its value and are foreign.
Trails(x, e) == \A k \in x + 1 .. e : offered[k].joined /\ ~IsOurs(k)

\* S is the text from the x-th challenge to the e-th.
Stretch(x, e, S) ==
    /\ S \in Texts /\ S # <<>> /\ S[Len(S)] \notin {Space, Comma}
    /\ ValueFrom(x) = IF Goes(e) THEN Joined(S, ValueFrom(e + 1)) ELSE S
    /\ IF x = e THEN S = TextAt(x)
       ELSE \E F \in Texts :
               /\ S = Joined(TextAt(x), F)
               /\ SchemeTokens(F) = {} /\ HasParams(F)
               /\ Equated(F) <=> \A j \in x + 1 .. e : Equated(TextAt(j))

\* A joined value begins and ends as its halves do.
LEMMA JoinedSolid ==
    ASSUME NEW a \in Texts, NEW b \in Texts, b # <<>>
    PROVE  /\ Joined(a, b) # <<>> /\ Len(b) \in Nat \ {0}
           /\ Joined(a, b)[Len(Joined(a, b))] = b[Len(b)]
<1> DEFINE s == Joined(a, b)
<1>1. /\ s \in Texts
      /\ Len(a) \in Nat /\ Len(b) \in Nat
      /\ Len(s) = Len(a) + 2 + Len(b)
      /\ \A k \in 1 .. Len(b) : s[Len(a) + 2 + k] = b[k]
  BY JoinedFacts
<1> HIDE DEF s
<1>2. Len(b) # 0
  BY EmptySeq, TailFacts
<1>3. Len(b) \in 1 .. Len(b) /\ Len(s) # 0
  BY <1>1, <1>2
<1>4. s # <<>>
  BY <1>3, EmptySeq
<1>5. s[Len(s)] = b[Len(b)]
  BY <1>1, <1>3
<1> QED  BY <1>1, <1>2, <1>4, <1>5 DEF s

\* A value splits at any challenge in it: the text up to there, joined to the rest.
LEMMA Stretches ==
    ASSUME offered \in Entries, NEW e \in 1 .. Len(offered), NEW x \in 1 .. e, Trails(x, e)
    PROVE  \E S : Stretch(x, e, S)
<1> DEFINE n == Len(offered)
           Have(y) == \E S : Stretch(y, e, S)
           Bad == {y \in x .. e : ~Have(y)}
<1>n. n \in Nat /\ e \in 1 .. n /\ x \in 1 .. e
  BY EntryFacts
<1>t. ASSUME NEW k \in 1 .. n
      PROVE  /\ TextAt(k) \in Texts /\ TextAt(k) # <<>>
             /\ TextAt(k)[Len(TextAt(k))] \notin {Space, Comma}
             /\ ~IsOurs(k) => SchemeTokens(TextAt(k)) = {} /\ HasParams(TextAt(k))
             /\ Goes(k) <=> k < n /\ offered[k + 1].joined
             /\ ValueFrom(k) \in Texts
             /\ ValueFrom(k) = IF Goes(k) THEN Joined(TextAt(k), ValueFrom(k + 1)) ELSE TextAt(k)
  BY EntryFacts, TextFacts, ValueFacts DEF TextAt, Goes, IsOurs
<1>x. \A k \in x + 1 .. e : offered[k].joined /\ ~IsOurs(k)
  BY DEF Trails
<1> HIDE DEF n, Have
<1>1. ASSUME Bad # {} PROVE FALSE
  <2>1. PICK i \in Bad : \A j \in Bad : i >= j
    <3>1. Bad \subseteq 0 .. n
      BY <1>n
    <3> HIDE DEF Bad
    <3> QED  BY <1>n, <1>1, <3>1, Greatest
  <2>i. i \in x .. e /\ i \in 1 .. n /\ ~Have(i)
    BY <1>n, <2>1
  <2>2. CASE i = e
    <3>1. Stretch(e, e, TextAt(e))
      BY <1>n, <1>t DEF Stretch
    <3> QED  BY <2>i, <2>2, <3>1 DEF Have
  <2>3. CASE i # e
    <3>1. i + 1 \in x .. e /\ i + 1 \notin Bad /\ i + 1 \in 1 .. n /\ i < n /\ i + 1 \in x + 1 .. e
      BY <1>n, <2>1, <2>i, <2>3
    <3>2. PICK G : Stretch(i + 1, e, G)
      BY <3>1 DEF Have
    <3>g. /\ G \in Texts /\ G # <<>> /\ G[Len(G)] \notin {Space, Comma}
          /\ ValueFrom(i + 1) = IF Goes(e) THEN Joined(G, ValueFrom(e + 1)) ELSE G
      BY <3>2 DEF Stretch
    <3>3. SchemeTokens(TextAt(i + 1)) = {} /\ HasParams(TextAt(i + 1)) /\ TextAt(i + 1) \in Texts
      BY <1>t, <1>x, <3>1
    <3>4. /\ SchemeTokens(G) = {} /\ HasParams(G)
          /\ Equated(G) <=> \A j \in i + 1 .. e : Equated(TextAt(j))
      <4>1. CASE i + 1 = e
        <5>1. G = TextAt(i + 1)
          BY <3>2, <4>1 DEF Stretch
        <5>2. \A j \in i + 1 .. e : j = i + 1
          BY <1>n, <4>1
        <5>3. i + 1 \in i + 1 .. e
          BY <1>n, <2>i, <4>1
        <5> QED  BY <3>3, <5>1, <5>2, <5>3
      <4>2. CASE i + 1 # e
        <5>1. PICK F \in Texts :
                 /\ G = Joined(TextAt(i + 1), F)
                 /\ SchemeTokens(F) = {} /\ HasParams(F)
                 /\ Equated(F) <=> \A j \in i + 1 + 1 .. e : Equated(TextAt(j))
          BY <3>2, <4>2 DEF Stretch
        <5>2. SchemeTokens(G) = {}
          BY <3>3, <5>1, TokensJoined
        <5>3. HasParams(G) /\ (Equated(G) <=> Equated(TextAt(i + 1)) /\ Equated(F))
          BY <3>3, <5>1, ParsesJoined
        <5>4. \A j : j \in i + 1 .. e <=> j = i + 1 \/ j \in i + 1 + 1 .. e
          BY <1>n, <2>i, <3>1
        <5> QED  BY <5>1, <5>2, <5>3, <5>4
      <4> QED  BY <4>1, <4>2
    <3> DEFINE S == Joined(TextAt(i), G)
    <3>5. /\ TextAt(i) \in Texts
          /\ S \in Texts /\ S # <<>> /\ S[Len(S)] \notin {Space, Comma}
      <4>1. TextAt(i) \in Texts
        BY <1>t, <2>i
      <4>2. S \in Texts
        BY <3>g, <4>1, JoinedFacts
      <4>3. S # <<>> /\ S[Len(S)] = G[Len(G)]
        BY <3>g, <4>1, JoinedSolid
      <4> QED  BY <3>g, <4>1, <4>2, <4>3
    <3>6. ValueFrom(i) = Joined(TextAt(i), ValueFrom(i + 1))
      BY <1>t, <1>x, <2>i, <3>1
    <3>7. ValueFrom(i) = IF Goes(e) THEN Joined(S, ValueFrom(e + 1)) ELSE S
      <4>1. CASE Goes(e)
        <5>1. e + 1 \in 1 .. n
          BY <1>n, <1>t, <4>1
        <5>2. ValueFrom(e + 1) \in Texts
          BY <1>t, <5>1
        <5> QED  BY <3>g, <3>5, <3>6, <4>1, <5>2, JoinedAssociative
      <4>2. CASE ~Goes(e)
        BY <3>g, <3>6, <4>2
      <4> QED  BY <4>1, <4>2
    <3> HIDE DEF S
    <3>8. Stretch(i, e, S)
      BY <2>3, <3>g, <3>4, <3>5, <3>7 DEF Stretch, S
    <3> QED  BY <2>i, <3>8 DEF Have
  <2> QED  BY <2>2, <2>3
<1>2. Have(x)
  <2>1. x \in x .. e
    BY <1>n
  <2> QED  BY <1>1, <2>1
<1> QED  BY <1>2 DEF Have

\* A stretch of foreign challenges has no token, one behind a challenge of
\* ours only that one's.
LEMMA StretchTokens ==
    ASSUME offered \in Entries, NEW e \in 1 .. Len(offered), NEW x \in 1 .. e, NEW S,
           Stretch(x, e, S)
    PROVE  SchemeTokens(S) = IF IsOurs(x) THEN {1} ELSE {}
<1>1. x \in 1 .. Len(offered) /\ Len(offered) \in Nat
  BY EntryFacts
<1>2. TextAt(x) \in Texts /\ SchemeTokens(TextAt(x)) = IF IsOurs(x) THEN {1} ELSE {}
  <2>1. offered[x].offer \in Offers /\ TextAt(x) \in Texts
    BY <1>1, EntryFacts
  <2>2. CASE IsOurs(x)
    <3>1. TextAt(x) = MoleValue(offered[x].offer)
          /\ IsPlain(offered[x].offer.challenge) /\ IsPlain(offered[x].offer.realm)
      BY <2>1, <2>2, TextFacts DEF TextAt, Text, IsOurs
    <3> QED  BY <2>1, <2>2, <3>1, MoleText
  <2>3. CASE ~IsOurs(x)
    BY <2>1, <2>3, TextFacts DEF TextAt, IsOurs
  <2> QED  BY <2>1, <2>2, <2>3
<1>3. CASE x = e
  BY <1>2, <1>3 DEF Stretch
<1>4. CASE x # e
  <2>1. PICK F \in Texts : S = Joined(TextAt(x), F) /\ SchemeTokens(F) = {}
    BY <1>4 DEF Stretch
  <2> QED  BY <1>2, <2>1, TokensJoined
<1> QED  BY <1>3, <1>4

\* The stretch ends where the value does or the next challenge of ours begins.
Stops(e) == e = Len(offered) \/ ~offered[e + 1].joined \/ IsOurs(e + 1)

\* What is left of a challenge of ours and what trails it is found, unless one
\* of those that trail it has a part without an equals sign.
LEMMA SpoiledFacts ==
    ASSUME offered \in Entries, NEW e \in 1 .. Len(offered), NEW x \in 1 .. e,
           Trails(x, e), Stops(e)
    PROVE  Spoiled(x) <=> \E j \in x + 1 .. e : ~Equated(TextAt(j))
<1>n. Len(offered) \in Nat
  BY EntryFacts
<1>1. ASSUME NEW j \in 1 .. Len(offered), ~IsOurs(j) PROVE Spoils(j) <=> ~Equated(TextAt(j))
  <2>1. /\ TextAt(j) \in Texts /\ HasParams(TextAt(j)) /\ TextAt(j) = offered[j].offer.text
    BY <1>1, EntryFacts, TextFacts DEF TextAt, IsOurs
  <2>2. ParamsParse(TextAt(j)) <=> Equated(TextAt(j))
    BY <2>1, Parses
  <2> QED  BY <1>1, <2>1, <2>2 DEF Spoils
<1>2. ASSUME NEW j \in x + 1 .. e, ~Equated(TextAt(j)) PROVE Spoiled(x)
  <2>1. j \in 1 .. Len(offered) /\ j \in x + 1 .. Len(offered)
        /\ \A k \in x + 1 .. j : k \in x + 1 .. e
    BY <1>n
  <2>2. \A k \in x + 1 .. j : offered[k].joined /\ ~IsOurs(k)
    BY <2>1 DEF Trails
  <2>3. Spoils(j)
    BY <1>1, <1>2, <2>1 DEF Trails
  <2> QED  BY <2>1, <2>2, <2>3 DEF Spoiled
<1>3. ASSUME Spoiled(x) PROVE \E j \in x + 1 .. e : ~Equated(TextAt(j))
  <2>1. PICK j \in x + 1 .. Len(offered) :
            Spoils(j) /\ \A k \in x + 1 .. j : offered[k].joined /\ ~IsOurs(k)
    BY <1>3 DEF Spoiled
  <2>2. j <= e
    <3>1. SUFFICES ASSUME j > e PROVE FALSE
      BY <1>n, <2>1
    <3>2. e + 1 \in x + 1 .. j /\ e # Len(offered)
      BY <1>n, <2>1, <3>1
    <3> QED  BY <2>1, <3>2 DEF Stops
  <2>3. j \in x + 1 .. e /\ j \in 1 .. Len(offered)
    BY <1>n, <2>1, <2>2
  <2>4. ~IsOurs(j)
    BY <2>1 DEF Spoils
  <2> QED  BY <1>1, <2>1, <2>3, <2>4
<1> QED  BY <1>2, <1>3

\* What parse_challenges pushes for a challenge of ours and what trails it.
LEMMA SegmentFacts ==
    ASSUME offered \in Entries, NEW e \in 1 .. Len(offered), NEW x \in 1 .. e,
           Trails(x, e), Stops(e), IsOurs(x), NEW S, Stretch(x, e, S)
    PROVE  /\ S[1] = Scheme /\ SchemeTokens(Tail(S)) = {} /\ SchemeTokens(S) = {1}
           /\ IF IsGood(x) /\ ~Spoiled(x)
              THEN \E c : /\ ChallengeIn(S) = <<c>>
                          /\ c.challenge = offered[x].offer.challenge
                          /\ offered[x].offer.realm # NoRealm =>
                                 c.realm = offered[x].offer.realm
              ELSE ChallengeIn(S) = <<>>
<1> DEFINE o == offered[x].offer
           T == Tail(MoleValue(o))
           s == Tail(S)
<1>1. /\ TextAt(x) = MoleValue(o) /\ IsPlain(o.challenge) /\ IsPlain(o.realm)
  <2>1. o \in Offers
    BY EntryFacts
  <2> QED  BY <2>1, TextFacts DEF TextAt, Text, IsOurs
<1>2. /\ MoleValue(o) \in Texts /\ MoleValue(o) # <<>> /\ MoleValue(o)[1] = Scheme
      /\ SchemeTokens(T) = {} /\ Equated(T) /\ HasParams(T)
  BY <1>1, MoleText
<1>3. T \in Texts /\ Len(T) \in Nat /\ Len(MoleValue(o)) \in Nat \ {0}
  BY <1>2, TailFacts, LenProperties DEF Texts
<1>4. SchemeTokens(S) = {1}
  BY StretchTokens
<1> HIDE DEF T, o
<1>5. /\ S[1] = Scheme /\ s \in Texts /\ SchemeTokens(s) = {}
      /\ ParamsParse(s) <=> ~Spoiled(x)
      /\ Len(T) <= Len(s) /\ \A i \in 1 .. Len(T) : s[i] = T[i]
      /\ Len(s) = Len(T) \/ s[Len(T) + 1] = Comma
  <2>1. CASE x = e
    <3>1. S = MoleValue(o)
      BY <1>1, <2>1 DEF Stretch
    <3>2. s = T
      BY <3>1 DEF T
    <3>3. ~Spoiled(x)
      <4>1. ~\E j \in x + 1 .. e : TRUE
        BY <2>1
      <4> QED  BY <4>1, SpoiledFacts
    <3>4. ParamsParse(T)
      BY <1>2, <1>3, Parses
    <3>5. Len(T) <= Len(T)
      BY <1>3
    <3> HIDE DEF s
    <3> QED  BY <1>2, <1>3, <3>1, <3>2, <3>3, <3>4, <3>5
  <2>2. CASE x # e
    <3>1. PICK F \in Texts :
               /\ S = Joined(TextAt(x), F)
               /\ SchemeTokens(F) = {} /\ HasParams(F)
               /\ Equated(F) <=> \A j \in x + 1 .. e : Equated(TextAt(j))
      BY <2>2 DEF Stretch
    <3>2. s = Joined(T, F)
      BY <1>1, <1>2, <3>1, TailJoined DEF T
    <3> HIDE DEF s
    <3>3. s \in Texts /\ SchemeTokens(s) = {}
      <4>1. s \in Texts
        BY <1>3, <3>1, <3>2, JoinedFacts
      <4>2. SchemeTokens(s) = SchemeTokens(T) \union {Len(T) + 2 + j : j \in SchemeTokens(F)}
        BY <1>3, <3>1, <3>2, TokensJoined
      <4> QED  BY <1>2, <3>1, <4>1, <4>2
    <3>4. ParamsParse(s) <=> ~Spoiled(x)
      <4>1. Equated(s) <=> Equated(F)
        BY <1>2, <1>3, <3>1, <3>2, ParsesJoined
      <4>2. HasParams(s)
        BY <1>2, <1>3, <3>1, <3>2, ParsesJoined
      <4>3. ParamsParse(s) <=> Equated(s)
        BY <3>3, <4>2, Parses
      <4> QED  BY <3>1, <4>1, <4>3, SpoiledFacts
    <3>5. /\ Len(F) \in Nat /\ Len(s) = Len(T) + 2 + Len(F)
          /\ \A i \in 1 .. Len(T) : s[i] = T[i]
          /\ s[Len(T) + 1] = Comma
      BY <1>3, <3>1, <3>2, JoinedFacts
    <3>6. Len(T) <= Len(s)
      <4>1. Len(T) <= Len(T) + 2 + Len(F)
        BY <1>3, <3>5
      <4> QED  BY <3>5, <4>1
    <3>7. S[1] = Scheme
      <4>1. PICK a \in Texts : a = MoleValue(o)
        BY <1>2
      <4>2. S = Joined(a, F) /\ 1 \in 1 .. Len(a)
        BY <1>1, <1>3, <3>1, <4>1
      <4>3. \A i \in 1 .. Len(a) : Joined(a, F)[i] = a[i]
        BY <3>1, JoinedFacts
      <4>4. S[1] = a[1]
        BY <4>2, <4>3
      <4> QED  BY <1>2, <4>1, <4>4
    <3> QED  BY <3>3, <3>4, <3>5, <3>6, <3>7
  <2> QED  BY <2>1, <2>2
<1>6. /\ Given(s, "challenge") # {} /\ Get(s, "challenge") = o.challenge
      /\ o.realm # NoRealm => Given(s, "realm") # {} /\ Get(s, "realm") = o.realm
  <2> HIDE DEF s
  <2> QED  BY <1>1, <1>5, Reads DEF T
<1>7. IsGood(x) <=> o.challenge \in DOMAIN Decoded
  BY DEF IsGood, o
<1> DEFINE r == IF Given(s, "realm") = {} THEN NoRealm ELSE Get(s, "realm")
           c == [challenge |-> Get(s, "challenge"), realm |-> r]
<1>8. o.realm # NoRealm => r = o.realm
  <2> HIDE DEF s
  <2> QED  BY <1>6
<1>9. ChallengeIn(S) = IF ParamsParse(s) /\ Given(s, "challenge") # {}
                            /\ Get(s, "challenge") \in DOMAIN Decoded
                       THEN <<c>> ELSE <<>>
  BY Zenon DEF ChallengeIn
<1>10. c.challenge = Get(s, "challenge") /\ c.realm = r
  <2> HIDE DEF r, s
  <2> QED  OBVIOUS
<1> HIDE DEF c, r, s
<1>11. CASE IsGood(x) /\ ~Spoiled(x)
  <2>1. ChallengeIn(S) = <<c>>
    BY <1>5, <1>6, <1>7, <1>9, <1>11
  <2>2. c.challenge = o.challenge /\ (o.realm # NoRealm => c.realm = o.realm)
    BY <1>6, <1>8, <1>10
  <2> QED  BY <1>4, <1>5, <1>11, <2>1, <2>2 DEF o, s
<1>12. CASE ~(IsGood(x) /\ ~Spoiled(x))
  <2>1. ChallengeIn(S) = <<>>
    BY <1>5, <1>6, <1>7, <1>9, <1>12
  <2> QED  BY <1>4, <1>5, <1>12, <2>1 DEF s
<1> QED  BY <1>11, <1>12

\* r ends in v, which begins behind position p, and has no token before.
EndsIn(r, p, v) ==
    /\ r \in Texts /\ v \in Texts /\ p \in Nat
    /\ Len(r) = p + Len(v)
    /\ \A j \in 1 .. Len(v) : r[p + j] = v[j]
    /\ SchemeTokens(r) = {p + j : j \in SchemeTokens(v)}

\* A value ends in itself.
LEMMA EndsInItself ==
    ASSUME NEW v \in Texts
    PROVE  EndsIn(v, 0, v)
<1>1. Len(v) \in Nat /\ DOMAIN v = 1 .. Len(v)
  BY LenProperties DEF Texts
<1>2. \A j \in 1 .. Len(v) : 0 + j = j
  BY <1>1
<1>3. SchemeTokens(v) \subseteq 1 .. Len(v)
  BY <1>1 DEF SchemeTokens
<1>4. \A j \in SchemeTokens(v) : 0 + j = j
  BY <1>2, <1>3
<1>5. SchemeTokens(v) = {0 + j : j \in SchemeTokens(v)}
  BY <1>4
<1> QED  BY <1>1, <1>2, <1>5 DEF EndsIn

\* A joined value ends in its second half, and no token is before it if the first
\* half has none.
LEMMA EndsInSecond ==
    ASSUME NEW f \in Texts, NEW v \in Texts, SchemeTokens(f) = {}
    PROVE  EndsIn(Joined(f, v), Len(f) + 2, v)
<1>1. /\ Joined(f, v) \in Texts
      /\ Len(f) \in Nat /\ Len(v) \in Nat
      /\ Len(Joined(f, v)) = Len(f) + 2 + Len(v)
      /\ \A i \in 1 .. Len(v) : Joined(f, v)[Len(f) + 2 + i] = v[i]
  BY JoinedFacts
<1>2. SchemeTokens(Joined(f, v)) = {Len(f) + 2 + j : j \in SchemeTokens(v)}
  <2>1. SchemeTokens(Joined(f, v)) = SchemeTokens(f) \union {Len(f) + 2 + j : j \in SchemeTokens(v)}
    BY TokensJoined
  <2> QED  BY <2>1
<1>3. Len(f) + 2 \in Nat
  BY <1>1
<1> QED  BY <1>1, <1>2, <1>3 DEF EndsIn

\* Tokens are positions.
LEMMA TokenRange ==
    ASSUME NEW t \in Texts
    PROVE  SchemeTokens(t) \subseteq 1 .. Len(t) /\ Len(t) \in Nat
BY LenProperties DEF Texts, SchemeTokens

\* The least token, where there is one at 1 of v.
LEMMA FirstToken ==
    ASSUME NEW v \in Texts, 1 \in SchemeTokens(v), NEW p \in Nat
    PROVE  Min({p + j : j \in SchemeTokens(v)}) = p + 1
<1> DEFINE A == {p + j : j \in SchemeTokens(v)}
<1>1. SchemeTokens(v) \subseteq 1 .. Len(v) /\ Len(v) \in Nat
  BY TokenRange
<1>2. A \subseteq Nat /\ p + 1 \in A /\ \A i \in A : i >= p + 1
  BY <1>1
<1>3. Min(A) \in A /\ Min(A) <= p + 1
  <2> HIDE DEF A
  <2> QED  BY <1>2, Least
<1> HIDE DEF A
<1>4. Min(A) \in Nat /\ Min(A) >= p + 1
  BY <1>2, <1>3
<1>5. Min(A) = p + 1
  BY <1>3, <1>4
<1> QED  BY <1>5 DEF A

\* What one turn of the loop in parse_challenges cuts off, and what it leaves.
EndOf(r) == SegmentEnd(r, Min(SchemeTokens(r)))
SegmentOf(r) == TrimEnd(SubSeq(r, Min(SchemeTokens(r)), EndOf(r)), {Comma, Space})
RestOf(r) == After(r, EndOf(r))

\* A turn cuts off all of what begins with the first token and has no other, and
\* leaves what begins with the next.
LEMMA Cut ==
    ASSUME NEW S \in Texts, S # <<>>, S[Len(S)] \notin {Space, Comma},
           1 \in SchemeTokens(S), SchemeTokens(Tail(S)) = {},
           NEW a \in 0 .. 1, NEW V, a = 1 => V \in Texts /\ 1 \in SchemeTokens(V),
           NEW v, v = IF a = 1 THEN Joined(S, V) ELSE S,
           NEW r, NEW p, EndsIn(r, p, v)
    PROVE  /\ SchemeTokens(r) # {}
           /\ SegmentOf(r) = S
           /\ RestOf(r) = IF a = 1 THEN V ELSE <<>>
<1>1. /\ r \in Texts /\ v \in Texts /\ p \in Nat
      /\ Len(r) = p + Len(v)
      /\ \A j \in 1 .. Len(v) : r[p + j] = v[j]
      /\ SchemeTokens(r) = {p + j : j \in SchemeTokens(v)}
  BY DEF EndsIn
<1>s. Len(S) \in Nat \ {0} /\ Len(v) \in Nat
  BY <1>1, TailFacts, LenProperties DEF Texts
<1> DEFINE l == IF a = 1 THEN Len(S) + 2 ELSE Len(S)
           w == IF a = 1 THEN Len(V) ELSE 0
<1>2. /\ l \in Nat /\ w \in Nat /\ Len(v) = l + w
      /\ \A j \in 1 .. Len(S) : v[j] = S[j]
      /\ \A j \in Len(S) + 1 .. l : v[j] \in {Comma, Space}
      /\ \A j \in 1 .. w : v[l + j] = V[j]
  <2>1. CASE a = 1
    <3>1. /\ Len(V) \in Nat /\ Len(v) = Len(S) + 2 + Len(V)
          /\ \A j \in 1 .. Len(S) : v[j] = S[j]
          /\ v[Len(S) + 1] = Comma /\ v[Len(S) + 2] = Space
          /\ \A j \in 1 .. Len(V) : v[Len(S) + 2 + j] = V[j]
      BY <2>1, JoinedFacts
    <3>2. \A j \in Len(S) + 1 .. Len(S) + 2 : j = Len(S) + 1 \/ j = Len(S) + 2
      BY <1>s
    <3> QED  BY <1>s, <2>1, <3>1, <3>2
  <2>2. CASE a # 1
    BY <1>s, <2>2
  <2> QED  BY <2>1, <2>2
<1>3. 1 \in SchemeTokens(v)
  <2>1. CASE a = 1
    <3>1. SchemeTokens(Joined(S, V)) = SchemeTokens(S) \union {Len(S) + 2 + j : j \in SchemeTokens(V)}
      BY <2>1, TokensJoined
    <3> QED  BY <2>1, <3>1
  <2> QED  BY <2>1
<1>4. SchemeTokens(r) # {} /\ Min(SchemeTokens(r)) = p + 1
  BY <1>1, <1>3, FirstToken
<1>5. v # <<>> /\ Tail(v) = IF a = 1 THEN Joined(Tail(S), V) ELSE Tail(S)
  BY TailJoined
<1>6. After(r, p + 1) = Tail(v)
  <2> DEFINE c == After(r, p + 1)
             b == Tail(v)
  <2>0. Len(v) # 0 /\ 1 <= Len(v)
    BY <1>1, <1>5, <1>s, TailFacts
  <2>1. p + 1 \in 0 .. Len(r) /\ Len(r) - (p + 1) = Len(v) - 1
    BY <1>1, <1>s, <2>0
  <2>2. c \in Texts /\ Len(c) = Len(r) - (p + 1) /\ \A j \in 1 .. Len(r) - (p + 1) : c[j] = r[p + 1 + j]
    BY <1>1, <2>1, AfterFacts
  <2>3. b \in Texts /\ Len(b) = Len(v) - 1 /\ \A j \in 1 .. Len(v) - 1 : b[j] = v[j + 1]
    BY <1>1, <1>5, TailFacts
  <2>4. \A j \in 1 .. Len(v) - 1 : p + 1 + j = p + (j + 1) /\ j + 1 \in 1 .. Len(v)
    BY <1>1, <1>s
  <2> HIDE DEF c, b
  <2>5. \A j \in 1 .. Len(v) - 1 : c[j] = b[j]
    BY <1>1, <2>1, <2>2, <2>3, <2>4
  <2>6. Len(c) = Len(b) /\ \A j \in 1 .. Len(c) : c[j] = b[j]
    BY <2>1, <2>2, <2>3, <2>5
  <2>7. c = b
    BY <2>2, <2>3, <2>6, SeqEqual DEF Texts
  <2> QED  BY <2>7 DEF c, b
<1> DEFINE end == SegmentEnd(r, p + 1)
<1>7. end = p + l
  <2>1. CASE a = 1
    <3>1. Tail(S) \in Texts /\ Len(Tail(S)) = Len(S) - 1
      BY TailFacts
    <3>2. SchemeTokens(Tail(v)) = {Len(Tail(S)) + 2 + j : j \in SchemeTokens(V)}
      <4>1. SchemeTokens(Joined(Tail(S), V)) =
                SchemeTokens(Tail(S)) \union {Len(Tail(S)) + 2 + j : j \in SchemeTokens(V)}
        BY <2>1, <3>1, TokensJoined
      <4> QED  BY <1>5, <2>1, <4>1
    <3>3. PICK q \in Nat : q = Len(Tail(S)) + 2
      BY <1>s, <3>1
    <3>4. Min(SchemeTokens(Tail(v))) = q + 1 /\ SchemeTokens(Tail(v)) # {}
      BY <2>1, <3>2, <3>3, FirstToken
    <3>5. p + 1 + (q + 1) - 1 = p + (Len(S) + 2)
      BY <1>1, <1>s, <3>1, <3>3
    <3> QED  BY <1>6, <2>1, <3>4, <3>5 DEF SegmentEnd
  <2>2. CASE a # 1
    <3>1. SchemeTokens(Tail(v)) = {} /\ Len(r) = p + Len(S)
      BY <1>1, <1>5, <2>2
    <3> QED  BY <1>6, <2>2, <3>1 DEF SegmentEnd
  <2> QED  BY <2>1, <2>2
<1> HIDE DEF end
<1>8. After(r, end) = IF a = 1 THEN V ELSE <<>>
  <2> DEFINE c == After(r, end)
  <2> HIDE DEF l, w
  <2>1. end \in 0 .. Len(r) /\ Len(r) - end = w
    BY <1>1, <1>2, <1>7
  <2>2. c \in Texts /\ Len(c) = Len(r) - end /\ \A j \in 1 .. Len(r) - end : c[j] = r[end + j]
    BY <1>1, <2>1, AfterFacts
  <2> HIDE DEF c
  <2>3. ASSUME NEW j \in 1 .. w PROVE c[j] = V[j]
    <3>1. PICK x \in 1 .. Len(v) : x = l + j
      BY <1>2
    <3>2. end + j = p + x
      BY <1>1, <1>2, <1>7, <3>1
    <3>3. c[j] = r[p + x]
      BY <2>1, <2>2, <3>2
    <3>4. r[p + x] = v[x] /\ v[x] = V[j]
      BY <1>1, <1>2, <3>1
    <3> QED  BY <3>3, <3>4
  <2>4. CASE a = 1
    <3>1. w = Len(V)
      BY <2>4 DEF w
    <3> QED  BY <2>1, <2>2, <2>3, <2>4, <3>1, SeqEqual DEF Texts, c
  <2>5. CASE a # 1
    <3>1. w = 0
      BY <2>5 DEF w
    <3> QED  BY <2>1, <2>2, <2>5, <3>1, EmptySeq DEF Texts, c
  <2> QED  BY <2>4, <2>5
<1> DEFINE g == SubSeq(r, p + 1, end)
           blanks == {Comma, Space}
<1>9. g \in Texts /\ Len(g) = l /\ \A j \in 1 .. l : g[j] = v[j]
  <2> HIDE DEF l, w
  <2>1. PICK i \in Nat : i = p + 1
    BY <1>1
  <2>2. end \in Int /\ (i <= end => end - i + 1 = l) /\ (~(i <= end) => l = 0)
    BY <1>1, <1>2, <1>7, <2>1
  <2>3. \A j \in i .. end : j \in 1 .. Len(r)
    BY <1>1, <1>2, <1>7, <2>1
  <2>4. \A j \in i .. end : r[j] \in Symbols
    BY <1>1, <2>3, ElementOfSeq DEF Texts
  <2>5. /\ SubSeq(r, i, end) \in Seq(Symbols)
        /\ Len(SubSeq(r, i, end)) = IF i <= end THEN end - i + 1 ELSE 0
        /\ \A j \in 1 .. end - i + 1 : SubSeq(r, i, end)[j] = r[i + j - 1]
    BY <2>1, <2>2, <2>4, SubSeqProperties
  <2>6. g = SubSeq(r, i, end)
    BY <2>1
  <2> HIDE DEF g
  <2>7. ASSUME NEW j \in 1 .. l PROVE g[j] = v[j]
    <3>1. i + j - 1 = p + j /\ j \in 1 .. Len(v) /\ j \in 1 .. end - i + 1
      BY <1>1, <1>2, <1>7, <2>1
    <3> QED  BY <1>1, <2>5, <2>6, <3>1
  <2> QED  BY <2>2, <2>5, <2>6, <2>7 DEF Texts
<1> HIDE DEF g
<1>10. Max({0} \union Solid(g, blanks)) = Len(S)
  <2> DEFINE M == {0} \union Solid(g, blanks)
  <2>1. DOMAIN g = 1 .. l
    BY <1>9, LenProperties DEF Texts
  <2>2. Len(S) \in M
    <3>1. Len(S) \in 1 .. l /\ Len(S) \in 1 .. Len(S)
      BY <1>s
    <3> QED  BY <1>2, <1>9, <2>1, <3>1 DEF Solid
  <2>3. ASSUME NEW j \in M PROVE j \in 0 .. l /\ j <= Len(S)
    <3>1. CASE j = 0
      BY <1>2, <1>s, <3>1
    <3>2. CASE j # 0
      <4>1. j \in 1 .. l /\ g[j] \notin blanks
        BY <2>1, <3>2 DEF Solid
      <4>2. j \notin Len(S) + 1 .. l
        BY <1>2, <1>9, <4>1
      <4> HIDE DEF l
      <4> QED  BY <1>2, <1>s, <4>1, <4>2
    <3> QED  BY <3>1, <3>2
  <2> HIDE DEF M, l
  <2>4. M \subseteq 0 .. l /\ M # {} /\ l \in Nat
    BY <1>2, <2>2, <2>3
  <2>5. Max(M) \in M /\ Max(M) >= Len(S)
    BY <2>2, <2>4, Greatest
  <2>6. Max(M) = Len(S)
    <3>1. Max(M) <= Len(S) /\ Max(M) \in 0 .. l
      BY <2>3, <2>5
    <3> QED  BY <1>s, <1>2, <2>5, <3>1
  <2> QED  BY <2>6 DEF M
<1>11. SubSeq(g, 1, Len(S)) = S
  <2>1. \A j \in 1 .. Len(S) : j \in 1 .. l
    BY <1>s
  <2> HIDE DEF l
  <2>2. \A j \in 1 .. Len(S) : g[j] \in Symbols
    BY <1>9, <2>1, ElementOfSeq DEF Texts
  <2>3. /\ SubSeq(g, 1, Len(S)) \in Seq(Symbols)
        /\ Len(SubSeq(g, 1, Len(S))) = IF 1 <= Len(S) THEN Len(S) - 1 + 1 ELSE 0
        /\ \A j \in 1 .. Len(S) - 1 + 1 : SubSeq(g, 1, Len(S))[j] = g[1 + j - 1]
    BY <1>s, <2>2, SubSeqProperties
  <2>4. Len(S) - 1 + 1 = Len(S) /\ 1 <= Len(S) /\ \A j \in 1 .. Len(S) : 1 + j - 1 = j
    BY <1>s
  <2> DEFINE u == SubSeq(g, 1, Len(S))
  <2> HIDE DEF u
  <2>5. u \in Seq(Symbols) /\ Len(u) = Len(S) /\ \A j \in 1 .. Len(S) : u[j] = S[j]
    BY <1>2, <1>9, <2>1, <2>3, <2>4 DEF u
  <2>6. u = S
    BY <2>5, SeqEqual DEF Texts
  <2> QED  BY <2>6 DEF u
<1>12. TrimEnd(g, blanks) = S
  BY <1>10, <1>11 DEF TrimEnd
<1> QED  BY <1>4, <1>8, <1>12 DEF end, g, EndOf, SegmentOf, RestOf

\* Nothing that is said of a response changes while it stays the same.
LEMMA SameResponse ==
    ASSUME offered' = offered
    PROVE  /\ \A i : ValueFrom(i)' = ValueFrom(i)
           /\ \A i : IsOurs(i)' <=> IsOurs(i)
           /\ \A i : Before(i)' = Before(i)
           /\ \A i : Place(i)' = Place(i)
           /\ Survivors' = Survivors
<1>1. ASSUME NEW i PROVE ValueFrom(i)' = ValueFrom(i)
  BY Zenon DEF ValueFrom
<1>2. ASSUME NEW i PROVE IsOurs(i)' <=> IsOurs(i)
  BY DEF IsOurs
<1>3. ASSUME NEW i PROVE Before(i)' = Before(i)
  BY <1>2 DEF Before
<1>4. ASSUME NEW i PROVE Overlooked(i)' <=> Overlooked(i)
  BY <1>3 DEF Overlooked
<1>5. ASSUME NEW i PROVE IsGood(i)' <=> IsGood(i)
  BY <1>2 DEF IsGood
<1>6. ASSUME NEW i PROVE Spoils(i)' <=> Spoils(i)
  BY <1>2 DEF Spoils
<1>7. ASSUME NEW i PROVE Spoiled(i)' <=> Spoiled(i)
  BY <1>2, <1>6 DEF Spoiled
<1>8. Survivors' = Survivors
  BY <1>4, <1>5, <1>7 DEF Survivors
<1>9. ASSUME NEW i PROVE Place(i)' = Place(i)
  BY <1>8 DEF Place
<1> QED  BY <1>1, <1>2, <1>3, <1>8, <1>9

----------------------------------------------------------------------------
(* One turn of the loop of parse_challenges.                               *)

\* Some challenge is the last that trails.
LEMMA StretchStops ==
    ASSUME offered \in Entries, NEW x \in 1 .. Len(offered)
    PROVE  \E e \in x .. Len(offered) : Trails(x, e) /\ Stops(e)
<1> DEFINE n == Len(offered)
           E == {e \in x .. n : Stops(e)}
<1>1. n \in Nat /\ x \in 1 .. n
  BY EntryFacts
<1>2. n \in E
  BY <1>1 DEF Stops
<1>3. PICK e \in E : \A j \in E : e <= j
  <2>1. E \subseteq Nat
    BY <1>1
  <2> HIDE DEF E
  <2> QED  BY <1>2, <2>1, LeastExists
<1>4. e \in x .. n /\ Stops(e)
  BY <1>3
<1>5. ASSUME NEW k \in x + 1 .. e PROVE offered[k].joined /\ ~IsOurs(k)
  <2>1. PICK j \in x .. n : j = k - 1
    BY <1>1, <1>4
  <2>2. j \notin E /\ j + 1 = k
    BY <1>1, <1>3, <1>4, <2>1
  <2> QED  BY <2>1, <2>2 DEF Stops
<1> QED  BY <1>4, <1>5 DEF Trails

\* What is left of a value from the k-th challenge on, the next value beginning
\* at nx.
Left(k, nx) ==
    /\ nx \in k + 1 .. Len(offered) + 1
    /\ \A j \in k + 1 .. nx - 1 : offered[j].joined
    /\ nx <= Len(offered) => ~offered[nx].joined

\* Foreign challenges alone have no token.
LEMMA NoneLeft ==
    ASSUME offered \in Entries, NEW k \in 1 .. Len(offered), NEW nx, Left(k, nx),
           \A j \in k .. nx - 1 : ~IsOurs(j)
    PROVE  SchemeTokens(ValueFrom(k)) = {}
<1>1. Len(offered) \in Nat
  BY EntryFacts
<1>2. PICK e \in 1 .. Len(offered) : e = nx - 1 /\ k \in 1 .. e
  BY <1>1 DEF Left
<1>3. Trails(k, e)
  <2>1. \A j \in k + 1 .. e : j \in k .. nx - 1 /\ j \in k + 1 .. nx - 1
    BY <1>1, <1>2
  <2> QED  BY <2>1 DEF Trails, Left
<1>4. PICK S : Stretch(k, e, S)
  BY <1>2, <1>3, Stretches
<1>5. ~Goes(e)
  <2>1. e < Len(offered) => e + 1 = nx /\ nx <= Len(offered)
    BY <1>1, <1>2 DEF Left
  <2> QED  BY <2>1 DEF Goes, Left
<1>6. ValueFrom(k) = S
  BY <1>4, <1>5 DEF Stretch
<1>7. ~IsOurs(k)
  <2>1. k \in k .. nx - 1
    BY <1>1, <1>2
  <2> QED  BY <2>1
<1> QED  BY <1>2, <1>4, <1>6, <1>7, StretchTokens

\* A value from a challenge of ours on begins with a token.
LEMMA OursLeads ==
    ASSUME offered \in Entries, NEW y \in 1 .. Len(offered), IsOurs(y)
    PROVE  1 \in SchemeTokens(ValueFrom(y)) /\ ValueFrom(y) \in Texts
<1>1. Len(offered) \in Nat /\ y \in 1 .. y
  BY EntryFacts
<1>2. Trails(y, y)
  <2>1. ~\E k : k \in y + 1 .. y
    BY <1>1
  <2> QED  BY <2>1 DEF Trails
<1>3. PICK S : Stretch(y, y, S)
  BY <1>1, <1>2, Stretches
<1>4. 1 \in SchemeTokens(S) /\ S \in Texts
  BY <1>1, <1>3, StretchTokens DEF Stretch
<1>5. CASE Goes(y)
  <2>1. y + 1 \in 1 .. Len(offered)
    BY <1>1, <1>5 DEF Goes
  <2>2. ValueFrom(y) = Joined(S, ValueFrom(y + 1)) /\ ValueFrom(y + 1) \in Texts
    BY <1>3, <1>5, <2>1, ValueFacts DEF Stretch
  <2>3. SchemeTokens(S) \subseteq SchemeTokens(ValueFrom(y))
    <3>1. SchemeTokens(Joined(S, ValueFrom(y + 1))) =
              SchemeTokens(S) \union {Len(S) + 2 + j : j \in SchemeTokens(ValueFrom(y + 1))}
      BY <1>4, <2>2, TokensJoined
    <3> QED  BY <2>2, <3>1
  <2> QED  BY <1>4, <2>3, ValueFacts
<1>6. CASE ~Goes(y)
  BY <1>3, <1>4, <1>6 DEF Stretch
<1> QED  BY <1>5, <1>6

\* What a segment yields for the x-th challenge.
Yields(x, f) ==
    IF IsGood(x) /\ ~Spoiled(x)
    THEN \E c : /\ f = <<c>>
                /\ c.challenge = offered[x].offer.challenge
                /\ offered[x].offer.realm # NoRealm => c.realm = offered[x].offer.realm
    ELSE f = <<>>

\* One turn finds the next challenge of ours, pushes it unless it is spoiled or does
\* not decode, and leaves what is behind those that trail it.
LEMMA Turn ==
    ASSUME offered \in Entries, NEW k \in 1 .. Len(offered), NEW nx, Left(k, nx),
           NEW r, r = ValueFrom(k), SchemeTokens(r) # {}
    PROVE  \E x \in k .. nx - 1 : \E e \in x .. nx - 1 :
               /\ IsOurs(x) /\ \A j \in k .. e : j # x => ~IsOurs(j)
               /\ Yields(x, ChallengeIn(SegmentOf(r)))
               /\ RestOf(r) = IF e + 1 < nx THEN ValueFrom(e + 1) ELSE <<>>
<1> DEFINE n == Len(offered)
           O == {j \in k .. nx - 1 : IsOurs(j)}
<1>1. n \in Nat /\ nx \in k + 1 .. n + 1 /\ k \in 1 .. n
  BY EntryFacts DEF Left
<1>2. O # {}
  BY NoneLeft
<1>3. PICK x \in O : \A j \in O : x <= j
  <2>1. O \subseteq Nat
    BY <1>1
  <2> HIDE DEF O
  <2> QED  BY <1>2, <2>1, LeastExists
<1>4. x \in k .. nx - 1 /\ x \in 1 .. n /\ IsOurs(x) /\ \A j \in k .. x - 1 : ~IsOurs(j)
  <2>1. x \in k .. nx - 1 /\ IsOurs(x) /\ x \in 1 .. n
    BY <1>1, <1>3
  <2>2. ASSUME NEW j \in k .. x - 1 PROVE ~IsOurs(j)
    <3>1. j \in k .. nx - 1 /\ ~(x <= j)
      BY <1>1, <2>1
    <3> QED  BY <1>3, <3>1
  <2> QED  BY <2>1, <2>2
<1> HIDE DEF O
<1>5. PICK e \in x .. n : Trails(x, e) /\ Stops(e)
  BY <1>4, StretchStops
<1>6. e \in x .. nx - 1 /\ e \in 1 .. n /\ x \in 1 .. e
  <2>1. nx <= e => nx \in x + 1 .. e /\ nx <= n
    BY <1>1, <1>4, <1>5
  <2>2. ~(nx <= e)
    BY <1>5, <2>1 DEF Trails, Left
  <2> QED  BY <1>1, <1>4, <1>5, <2>2
<1>7. Goes(e) <=> e + 1 < nx
  <2>1. CASE e + 1 < nx
    <3>1. e + 1 \in k + 1 .. nx - 1 /\ e < n
      BY <1>1, <1>4, <1>6, <2>1
    <3> QED  BY <2>1, <3>1 DEF Goes, Left
  <2>2. CASE ~(e + 1 < nx)
    <3>1. e + 1 = nx /\ (e < n => nx <= n)
      BY <1>1, <1>4, <1>6, <2>2
    <3> QED  BY <2>2, <3>1 DEF Goes, Left
  <2> QED  BY <2>1, <2>2
<1>8. PICK S : Stretch(x, e, S)
  BY <1>5, <1>6, Stretches
<1>9. /\ S[1] = Scheme /\ SchemeTokens(Tail(S)) = {} /\ SchemeTokens(S) = {1}
      /\ Yields(x, ChallengeIn(S))
  BY <1>4, <1>5, <1>6, <1>8, SegmentFacts DEF Yields
<1>10. \E p : EndsIn(r, p, ValueFrom(x))
  <2>1. CASE x = k
    BY <1>4, <2>1, ValueFacts, EndsInItself
  <2>2. CASE x # k
    <3>1. PICK y \in 1 .. n : y = x - 1 /\ k \in 1 .. y
      BY <1>1, <1>4, <2>2
    <3>2. Trails(k, y)
      <4>1. \A j \in k + 1 .. y : j \in k + 1 .. nx - 1 /\ j \in k .. x - 1
        BY <1>1, <1>4, <3>1
      <4> QED  BY <1>4, <4>1 DEF Trails, Left
    <3>3. PICK F : Stretch(k, y, F)
      BY <3>1, <3>2, Stretches
    <3>4. Goes(y) /\ y + 1 = x
      <4>1. y + 1 = x /\ x \in k + 1 .. nx - 1 /\ y < n
        BY <1>1, <1>4, <2>2, <3>1
      <4> QED  BY <4>1 DEF Goes, Left
    <3>5. ~IsOurs(k)
      <4>1. k \in k .. x - 1
        BY <1>1, <1>4, <2>2
      <4> QED  BY <1>4, <4>1
    <3>6. F \in Texts /\ SchemeTokens(F) = {} /\ r = Joined(F, ValueFrom(x))
      <4>1. SchemeTokens(F) = {}
        BY <3>1, <3>3, <3>5, StretchTokens
      <4> QED  BY <3>3, <3>4, <4>1 DEF Stretch
    <3>7. ValueFrom(x) \in Texts
      BY <1>4, ValueFacts
    <3> QED  BY <3>6, <3>7, EndsInSecond
  <2> QED  BY <2>1, <2>2
<1>11. PICK p : EndsIn(r, p, ValueFrom(x))
  BY <1>10
<1>12. PICK a \in 0 .. 1 : a = 1 <=> Goes(e)
  <2>1. Goes(e) \/ ~Goes(e)
    OBVIOUS
  <2>2. 0 \in 0 .. 1 /\ 1 \in 0 .. 1 /\ 0 # 1
    OBVIOUS
  <2> QED  BY <2>1, <2>2
<1> DEFINE V == ValueFrom(e + 1)
           v == ValueFrom(x)
<1>13. a = 1 => V \in Texts /\ 1 \in SchemeTokens(V)
  <2> SUFFICES ASSUME Goes(e) PROVE V \in Texts /\ 1 \in SchemeTokens(V)
    BY <1>12
  <2>1. e < n /\ offered[e + 1].joined
    BY DEF Goes
  <2>2. e + 1 \in 1 .. n
    BY <1>1, <1>6, <2>1
  <2>3. IsOurs(e + 1)
    BY <1>1, <1>5, <2>1 DEF Stops
  <2> QED  BY <2>2, <2>3, OursLeads
<1>14. /\ v = IF a = 1 THEN Joined(S, V) ELSE S
       /\ S \in Texts /\ S # <<>> /\ S[Len(S)] \notin {Space, Comma} /\ 1 \in SchemeTokens(S)
       /\ EndsIn(r, p, v)
  BY <1>8, <1>9, <1>11, <1>12 DEF Stretch
<1> HIDE DEF V, v
<1>15. SegmentOf(r) = S /\ RestOf(r) = IF a = 1 THEN V ELSE <<>>
  BY <1>9, <1>13, <1>14, Cut
<1>16. /\ Yields(x, ChallengeIn(SegmentOf(r)))
       /\ RestOf(r) = IF e + 1 < nx THEN ValueFrom(e + 1) ELSE <<>>
  BY <1>7, <1>9, <1>12, <1>15 DEF V
<1>17. \A j \in k .. e : j # x => ~IsOurs(j)
  <2> SUFFICES ASSUME NEW j \in k .. e, j # x PROVE ~IsOurs(j)
    OBVIOUS
  <2>1. j \in k .. x - 1 \/ j \in x + 1 .. e
    BY <1>1, <1>4, <1>6
  <2> QED  BY <1>4, <1>5, <2>1 DEF Trails
<1> QED  BY <1>4, <1>6, <1>16, <1>17

----------------------------------------------------------------------------
(* Survivors and their places.                                             *)

\* A response is a sequence of entries, the first of which continues none.
LEMMA ResponseFacts ==
    ASSUME offered \in Responses
    PROVE  /\ offered \in Entries /\ Len(offered) \in Nat
           /\ 1 <= Len(offered) => ~offered[1].joined
           /\ DOMAIN offered = 1 .. Len(offered)
<1>1. PICK m \in 0 .. MaxOffers : offered \in [1 .. m -> [offer : Offers, joined : BOOLEAN]]
  BY DEF Responses, BoundedSeq, SeqOf
<1>2. m \in Nat
  BY HeadersAssumption
<1>3. offered \in Entries
  <2> DEFINE R == [offer : Offers, joined : BOOLEAN]
  <2> HIDE DEF R
  <2>1. \A f \in [1 .. m -> R] : f \in Seq(R)
    BY <1>2, IsASeq
  <2> QED  BY <1>1, <2>1 DEF R, Entries
<1>4. Len(offered) \in Nat /\ DOMAIN offered = 1 .. Len(offered)
  BY <1>3, LenProperties DEF Entries
<1>5. 1 <= Len(offered) => offered # <<>>
  BY <1>3, <1>4, EmptySeq DEF Entries
<1> QED  BY <1>3, <1>4, <1>5 DEF Responses

\* Survivors before the k-th challenge.
Earlier(k) == {j \in Survivors : j < k}

\* A part has no more elements than the whole, and as many only if it is the whole.
LEMMA CountWithin ==
    ASSUME NEW n \in Nat, NEW B \in SUBSET (1 .. n), NEW A \in SUBSET B
    PROVE  /\ IsFiniteSet(A) /\ IsFiniteSet(B)
           /\ Cardinality(A) \in Nat /\ Cardinality(B) \in Nat
           /\ Cardinality(A) <= Cardinality(B)
           /\ A # B => Cardinality(A) < Cardinality(B)
<1>1. IsFiniteSet(1 .. n)
  BY InitialSegment
<1>2. IsFiniteSet(B)
  BY <1>1, FS_Subset
<1>3. IsFiniteSet(A) /\ Cardinality(A) \in Nat /\ Cardinality(B) \in Nat
  BY <1>2, FS_Subset, FS_CardinalityType
<1>4. /\ Cardinality(A) <= Cardinality(B)
      /\ A # B => Cardinality(A) < Cardinality(B)
  <2>1. /\ Cardinality(A) <= Cardinality(B)
        /\ Cardinality(B) = Cardinality(A) => A = B
    BY <1>2, FS_Subset
  <2> QED  BY <1>3, <2>1
<1> QED  BY <1>2, <1>3, <1>4

\* The survivors before a challenge have the first places, each one of its own.
LEMMA PlaceFacts ==
    ASSUME offered \in Entries, NEW k \in 1 .. Len(offered) + 1
    PROVE  /\ IsFiniteSet(Earlier(k)) /\ Cardinality(Earlier(k)) \in Nat
           /\ Cardinality(Earlier(k)) <= Cardinality(Survivors)
           /\ \A j \in Earlier(k) : Place(j) \in 1 .. Cardinality(Earlier(k))
           /\ \A j \in Survivors : Place(j) \in Nat /\ (j >= k => Place(j) > Cardinality(Earlier(k)))
           /\ Survivors \subseteq 1 .. Len(offered)
<1> DEFINE n == Len(offered)
           E == Earlier(k)
           P(j) == {i \in Survivors : i <= j}
<1>1. n \in Nat /\ Survivors \subseteq 1 .. n
  BY LenProperties DEF Entries, Survivors
<1>2. \A j : Place(j) = Cardinality(P(j))
  BY DEF Place
<1>3. E \subseteq Survivors /\ \A j \in E : j < k
  BY DEF Earlier
<1>4. \A j \in Survivors : j < k => j \in E
  BY DEF Earlier
<1> HIDE DEF E, n
<1>5. IsFiniteSet(E) /\ Cardinality(E) \in Nat /\ Cardinality(E) <= Cardinality(Survivors)
  BY <1>1, <1>3, CountWithin
<1>6. ASSUME NEW j \in E PROVE Place(j) \in 1 .. Cardinality(E)
  <2>1. P(j) \subseteq E /\ j \in P(j) /\ j \in 1 .. n
    <3>0. k \in 1 .. n + 1
      BY DEF n
    <3>1. j \in 1 .. n /\ j < k
      BY <1>1, <1>3
    <3>2. ASSUME NEW i \in P(j) PROVE i \in E
      <4>1. i \in 1 .. n /\ i \in Survivors /\ i <= j
        BY <1>1
      <4>2. i < k
        BY <1>1, <3>0, <3>1, <4>1
      <4> QED  BY <1>4, <4>1, <4>2
    <3>3. j \in P(j)
      BY <1>1, <1>3, <3>1
    <3> QED  BY <3>1, <3>2, <3>3
  <2>2. {} \in SUBSET P(j) /\ {} # P(j) /\ P(j) \in SUBSET (1 .. n) /\ E \in SUBSET (1 .. n)
    BY <1>1, <1>3, <2>1
  <2> DEFINE p == P(j)
  <2>3. p \subseteq E /\ p \in SUBSET (1 .. n) /\ p # {}
    BY <2>1, <2>2
  <2>4. Place(j) = Cardinality(p)
    BY <1>2
  <2> HIDE DEF p
  <2>5. Cardinality(p) \in Nat /\ Cardinality(p) <= Cardinality(E)
    BY <1>1, <2>2, <2>3, CountWithin
  <2>6. Cardinality({}) < Cardinality(p)
    BY <1>1, <2>3, CountWithin
  <2>7. Cardinality({}) = 0
    BY FS_EmptySet
  <2> QED  BY <1>5, <2>4, <2>5, <2>6, <2>7
<1>7. ASSUME NEW j \in Survivors PROVE Place(j) \in Nat /\ (j >= k => Place(j) > Cardinality(E))
  <2> DEFINE p == P(j)
  <2>1. p \in SUBSET (1 .. n) /\ Place(j) = Cardinality(p)
    BY <1>1, <1>2
  <2>2. Cardinality(p) \in Nat
    <3> HIDE DEF p
    <3> QED  BY <1>1, <2>1, CountWithin
  <2>3. ASSUME j >= k PROVE Cardinality(E) < Cardinality(p)
    <3>0. k \in 1 .. n + 1 /\ j \in 1 .. n
      BY <1>1 DEF n
    <3>1. j \in p /\ j \notin E
      BY <1>1, <1>3, <2>3, <3>0
    <3>2. ASSUME NEW i \in E PROVE i \in p
      <4>1. i \in Survivors /\ i \in 1 .. n /\ i < k
        BY <1>1, <1>3
      <4>2. i <= j
        BY <1>1, <2>3, <3>0, <4>1
      <4> QED  BY <4>1, <4>2
    <3> HIDE DEF p
    <3>3. E \subseteq p /\ E # p
      BY <3>1, <3>2
    <3> QED  BY <1>1, <2>1, <3>3, CountWithin
  <2> QED  BY <2>1, <2>2, <2>3
<1> QED  BY <1>1, <1>5, <1>6, <1>7 DEF E, n

\* Past a stretch in which only the x-th challenge may be a survivor.
LEMMA EarlierMoves ==
    ASSUME offered \in Entries, NEW k \in 1 .. Len(offered) + 1, NEW x \in Nat,
           NEW l \in k .. Len(offered) + 1,
           \A j \in k .. l - 1 : j # x => j \notin Survivors,
           x \in k .. l - 1
    PROVE  /\ x \in Survivors => /\ Earlier(l) = Earlier(k) \union {x} /\ x \notin Earlier(k)
                                 /\ Place(x) = Cardinality(Earlier(k)) + 1
                                 /\ Cardinality(Earlier(l)) = Cardinality(Earlier(k)) + 1
           /\ x \notin Survivors => Earlier(l) = Earlier(k)
<1>1. Len(offered) \in Nat /\ Survivors \subseteq 1 .. Len(offered)
      /\ IsFiniteSet(Earlier(k)) /\ Cardinality(Earlier(k)) \in Nat
  BY LenProperties, PlaceFacts DEF Entries
<1>2. \A j \in Survivors : j \in Nat /\ (j < l <=> j < k \/ j \in k .. l - 1)
  BY <1>1
<1>4. CASE x \in Survivors
  <2>1. Earlier(l) = Earlier(k) \union {x} /\ x \notin Earlier(k)
    <3>1. ~(x < k) /\ x < l
      BY <1>1
    <3> QED  BY <1>2, <1>4, <3>1 DEF Earlier
  <2>2. {i \in Survivors : i <= x} = Earlier(k) \union {x}
    <3>1. \A j \in Survivors : j <= x <=> j < k \/ j = x
      <4> TAKE j \in Survivors
      <4>1. j \in Nat
        BY <1>2
      <4>2. j \in k .. l - 1 => j = x
        OBVIOUS
      <4> QED  BY <1>1, <4>1, <4>2
    <3> QED  BY <1>4, <3>1 DEF Earlier
  <2>3. Cardinality(Earlier(k) \union {x}) = Cardinality(Earlier(k)) + 1
    BY <1>1, <2>1, FS_AddElement
  <2> QED  BY <1>4, <2>1, <2>2, <2>3 DEF Place
<1>5. CASE x \notin Survivors
  BY <1>2, <1>5 DEF Earlier
<1> QED  BY <1>4, <1>5

\* Past a stretch without survivors.
LEMMA EarlierStays ==
    ASSUME offered \in Entries, NEW k \in 1 .. Len(offered) + 1,
           NEW l \in k .. Len(offered) + 1,
           \A j \in k .. l - 1 : j \notin Survivors
    PROVE  Earlier(l) = Earlier(k)
<1>1. Len(offered) \in Nat /\ Survivors \subseteq 1 .. Len(offered)
  BY LenProperties, PlaceFacts DEF Entries
<1>2. \A j \in Survivors : j < l <=> j < k \/ j \in k .. l - 1
  BY <1>1
<1> QED  BY <1>2 DEF Earlier

\* Challenges of ours before a later one of the same value.
LEMMA BeforeMoves ==
    ASSUME offered \in Entries, NEW k \in 1 .. Len(offered), NEW nx, Left(k, nx)
    PROVE  /\ IsFiniteSet(Before(k)) /\ Cardinality(Before(k)) \in Nat
           /\ \A j \in k .. nx - 1 : Cardinality(Before(j)) >= Cardinality(Before(k))
           /\ \A x \in k .. nx - 1 :
                 (\A j \in k .. x - 1 : ~IsOurs(j)) => Before(x) = Before(k)
           /\ \A x \in k .. nx - 1 : \A e \in x .. nx - 2 :
                 IsOurs(x) /\ (\A j \in k .. e : j # x => ~IsOurs(j)) =>
                     Cardinality(Before(e + 1)) = Cardinality(Before(k)) + 1
<1> DEFINE n == Len(offered)
<1>1. n \in Nat /\ nx \in k + 1 .. n + 1 /\ k \in 1 .. n
      /\ \A j \in k + 1 .. nx - 1 : offered[j].joined
  BY LenProperties DEF Entries, Left
<1> HIDE DEF n
<1>2. ASSUME NEW y \in k .. nx - 1
      PROVE  /\ Before(k) \subseteq Before(y)
             /\ \A j \in Before(y) : j \in Before(k) \/ (j \in k .. y - 1 /\ IsOurs(j))
             /\ \A j \in k .. y - 1 : IsOurs(j) => j \in Before(y)
  <2>1. ASSUME NEW j \in Before(k) PROVE j \in Before(y)
    <3>1. j \in 1 .. k - 1 /\ IsOurs(j) /\ \A i \in j + 1 .. k : offered[i].joined
      BY DEF Before
    <3>2. j \in 1 .. y - 1 /\ \A i \in j + 1 .. y : i \in j + 1 .. k \/ i \in k + 1 .. nx - 1
      BY <1>1, <3>1
    <3> QED  BY <1>1, <3>1, <3>2 DEF Before
  <2>2. ASSUME NEW j \in Before(y), j \notin k .. y - 1 PROVE j \in Before(k)
    <3>1. j \in 1 .. y - 1 /\ IsOurs(j) /\ \A i \in j + 1 .. y : offered[i].joined
      BY DEF Before
    <3>2. j \in 1 .. k - 1 /\ \A i \in j + 1 .. k : i \in j + 1 .. y
      BY <1>1, <2>2, <3>1
    <3> QED  BY <3>1, <3>2 DEF Before
  <2>3. ASSUME NEW j \in k .. y - 1, IsOurs(j) PROVE j \in Before(y)
    <3>1. j \in 1 .. y - 1 /\ \A i \in j + 1 .. y : i \in k + 1 .. nx - 1
      BY <1>1
    <3> QED  BY <1>1, <2>3, <3>1 DEF Before
  <2>4. \A j \in Before(y) : IsOurs(j)
    BY DEF Before
  <2> QED  BY <2>1, <2>2, <2>3, <2>4
<1>3. ASSUME NEW y \in k .. nx - 1
      PROVE  Before(y) \in SUBSET (1 .. n) /\ IsFiniteSet(Before(y)) /\ Cardinality(Before(y)) \in Nat
  <2>1. Before(y) \subseteq 1 .. y - 1
    BY DEF Before
  <2>2. \A j \in 1 .. y - 1 : j \in 1 .. n
    BY <1>1
  <2>3. Before(y) \in SUBSET (1 .. n)
    BY <2>1, <2>2
  <2> QED  BY <1>1, <2>3, CountWithin
<1>4. k \in k .. nx - 1
  BY <1>1
<1>5. ASSUME NEW y \in k .. nx - 1 PROVE Cardinality(Before(y)) >= Cardinality(Before(k))
  <2>1. Cardinality(Before(k)) <= Cardinality(Before(y))
    BY <1>1, <1>2, <1>3, CountWithin
  <2> QED  BY <1>3, <1>4, <2>1
<1>6. ASSUME NEW x \in k .. nx - 1, \A j \in k .. x - 1 : ~IsOurs(j)
      PROVE  Before(x) = Before(k)
  BY <1>2, <1>6
<1>7. ASSUME NEW x \in k .. nx - 1, NEW e \in x .. nx - 2,
             IsOurs(x), \A j \in k .. e : j # x => ~IsOurs(j)
      PROVE  Cardinality(Before(e + 1)) = Cardinality(Before(k)) + 1
  <2>y. PICK y \in k .. nx - 1 : y = e + 1
    BY <1>1
  <2>1. x \in k .. y - 1 /\ \A j \in k .. y - 1 : j # x => ~IsOurs(j)
    BY <1>1, <1>7, <2>y
  <2>2. Before(y) = Before(k) \union {x}
    BY <1>2, <1>7, <2>1
  <2>3. x \notin Before(k)
    <3>1. \A j \in Before(k) : j \in 1 .. k - 1
      BY DEF Before
    <3> QED  BY <1>1, <3>1
  <2> QED  BY <1>3, <1>4, <2>y, <2>2, <2>3, FS_AddElement
<1> QED  BY <1>3, <1>4, <1>5, <1>6, <1>7

----------------------------------------------------------------------------
(* The invariant of the loop.                                              *)

\* Found at its place, with its realm.
Matches(f, j) ==
    /\ f[Place(j)].challenge = offered[j].offer.challenge
    /\ offered[j].offer.realm # NoRealm => f[Place(j)].realm = offered[j].offer.realm

\* With f found, the k-th challenge is the next to look at; it is behind c
\* challenges of ours in its value, of which r is left, or begins the next one.
At(k, nx, r, c, f) ==
    /\ nx \in k .. Len(offered) + 1
    /\ r = IF k < nx THEN ValueFrom(k) ELSE <<>>
    /\ \A j \in k + 1 .. nx - 1 : offered[j].joined
    /\ nx <= Len(offered) => ~offered[nx].joined
    /\ k < nx => c = Cardinality(Before(k))
    /\ Len(f) = Cardinality(Earlier(k))
    /\ \A j \in Earlier(k) : Matches(f, j)
    /\ \A i \in 1 .. Len(f) : \E j \in Earlier(k) : Place(j) = i

\* An empty text has no token.
LEMMA NoTokens == SchemeTokens(<<>>) = {}
<1>1. DOMAIN <<>> = {}
  OBVIOUS
<1> QED  BY <1>1 DEF SchemeTokens

\* What pushing to a list does.
LEMMA OneMore ==
    ASSUME NEW S, NEW f \in Seq(S), NEW c
    PROVE  /\ f \o <<c>> \in Seq(S \union {c})
           /\ Len(f) \in Nat /\ Len(f \o <<c>>) = Len(f) + 1
           /\ \A i \in 1 .. Len(f) : (f \o <<c>>)[i] = f[i]
           /\ (f \o <<c>>)[Len(f) + 1] = c
<1> DEFINE R == S \union {c}
           g == <<c>>
<1>1. f \in Seq(R) /\ g \in Seq(R) /\ Len(g) = 1 /\ g[1] = c
  <2>1. \A i \in 1 .. Len(f) : f[i] \in R
    BY ElementOfSeq
  <2>2. Len(f) \in Nat /\ f = [i \in 1 .. Len(f) |-> f[i]]
    BY LenProperties
  <2>3. f \in [1 .. Len(f) -> R]
    BY <2>1, <2>2
  <2>4. \A n \in Nat : \A h \in [1 .. n -> R] : h \in Seq(R)
    BY IsASeq
  <2> QED  BY <2>2, <2>3, <2>4
<1> HIDE DEF R, g
<1>2. /\ f \o g \in Seq(R) /\ Len(f \o g) = Len(f) + Len(g)
      /\ \A i \in 1 .. Len(f) + Len(g) : (f \o g)[i] = IF i <= Len(f) THEN f[i] ELSE g[i - Len(f)]
  BY <1>1, ConcatProperties
<1>3. Len(f) \in Nat
  BY LenProperties
<1>4. /\ \A i \in 1 .. Len(f) : i \in 1 .. Len(f) + 1 /\ i <= Len(f)
      /\ Len(f) + 1 \in 1 .. Len(f) + 1 /\ ~(Len(f) + 1 <= Len(f)) /\ Len(f) + 1 - Len(f) = 1
  BY <1>3
<1>5. /\ Len(f \o g) = Len(f) + 1
      /\ \A i \in 1 .. Len(f) + 1 : (f \o g)[i] = IF i <= Len(f) THEN f[i] ELSE g[i - Len(f)]
  BY <1>1, <1>2
<1>6. \A i \in 1 .. Len(f) : (f \o g)[i] = f[i]
  BY <1>4, <1>5
<1>7. (f \o g)[Len(f) + 1] = c
  BY <1>1, <1>4, <1>5
<1> QED  BY <1>2, <1>3, <1>5, <1>6, <1>7 DEF R, g

\* A turn of the loop takes the parser from one challenge to a later one.
LEMMA CutKeeps ==
    ASSUME offered \in Responses, NEW k \in 1 .. Len(offered) + 1, NEW nx, NEW r,
           NEW c \in Nat, NEW S, NEW f \in Seq(S), At(k, nx, r, c, f),
           SchemeTokens(r) # {}, c <= SegmentBound
    PROVE  /\ \E l \in 1 .. Len(offered) + 1 :
                 At(l, nx, RestOf(r), c + 1, f \o ChallengeIn(SegmentOf(r)))
           /\ \E R : f \o ChallengeIn(SegmentOf(r)) \in Seq(R)
<1> DEFINE n == Len(offered)
           h == f \o ChallengeIn(SegmentOf(r))
<1>1. offered \in Entries /\ n \in Nat
  BY ResponseFacts
<1>2. k < nx /\ r = ValueFrom(k) /\ k \in 1 .. n /\ Left(k, nx)
  BY <1>1, NoTokens DEF At, Left
<1>x. PICK x \in k .. nx - 1 : \E e \in x .. nx - 1 :
               /\ IsOurs(x) /\ \A j \in k .. e : j # x => ~IsOurs(j)
               /\ Yields(x, ChallengeIn(SegmentOf(r)))
               /\ RestOf(r) = IF e + 1 < nx THEN ValueFrom(e + 1) ELSE <<>>
  BY <1>1, <1>2, Turn
<1>3. PICK e \in x .. nx - 1 :
               /\ IsOurs(x) /\ \A j \in k .. e : j # x => ~IsOurs(j)
               /\ Yields(x, ChallengeIn(SegmentOf(r)))
               /\ RestOf(r) = IF e + 1 < nx THEN ValueFrom(e + 1) ELSE <<>>
  BY <1>x
<1>4. nx \in k + 1 .. n + 1 /\ x \in Nat /\ x \in 1 .. n
  BY <1>1, <1>2 DEF Left
<1>5. PICK l \in 1 .. n + 1 : l = e + 1
  BY <1>1, <1>4
<1>6. l \in k .. n + 1 /\ nx \in l .. n + 1 /\ x \in k .. l - 1
      /\ \A j \in l + 1 .. nx - 1 : j \in k + 1 .. nx - 1
  BY <1>1, <1>4, <1>5
<1>7. RestOf(r) = IF l < nx THEN ValueFrom(l) ELSE <<>>
  BY <1>3, <1>5
<1>8. l < nx => c + 1 = Cardinality(Before(l))
  <2>1. l < nx => e \in x .. nx - 2
    BY <1>1, <1>4, <1>5
  <2>2. l < nx => Cardinality(Before(l)) = Cardinality(Before(k)) + 1
    BY <1>1, <1>2, <1>3, <1>5, <2>1, BeforeMoves
  <2> QED  BY <1>2, <2>2 DEF At
<1>9. x \in Survivors <=> IsGood(x) /\ ~Spoiled(x)
  <2>1. \A j \in k .. x - 1 : j \in k .. e /\ j # x
    BY <1>1, <1>4, <1>5, <1>6
  <2>2. Before(x) = Before(k)
    BY <1>1, <1>2, <1>3, <2>1, BeforeMoves
  <2>3. ~Overlooked(x)
    <3>1. Cardinality(Before(x)) = c
      BY <1>2, <2>2 DEF At
    <3>2. SegmentBound \in Nat /\ ~(c > SegmentBound)
      BY HeadersAssumption
    <3> QED  BY <3>1, <3>2 DEF Overlooked
  <2>4. DOMAIN offered = 1 .. n
    BY ResponseFacts
  <2> QED  BY <1>4, <2>3, <2>4 DEF Survivors
<1>10. \A j \in k .. l - 1 : j # x => j \notin Survivors
  <2>1. \A j \in k .. l - 1 : j \in k .. e
    BY <1>1, <1>4, <1>5
  <2> QED  BY <1>3, <2>1 DEF Survivors, IsGood
<1>11. /\ x \in Survivors => /\ Earlier(l) = Earlier(k) \union {x} /\ x \notin Earlier(k)
                             /\ Place(x) = Cardinality(Earlier(k)) + 1
                             /\ Cardinality(Earlier(l)) = Cardinality(Earlier(k)) + 1
       /\ x \notin Survivors => Earlier(l) = Earlier(k)
  BY <1>1, <1>4, <1>6, <1>10, EarlierMoves
<1>12. /\ Len(f) = Cardinality(Earlier(k)) /\ Len(f) \in Nat
       /\ \A j \in Earlier(k) : Matches(f, j) /\ Place(j) \in 1 .. Len(f)
       /\ \A i \in 1 .. Len(f) : \E j \in Earlier(k) : Place(j) = i
  BY <1>1, PlaceFacts, LenProperties DEF At
<1>13. /\ Len(h) = Cardinality(Earlier(l))
       /\ \A j \in Earlier(l) : Matches(h, j)
       /\ \A i \in 1 .. Len(h) : \E j \in Earlier(l) : Place(j) = i
       /\ \E R : h \in Seq(R)
  <2>1. CASE x \in Survivors
    <3>1. PICK d : /\ ChallengeIn(SegmentOf(r)) = <<d>>
                   /\ d.challenge = offered[x].offer.challenge
                   /\ offered[x].offer.realm # NoRealm => d.realm = offered[x].offer.realm
      BY <1>3, <1>9, <2>1 DEF Yields
    <3>2. h = f \o <<d>>
      BY <3>1
    <3> HIDE DEF h
    <3>3. /\ h \in Seq(S \union {d}) /\ Len(h) = Len(f) + 1
          /\ \A i \in 1 .. Len(f) : h[i] = f[i]
          /\ h[Len(f) + 1] = d
      BY <3>2, OneMore
    <3>4. \A j \in Earlier(k) : Matches(h, j)
      BY <1>12, <3>3 DEF Matches
    <3>5. Matches(h, x)
      BY <1>11, <1>12, <2>1, <3>1, <3>3 DEF Matches
    <3>6. /\ Place(x) = Len(f) + 1 /\ x \in Earlier(l) /\ Earlier(k) \subseteq Earlier(l)
          /\ \A j \in Earlier(l) : j = x \/ j \in Earlier(k)
          /\ Len(h) = Cardinality(Earlier(l))
      BY <1>11, <1>12, <2>1, <3>3
    <3>7. ASSUME NEW i \in 1 .. Len(h) PROVE \E j \in Earlier(l) : Place(j) = i
      <4>1. i \in 1 .. Len(f) \/ i = Len(f) + 1
        BY <1>12, <3>3
      <4> QED  BY <1>12, <3>6, <4>1
    <3> QED  BY <3>3, <3>4, <3>5, <3>6, <3>7
  <2>2. CASE x \notin Survivors
    <3>1. ChallengeIn(SegmentOf(r)) = <<>>
      BY <1>3, <1>9, <2>2 DEF Yields
    <3>2. h = f
      BY <3>1, ConcatEmptySeq
    <3> HIDE DEF h
    <3> QED  BY <1>11, <1>12, <2>2, <3>2
  <2> QED  BY <2>1, <2>2
<1>14. (\A j \in l + 1 .. nx - 1 : offered[j].joined) /\ (nx <= n => ~offered[nx].joined)
  BY <1>6 DEF At
<1> HIDE DEF h
<1>15. At(l, nx, RestOf(r), c + 1, h)
  BY <1>6, <1>7, <1>8, <1>13, <1>14 DEF At
<1> QED  BY <1>13, <1>15 DEF h

\* What is not looked at in a value are no survivors.
LEMMA NothingMissed ==
    ASSUME offered \in Responses, NEW k \in 1 .. Len(offered) + 1, NEW nx, NEW r,
           NEW c \in Nat, NEW f, At(k, nx, r, c, f),
           SchemeTokens(r) = {} \/ c > SegmentBound
    PROVE  /\ \A j \in k .. nx - 1 : j \notin Survivors
           /\ Earlier(nx) = Earlier(k)
<1> DEFINE n == Len(offered)
<1>1. offered \in Entries /\ n \in Nat /\ DOMAIN offered = 1 .. n
  BY ResponseFacts
<1>2. ASSUME NEW j \in k .. nx - 1 PROVE j \notin Survivors
  <2>1. k < nx /\ r = ValueFrom(k) /\ k \in 1 .. n /\ Left(k, nx) /\ c = Cardinality(Before(k))
    BY <1>1 DEF At, Left
  <2>2. CASE SchemeTokens(r) = {}
    <3>1. SUFFICES ASSUME j \in Survivors PROVE FALSE
      OBVIOUS
    <3>2. IsOurs(j) /\ k \in 1 .. n /\ j \in 1 .. n
      BY <1>1, <2>1, <3>1 DEF Survivors, IsGood
    <3> DEFINE O == {i \in k .. nx - 1 : IsOurs(i)}
    <3>3. PICK x \in O : \A i \in O : x <= i
      <4>1. O \subseteq Nat /\ O # {}
        BY <1>1, <2>1, <3>2
      <4> HIDE DEF O
      <4> QED  BY <4>1, LeastExists
    <3>4. x \in k .. nx - 1 /\ IsOurs(x) /\ x \in 1 .. n
      BY <1>1, <2>1, <3>3 DEF Left
    <3>5. ASSUME NEW i \in k .. x - 1 PROVE ~IsOurs(i)
      <4>1. i \in k .. nx - 1 /\ ~(x <= i)
        BY <1>1, <2>1, <3>4 DEF Left
      <4> QED  BY <3>3, <4>1
    <3>6. 1 \in SchemeTokens(ValueFrom(x)) /\ ValueFrom(x) \in Texts
      BY <1>1, <3>4, OursLeads
    <3>7. CASE x = k
      BY <2>1, <2>2, <3>6, <3>7
    <3>8. CASE x # k
      <4>1. PICK y \in 1 .. n : y = x - 1 /\ k \in 1 .. y
        BY <1>1, <2>1, <3>4, <3>8
      <4>2. Trails(k, y)
        <5>1. \A i \in k + 1 .. y : i \in k + 1 .. nx - 1 /\ i \in k .. x - 1
          BY <1>1, <2>1, <3>4, <4>1 DEF Left
        <5> QED  BY <2>1, <3>5, <5>1 DEF Trails, Left
      <4>3. PICK F : Stretch(k, y, F)
        BY <1>1, <4>1, <4>2, Stretches
      <4>4. Goes(y) /\ y + 1 = x
        <5>1. y + 1 = x /\ x \in k + 1 .. nx - 1 /\ y < n
          BY <1>1, <2>1, <3>4, <3>8, <4>1
        <5> QED  BY <2>1, <5>1 DEF Goes, Left
      <4>5. F \in Texts /\ r = Joined(F, ValueFrom(x))
        BY <2>1, <4>3, <4>4 DEF Stretch
      <4>6. Len(F) + 2 + 1 \in SchemeTokens(r)
        <5>1. SchemeTokens(Joined(F, ValueFrom(x))) =
                  SchemeTokens(F) \union {Len(F) + 2 + i : i \in SchemeTokens(ValueFrom(x))}
          BY <3>6, <4>5, TokensJoined
        <5> QED  BY <3>6, <4>5, <5>1
      <4> QED  BY <2>2, <4>6
    <3> QED  BY <3>7, <3>8
  <2>3. CASE c > SegmentBound
    <3>1. Cardinality(Before(j)) >= c /\ c \in Nat
      BY <1>1, <2>1, BeforeMoves
    <3>2. SegmentBound \in Nat
      BY HeadersAssumption
    <3>3. j \in k .. nx - 1 /\ IsFiniteSet(Before(j)) /\ Cardinality(Before(j)) \in Nat
      <4>1. Before(j) \subseteq 1 .. n
        <5>1. \A i \in Before(j) : i \in 1 .. j - 1
          BY DEF Before
        <5>2. j \in 1 .. n
          BY <1>1, <2>1 DEF Left
        <5> QED  BY <1>1, <5>1, <5>2
      <4>2. IsFiniteSet(1 .. n)
        BY <1>1, InitialSegment
      <4> QED  BY <4>1, <4>2, FS_Subset, FS_CardinalityType
    <3>4. Overlooked(j)
      BY <2>3, <3>1, <3>2, <3>3 DEF Overlooked
    <3> QED  BY <3>4 DEF Survivors
  <2> QED  BY <2>2, <2>3
<1>3. nx \in k .. n + 1
  BY DEF At
<1> QED  BY <1>1, <1>2, <1>3, EarlierStays

\* Types, as far as they do not follow; a challenge is considered once all are
\* parsed.
Sound ==
    /\ offered \in Responses
    /\ segments \in 0 .. SegmentBound + 1
    /\ \E S : found \in Seq(S)
    /\ considered \in 0 .. Len(found)
    /\ considered > 0 => Parsed

\* The parser is at some challenge of the response.
Reading == \E k \in 1 .. Len(offered) + 1 : At(k, next, rest, segments, found)

\* What is chosen is the first of those considered that has that type.
IsFirst(chosen, code) ==
    \/ chosen = Nothing /\ \A i \in 1 .. considered : CodeOf(found[i]) # code
    \/ \E i \in 1 .. considered :
          /\ chosen = found[i].challenge /\ CodeOf(found[i]) = code
          /\ \A j \in 1 .. i - 1 : CodeOf(found[j]) # code

\* The Client's two choices.
Choosing == IsFirst(credential, ACT) /\ IsFirst(moderator, IHAT)

\* The invariant.
IInv == Sound /\ Reading /\ Choosing

\* At depends on the response and what it names only.
LEMMA SameAt ==
    ASSUME offered' = offered, NEW k, At(k, next', rest', segments', found')
    PROVE  At(k, next, rest, segments, found)'
<1>1. /\ ValueFrom(k)' = ValueFrom(k) /\ Before(k)' = Before(k)
      /\ \A i : Place(i)' = Place(i)
      /\ Survivors' = Survivors
  BY SameResponse
<1>2. Earlier(k)' = Earlier(k)
  BY <1>1 DEF Earlier
<1>3. ASSUME NEW j, Matches(found', j) PROVE Matches(found, j)'
  BY <1>1, <1>3 DEF Matches
<1> QED  BY <1>1, <1>2, <1>3 DEF At

\* Whatever is found is of a type and can be told from nothing.
LEMMA FoundDecodes ==
    ASSUME IInv
    PROVE  /\ Len(found) \in Nat
           /\ DOMAIN found = 1 .. Len(found)
           /\ \A i \in 1 .. Len(found) :
                 /\ found[i].challenge \in DOMAIN Decoded
                 /\ CodeOf(found[i]) \in {ACT, IHAT} => found[i].challenge # Nothing
<1>1. Len(found) \in Nat /\ DOMAIN found = 1 .. Len(found)
  BY LenProperties DEF IInv, Sound
<1>2. ASSUME NEW i \in 1 .. Len(found) PROVE found[i].challenge \in DOMAIN Decoded
  <2>1. PICK k \in 1 .. Len(offered) + 1 : At(k, next, rest, segments, found)
    BY DEF IInv, Reading
  <2>2. PICK j \in Earlier(k) : Place(j) = i /\ Matches(found, j)
    BY <2>1 DEF At
  <2> QED  BY <2>2 DEF Earlier, Survivors, IsGood, Matches
<1>3. ASSUME NEW i \in 1 .. Len(found), CodeOf(found[i]) \in {ACT, IHAT}
      PROVE  found[i].challenge # Nothing
  <2>1. Nothing \in DOMAIN Decoded => Decoded[Nothing].code = NoStruct
    BY HeadersAssumption
  <2> QED  BY <1>2, <1>3, <2>1 DEF CodeOf, ACT, IHAT, NoStruct
<1> QED  BY <1>1, <1>2, <1>3

\* Nothing is parsed yet.
LEMMA InitInv == Init => IInv
<1> SUFFICES ASSUME Init PROVE IInv
  OBVIOUS
<1>1. /\ offered \in Responses /\ next = 1 /\ rest = <<>> /\ segments = 0 /\ found = <<>>
      /\ considered = 0 /\ credential = Nothing /\ moderator = Nothing
  BY DEF Init
<1>2. offered \in Entries /\ Len(offered) \in Nat /\ (1 <= Len(offered) => ~offered[1].joined)
  BY <1>1, ResponseFacts
<1>3. found \in Seq({}) /\ Len(found) = 0
  BY <1>1
<1>4. Sound
  <2>1. SegmentBound \in Nat
    BY HeadersAssumption
  <2>2. 0 \in 0 .. SegmentBound + 1 /\ 0 \in 0 .. Len(found)
    BY <1>3, <2>1
  <2> QED  BY <1>1, <1>3, <2>2 DEF Sound
<1>5. Reading
  <2>1. 1 \in 1 .. Len(offered) + 1 /\ Survivors \subseteq 1 .. Len(offered)
    BY <1>2, PlaceFacts
  <2>2. Earlier(1) = {}
    <3>1. \A j \in Survivors : ~(j < 1)
      BY <1>2, <2>1
    <3> QED  BY <3>1 DEF Earlier
  <2>3. Cardinality({}) = 0
    BY FS_EmptySet
  <2>4. /\ next \in 1 .. Len(offered) + 1 /\ ~(1 < next)
        /\ ~\E j : j \in 1 + 1 .. next - 1
        /\ ~\E i : i \in 1 .. Len(found)
        /\ ~\E j : j \in Earlier(1)
    BY <1>1, <1>2, <1>3, <2>1, <2>2
  <2>5. Len(found) = Cardinality(Earlier(1))
    BY <1>3, <2>2, <2>3
  <2>6. rest = (IF 1 < next THEN ValueFrom(1) ELSE <<>>) /\ (next <= Len(offered) => ~offered[next].joined)
    BY <1>1, <1>2, <2>4
  <2>7. At(1, next, rest, segments, found)
    BY <2>4, <2>5, <2>6 DEF At
  <2> QED  BY <2>1, <2>7 DEF Reading
<1>6. Choosing
  BY <1>1 DEF Choosing, IsFirst
<1> QED  BY <1>4, <1>5, <1>6 DEF IInv

\* A turn of the inner loop of parse_challenges.
LEMMA CutInv == IInv /\ CutSegment => IInv'
<1> SUFFICES ASSUME IInv, CutSegment PROVE IInv'
  OBVIOUS
<1>1. /\ SchemeTokens(rest) # {} /\ segments <= SegmentBound
      /\ found' = found \o ChallengeIn(SegmentOf(rest)) /\ rest' = RestOf(rest)
      /\ segments' = segments + 1
      /\ offered' = offered /\ next' = next /\ considered' = considered
      /\ credential' = credential /\ moderator' = moderator
  BY DEF CutSegment, CanCut, SegmentOf, RestOf, EndOf
<1>2. considered = 0
  BY LenProperties DEF IInv, Sound, Parsed, CutSegment
<1>s. SegmentBound \in Nat /\ segments \in Nat /\ offered \in Responses
  BY HeadersAssumption DEF IInv, Sound
<1>3. PICK S : found \in Seq(S)
  BY DEF IInv, Sound
<1>4. PICK k \in 1 .. Len(offered) + 1 : At(k, next, rest, segments, found)
  BY DEF IInv, Reading
<1>5. /\ \E l \in 1 .. Len(offered) + 1 :
            At(l, next, RestOf(rest), segments + 1, found \o ChallengeIn(SegmentOf(rest)))
      /\ \E R : found \o ChallengeIn(SegmentOf(rest)) \in Seq(R)
  BY <1>1, <1>s, <1>3, <1>4, CutKeeps
<1>6. PICK l \in 1 .. Len(offered) + 1 : At(l, next', rest', segments', found')
  BY <1>1, <1>5
<1>7. Reading'
  BY <1>1, <1>6, SameAt DEF Reading
<1>8. PICK R : found' \in Seq(R)
  BY <1>1, <1>5
<1>9. Sound'
  <2>1. Len(found') \in Nat
    BY <1>8, LenProperties
  <2>2. segments' \in 0 .. SegmentBound + 1 /\ considered' \in 0 .. Len(found') /\ ~(considered' > 0)
    BY <1>1, <1>2, <1>s, <2>1
  <2> QED  BY <1>1, <1>8, <1>s, <2>2 DEF Sound
<1>10. Choosing'
  <2>1. credential = Nothing /\ moderator = Nothing
    BY <1>2 DEF IInv, Choosing, IsFirst
  <2> QED  BY <1>1, <1>2, <2>1 DEF Choosing, IsFirst
<1> QED  BY <1>7, <1>9, <1>10 DEF IInv

\* A turn of its outer loop.
LEMMA NextValueInv == IInv /\ NextValue => IInv'
<1> SUFFICES ASSUME IInv, NextValue PROVE IInv'
  OBVIOUS
<1> DEFINE n == Len(offered)
           N == {i \in next + 1 .. n + 1 : i <= n => ~offered[i].joined}
<1>1. /\ SchemeTokens(rest) = {} \/ ~(segments <= SegmentBound)
      /\ next <= n /\ rest' = Trim(ValueFrom(next)) /\ next' = Min(N)
      /\ segments' = 0
      /\ offered' = offered /\ found' = found /\ considered' = considered
      /\ credential' = credential /\ moderator' = moderator
  BY DEF NextValue, CanCut
<1>s. SegmentBound \in Nat /\ segments \in Nat /\ offered \in Responses
      /\ offered \in Entries /\ n \in Nat
  BY HeadersAssumption, ResponseFacts DEF IInv, Sound
<1>4. PICK k \in 1 .. n + 1 : At(k, next, rest, segments, found)
  BY DEF IInv, Reading
<1>5. Earlier(next) = Earlier(k)
  <2>1. SchemeTokens(rest) = {} \/ segments > SegmentBound
    BY <1>1, <1>s
  <2> QED  BY <1>4, <1>s, <2>1, NothingMissed
<1>6. next \in 1 .. n /\ ~offered[next].joined
  BY <1>1, <1>4, <1>s DEF At
<1>2. considered = 0
  <2>1. ~(next > n)
    BY <1>6, <1>s
  <2>2. ~Parsed
    BY <2>1 DEF Parsed
  <2>3. considered \in Nat
    BY LenProperties DEF IInv, Sound
  <2> QED  BY <2>2, <2>3 DEF IInv, Sound
<1> HIDE DEF n
<1>7. /\ next' \in next + 1 .. n + 1 /\ (next' <= n => ~offered[next'].joined)
      /\ \A i \in next + 1 .. next' - 1 : offered[i].joined
  <2>1. n + 1 \in N /\ N \subseteq Nat /\ N # {}
    BY <1>6, <1>s
  <2>2. Min(N) \in N /\ \A i \in N : Min(N) <= i
    <3> HIDE DEF N
    <3> QED  BY <2>1, Least
  <2>3. PICK m \in N : m = next' /\ \A i \in N : m <= i
    BY <1>1, <2>2
  <2>4. m \in next + 1 .. n + 1 /\ (m <= n => ~offered[m].joined)
    BY <2>3
  <2>5. ASSUME NEW i \in next + 1 .. m - 1 PROVE offered[i].joined
    <3>1. i \in next + 1 .. n + 1 /\ i <= n /\ ~(m <= i)
      BY <1>6, <1>s, <2>4
    <3> QED  BY <2>3, <3>1
  <2> QED  BY <2>3, <2>4, <2>5
<1>8. Before(next) = {}
  <2>1. ASSUME NEW j \in Before(next) PROVE FALSE
    <3>1. j \in 1 .. next - 1 /\ \A i \in j + 1 .. next : offered[i].joined
      BY DEF Before
    <3>2. next \in j + 1 .. next
      BY <1>6, <1>s, <3>1
    <3> QED  BY <1>6, <3>1, <3>2
  <2> QED  BY <2>1
<1>9. rest' = ValueFrom(next)
  BY <1>1, <1>6, <1>s, ValueSolid DEF n
<1>10. At(next, next', rest', segments', found')
  <2>1. next < next' /\ next' \in next .. n + 1
    BY <1>6, <1>7, <1>s
  <2>2. Cardinality({}) = 0
    BY FS_EmptySet
  <2>3. /\ Len(found) = Cardinality(Earlier(next)) /\ \A j \in Earlier(next) : Matches(found, j)
        /\ \A i \in 1 .. Len(found) : \E j \in Earlier(next) : Place(j) = i
    BY <1>4, <1>5 DEF At
  <2>4. /\ rest' = IF next < next' THEN ValueFrom(next) ELSE <<>>
        /\ next < next' => segments' = Cardinality(Before(next))
    BY <1>1, <1>8, <1>9, <2>1, <2>2
  <2> QED  BY <1>1, <1>7, <2>1, <2>3, <2>4 DEF At, n
<1>11. Reading'
  <2>2. PICK l \in 1 .. n + 1 : At(l, next', rest', segments', found')
    <3>1. next \in 1 .. n + 1
      BY <1>6, <1>s
    <3> QED  BY <1>10, <3>1
  <2> QED  BY <1>1, <2>2, SameAt DEF Reading, n
<1>12. Sound'
  <2>1. segments' \in 0 .. SegmentBound + 1 /\ ~(considered' > 0)
    BY <1>1, <1>2, <1>s
  <2> QED  BY <1>1, <1>s, <2>1 DEF IInv, Sound
<1>13. Choosing'
  BY <1>1 DEF IInv, Choosing, IsFirst, CodeOf
<1> QED  BY <1>11, <1>12, <1>13 DEF IInv

\* What Consider does for one of the two roles.
LEMMA FirstMoves ==
    ASSUME IInv, considered < Len(found), NEW code \in {ACT, IHAT}, NEW chosen,
           IsFirst(chosen, code), considered' = considered + 1, found' = found, NEW chosen2,
           chosen2 = IF chosen = Nothing /\ CodeOf(found[considered + 1]) = code
                     THEN found[considered + 1].challenge ELSE chosen
    PROVE  \/ chosen2 = Nothing /\ \A i \in 1 .. considered + 1 : CodeOf(found[i]) # code
           \/ \E i \in 1 .. considered + 1 :
                 /\ chosen2 = found[i].challenge /\ CodeOf(found[i]) = code
                 /\ \A j \in 1 .. i - 1 : CodeOf(found[j]) # code
<1>1. /\ Len(found) \in Nat
      /\ \A i \in 1 .. Len(found) : CodeOf(found[i]) \in {ACT, IHAT} => found[i].challenge # Nothing
  BY FoundDecodes
<1>2. considered \in Nat /\ considered + 1 \in 1 .. Len(found)
  BY <1>1 DEF IInv, Sound
<1>3. \A i \in 1 .. considered : i \in 1 .. considered + 1 /\ i \in 1 .. Len(found)
  BY <1>1, <1>2
<1>4. \A i \in 1 .. considered + 1 : i \in 1 .. considered \/ i = considered + 1
  BY <1>2
<1>5. considered + 1 \in 1 .. considered + 1 /\ considered + 1 - 1 = considered
  BY <1>2
<1>6. CASE chosen = Nothing
  <2>1. \A i \in 1 .. considered : CodeOf(found[i]) # code
    BY <1>1, <1>3, <1>6 DEF IsFirst
  <2> QED  BY <1>4, <1>5, <1>6, <2>1
<1>7. CASE chosen # Nothing
  BY <1>3, <1>7 DEF IsFirst
<1> QED  BY <1>6, <1>7

\* A turn of the loop of parse_moderator_challenges.
LEMMA ConsiderInv == IInv /\ Consider => IInv'
<1> SUFFICES ASSUME IInv, Consider PROVE IInv'
  OBVIOUS
<1>1. /\ Parsed /\ considered < Len(found) /\ considered' = considered + 1
      /\ credential' = IF credential = Nothing /\ CodeOf(found[considered + 1]) = ACT
                       THEN found[considered + 1].challenge ELSE credential
      /\ moderator' = IF moderator = Nothing /\ CodeOf(found[considered + 1]) = IHAT
                      THEN found[considered + 1].challenge ELSE moderator
      /\ offered' = offered /\ next' = next /\ rest' = rest
      /\ segments' = segments /\ found' = found
  BY DEF Consider
<1>2. Sound'
  <2>1. considered' \in 0 .. Len(found)
    BY <1>1, FoundDecodes DEF IInv, Sound
  <2>2. Parsed'
    BY <1>1 DEF Parsed, CanCut
  <2> QED  BY <1>1, <2>1, <2>2 DEF IInv, Sound
<1>3. Reading'
  <2>1. PICK k \in 1 .. Len(offered) + 1 : At(k, next, rest, segments, found)
    BY DEF IInv, Reading
  <2>2. At(k, next', rest', segments', found')
    BY <1>1, <2>1
  <2> QED  BY <1>1, <2>2, SameAt DEF Reading
<1>4. \A i : CodeOf(found[i])' = CodeOf(found[i])
  BY <1>1 DEF CodeOf
<1>5. IsFirst(credential, ACT)'
  <2>1. IsFirst(credential, ACT)
    BY DEF IInv, Choosing
  <2>2. \/ credential' = Nothing /\ \A i \in 1 .. considered + 1 : CodeOf(found[i]) # ACT
        \/ \E i \in 1 .. considered + 1 :
              /\ credential' = found[i].challenge /\ CodeOf(found[i]) = ACT
              /\ \A j \in 1 .. i - 1 : CodeOf(found[j]) # ACT
    BY <1>1, <2>1, FirstMoves
  <2> QED  BY <1>1, <2>2 DEF IsFirst, CodeOf, ACT
<1>6. IsFirst(moderator, IHAT)'
  <2>1. IsFirst(moderator, IHAT)
    BY DEF IInv, Choosing
  <2>2. \/ moderator' = Nothing /\ \A i \in 1 .. considered + 1 : CodeOf(found[i]) # IHAT
        \/ \E i \in 1 .. considered + 1 :
              /\ moderator' = found[i].challenge /\ CodeOf(found[i]) = IHAT
              /\ \A j \in 1 .. i - 1 : CodeOf(found[j]) # IHAT
    BY <1>1, <2>1, FirstMoves
  <2> QED  BY <1>1, <2>2 DEF IsFirst, CodeOf, IHAT
<1> QED  BY <1>2, <1>3, <1>5, <1>6 DEF IInv, Choosing

\* The answers do not touch the challenges.
LEMMA OtherInv == IInv /\ UNCHANGED challengeVars => IInv'
<1> SUFFICES ASSUME IInv, UNCHANGED challengeVars PROVE IInv'
  OBVIOUS
<1>1. /\ offered' = offered /\ next' = next /\ rest' = rest /\ segments' = segments
      /\ found' = found /\ considered' = considered
      /\ credential' = credential /\ moderator' = moderator
  BY DEF challengeVars
<1>2. Sound'
  BY <1>1 DEF IInv, Sound, Parsed, CanCut
<1>3. Reading'
  <2>1. PICK k \in 1 .. Len(offered) + 1 : At(k, next, rest, segments, found)
    BY DEF IInv, Reading
  <2>2. At(k, next', rest', segments', found')
    BY <1>1, <2>1
  <2> QED  BY <1>1, <2>2, SameAt DEF Reading
<1>4. Choosing'
  BY <1>1 DEF IInv, Choosing, IsFirst, CodeOf
<1> QED  BY <1>2, <1>3, <1>4 DEF IInv

\* The invariant of the whole: the challenge parsing is at, what that makes of
\* those it has passed, and the first of each type among those considered.
THEOREM Invariance == Spec => []IInv
<1>1. Init => IInv
  BY InitInv
<1>2. IInv /\ [Next]_vars => IInv'
  <2> SUFFICES ASSUME IInv, [Next]_vars PROVE IInv'
    OBVIOUS
  <2>1. CASE NextValue
    BY <2>1, NextValueInv
  <2>2. CASE CutSegment
    BY <2>2, CutInv
  <2>3. CASE Consider
    BY <2>3, ConsiderInv
  <2>4. CASE Authorize
    BY <2>4, OtherInv DEF Authorize
  <2>5. CASE Dispatch
    BY <2>5, OtherInv DEF Dispatch
  <2>6. CASE ReadCredential
    BY <2>6, OtherInv DEF ReadCredential
  <2>7. CASE UNCHANGED vars
    BY <2>7, OtherInv DEF vars
  <2> QED  BY <2>1, <2>2, <2>3, <2>4, <2>5, <2>6, <2>7 DEF Next
<1> QED  BY <1>1, <1>2, PTL DEF Spec

----------------------------------------------------------------------------
(* What follows from it.                                                   *)

\* Every survivor that has a place among those found is there.
LEMMA Recovers ==
    ASSUME IInv, NEW i \in Recovered
    PROVE  Matches(found, i)
<1>1. PICK k \in 1 .. Len(offered) + 1 : At(k, next, rest, segments, found)
  BY DEF IInv, Reading
<1>2. offered \in Entries /\ Len(offered) \in Nat
  BY ResponseFacts DEF IInv, Sound
<1>3. /\ Cardinality(Earlier(k)) \in Nat /\ Survivors \subseteq 1 .. Len(offered)
      /\ \A j \in Survivors : Place(j) \in Nat /\ (j >= k => Place(j) > Cardinality(Earlier(k)))
  BY <1>2, PlaceFacts
<1>4. i \in Survivors /\ Place(i) <= Len(found) /\ Len(found) = Cardinality(Earlier(k))
  BY <1>1 DEF Recovered, At
<1>5. i \in Nat /\ ~(i >= k)
  BY <1>2, <1>3, <1>4
<1>6. i \in Earlier(k)
  BY <1>4, <1>5 DEF Earlier
<1> QED  BY <1>1, <1>6 DEF At

\* Once all is parsed, all survivors are found.
LEMMA AllFound ==
    ASSUME IInv
    PROVE  /\ Len(found) <= Cardinality(Survivors)
           /\ Parsed => /\ Len(found) = Cardinality(Survivors)
                        /\ Recovered = Survivors
                        /\ \A i \in 1 .. Len(found) : \E j \in Survivors : Place(j) = i
<1>1. PICK k \in 1 .. Len(offered) + 1 : At(k, next, rest, segments, found)
  BY DEF IInv, Reading
<1>2. offered \in Entries /\ Len(offered) \in Nat /\ offered \in Responses
      /\ segments \in Nat /\ SegmentBound \in Nat
  BY ResponseFacts, HeadersAssumption DEF IInv, Sound
<1>3. Len(found) <= Cardinality(Survivors)
  BY <1>1, <1>2, PlaceFacts DEF At
<1>4. ASSUME Parsed
      PROVE  /\ Len(found) = Cardinality(Survivors)
             /\ Recovered = Survivors
             /\ \A i \in 1 .. Len(found) : \E j \in Survivors : Place(j) = i
  <2>1. SchemeTokens(rest) = {} \/ segments > SegmentBound
    BY <1>2, <1>4 DEF Parsed, CanCut
  <2>2. Earlier(next) = Earlier(k)
    BY <1>1, <1>2, <2>1, NothingMissed
  <2>3. next = Len(offered) + 1
    BY <1>1, <1>2, <1>4 DEF Parsed, At
  <2>4. Survivors \subseteq 1 .. Len(offered)
    BY <1>2, PlaceFacts
  <2>5. Earlier(next) = Survivors
    <3>1. \A j \in Survivors : j < next
      BY <1>2, <2>3, <2>4
    <3> QED  BY <3>1 DEF Earlier
  <2>6. Len(found) = Cardinality(Survivors)
    BY <1>1, <2>2, <2>5 DEF At
  <2>7. \A j \in Survivors : Place(j) \in 1 .. Cardinality(Survivors)
    BY <1>2, <2>2, <2>5, PlaceFacts
  <2>8. Recovered = Survivors
    <3>1. \A j \in Survivors : Place(j) <= Len(found)
      BY <2>6, <2>7
    <3> QED  BY <3>1 DEF Recovered
  <2> QED  BY <1>1, <2>2, <2>5, <2>6, <2>8 DEF At
<1> QED  BY <1>3, <1>4

\* Types.
LEMMA InvTypeOK == IInv => TypeOK
<1> SUFFICES ASSUME IInv PROVE TypeOK
  OBVIOUS
<1>1. PICK k \in 1 .. Len(offered) + 1 : At(k, next, rest, segments, found)
  BY DEF IInv, Reading
<1>2. Len(offered) \in Nat
  BY ResponseFacts DEF IInv, Sound
<1>3. next \in 1 .. Len(offered) + 1
  BY <1>1, <1>2 DEF At
<1>4. considered \in 0 .. Len(found) /\ Len(found) \in Nat
  BY FoundDecodes DEF IInv, Sound
<1>5. \A i \in 1 .. considered : found[i].challenge \in DOMAIN Decoded
  BY <1>4, FoundDecodes
<1>6. credential \in DOMAIN Decoded \union {Nothing} /\ moderator \in DOMAIN Decoded \union {Nothing}
  BY <1>5 DEF IInv, Choosing, IsFirst
<1> QED  BY <1>3, <1>6, FoundDecodes DEF IInv, Sound, TypeOK

\* Every variable has its type: parse_challenges pushes nothing that does not
\* decode and the Client chooses only what was pushed.
THEOREM TypeCorrect == Spec => []TypeOK
BY Invariance, InvTypeOK, PTL

\* Recovered survivors are where they belong, and there are no others.
LEMMA InvFound == IInv => FoundAsOffered
BY Recovers, AllFound DEF FoundAsOffered, Matches

\* However a response is split into values, joined and mixed with other schemes,
\* parse_challenges finds the challenges offered, in order and once each, except
\* those a foreign one has spoiled and those beyond SegmentBound.
THEOREM FoundAsOfferedHolds == Spec => []FoundAsOffered
BY Invariance, InvFound, PTL

\* The realm is found with the challenge.
LEMMA InvRealm == IInv => RealmKept
BY Recovers DEF RealmKept, Matches

\* get_param takes the realm a challenge was offered with, although parameters of
\* the schemes that follow it end up in the same segment.
THEOREM RealmKeptHolds == Spec => []RealmKept
BY Invariance, InvRealm, PTL

\* No challenge of ours has a type code that means the Client's type in the
\* other role.
Unshared ==
    \A o \in Offers :
        o.scheme = Scheme /\ o.challenge \in DOMAIN Decoded =>
            /\ Decoded[o.challenge].code = ACT => Decoded[o.challenge].role = "credential"
            /\ Decoded[o.challenge].code = IHAT => Decoded[o.challenge].role = "endorsement"

\* The first found of a type is the first offered of it that survives.
LEMMA FirstIsPreferred ==
    ASSUME IInv, Done, NEW code \in {ACT, IHAT}, NEW role, NEW chosen, IsFirst(chosen, code),
           \A i \in Survivors : Decoded[offered[i].offer.challenge].code = code =>
                                    Decoded[offered[i].offer.challenge].role = role
    PROVE  chosen = FirstFor(role, code)
<1> DEFINE those == {i \in Survivors : Decoded[offered[i].offer.challenge] =
                                           [role |-> role, code |-> code]}
<1>1. /\ offered \in Entries /\ Len(offered) \in Nat
      /\ considered = Len(found) /\ Parsed
      /\ Survivors \subseteq 1 .. Len(offered)
  <2>1. offered \in Entries /\ Len(offered) \in Nat /\ considered = Len(found) /\ Parsed
    BY ResponseFacts DEF IInv, Sound, Done
  <2>2. 1 \in 1 .. Len(offered) + 1
    BY <2>1
  <2> QED  BY <2>1, <2>2, PlaceFacts
<1>2. Recovered = Survivors /\ \A i \in 1 .. Len(found) : \E j \in Survivors : Place(j) = i
  BY <1>1, AllFound
<1>3. /\ Len(found) \in Nat
      /\ \A i \in 1 .. Len(found) : found[i].challenge \in DOMAIN Decoded
  BY FoundDecodes
<1>4. \A j \in Survivors : /\ found[Place(j)].challenge = offered[j].offer.challenge
                           /\ Place(j) \in 1 .. Len(found)
  <2>1. Len(offered) + 1 \in 1 .. Len(offered) + 1
    BY <1>1
  <2>2. Earlier(Len(offered) + 1) = Survivors
    <3>1. \A j \in Survivors : j < Len(offered) + 1
      BY <1>1
    <3> QED  BY <3>1 DEF Earlier
  <2>3. \A j \in Survivors : Place(j) \in 1 .. Cardinality(Survivors)
    BY <1>1, <2>1, <2>2, PlaceFacts
  <2> QED  BY <1>1, <1>2, <2>3, Recovers, AllFound DEF Matches
<1>5. \A j \in Survivors : j \in those <=> CodeOf(found[Place(j)]) = code
  <2> TAKE j \in Survivors
  <2> DEFINE d == Decoded[offered[j].offer.challenge]
  <2>1. CodeOf(found[Place(j)]) = d.code
    BY <1>4 DEF CodeOf
  <2>2. d \in [role : {"credential", "endorsement"}, code : Nat]
    BY HeadersAssumption DEF Survivors, IsGood
  <2>3. d.code = code => d.role = role
    OBVIOUS
  <2>4. j \in those <=> d = [role |-> role, code |-> code]
    OBVIOUS
  <2> HIDE DEF d, those
  <2>5. d = [role |-> role, code |-> code] <=> d.role = role /\ d.code = code
    BY <2>2
  <2> QED  BY <2>1, <2>3, <2>4, <2>5
<1>6. those \subseteq Survivors
  OBVIOUS
<1>7. FirstFor(role, code) = IF those = {} THEN Nothing ELSE offered[Min(those)].offer.challenge
  BY DEF FirstFor
<1> HIDE DEF those
<1>8. \A i, j \in Survivors : i < j => Place(i) < Place(j)
  <2> SUFFICES ASSUME NEW i \in Survivors, NEW j \in Survivors, i < j PROVE Place(i) < Place(j)
    OBVIOUS
  <2>1. j \in 1 .. Len(offered) + 1 /\ j \in Nat
    BY <1>1
  <2>2. i \in Earlier(j)
    BY DEF Earlier
  <2>3. /\ Place(i) \in 1 .. Cardinality(Earlier(j)) /\ Cardinality(Earlier(j)) \in Nat
        /\ Place(j) \in Nat /\ (j >= j => Place(j) > Cardinality(Earlier(j)))
    BY <1>1, <2>1, <2>2, PlaceFacts
  <2> QED  BY <2>1, <2>3
<1>9. CASE those = {}
  <2>1. \A i \in 1 .. Len(found) : CodeOf(found[i]) # code
    BY <1>2, <1>5, <1>9
  <2>2. chosen = Nothing
    BY <1>1, <2>1 DEF IsFirst
  <2> QED  BY <1>7, <1>9, <2>2
<1>10. CASE those # {}
  <2>1. Min(those) \in those /\ \A j \in those : Min(those) <= j
    <3>1. those \subseteq Nat
      BY <1>1, <1>6
    <3> QED  BY <1>10, <3>1, Least
  <2>2. PICK s \in those : s = Min(those) /\ \A j \in those : s <= j
    BY <2>1
  <2>3. s \in Survivors /\ CodeOf(found[Place(s)]) = code /\ Place(s) \in 1 .. Len(found)
    BY <1>4, <1>5, <1>6, <2>2
  <2>4. PICK i \in 1 .. Len(found) :
            /\ chosen = found[i].challenge /\ CodeOf(found[i]) = code
            /\ \A j \in 1 .. i - 1 : CodeOf(found[j]) # code
    BY <1>1, <2>3 DEF IsFirst
  <2>5. PICK t \in Survivors : Place(t) = i
    BY <1>2
  <2>6. t \in those
    BY <1>5, <2>4, <2>5
  <2>7. ~(s < t)
    <3>1. SUFFICES ASSUME s < t PROVE FALSE
      OBVIOUS
    <3>2. Place(s) < i
      BY <1>8, <2>3, <2>5, <3>1
    <3>3. Place(s) \in 1 .. i - 1
      BY <1>3, <2>3, <2>4, <3>2
    <3> QED  BY <2>3, <2>4, <3>3
  <2>8. s = t
    <3>1. s <= t /\ s \in Nat /\ t \in Nat
      BY <1>1, <1>6, <2>2, <2>6
    <3> QED  BY <2>7, <3>1
  <2> QED  BY <1>4, <1>7, <1>10, <2>2, <2>3, <2>4, <2>5, <2>8
<1> QED  BY <1>9, <1>10

\* Both roles.
LEMMA InvPreferred ==
    ASSUME Unshared, IInv
    PROVE  PairPreferred
<1> SUFFICES ASSUME Done PROVE /\ credential = FirstFor("credential", ACT)
                               /\ moderator = FirstFor("endorsement", IHAT)
  BY DEF PairPreferred
<1>1. \A i \in Survivors :
          /\ Decoded[offered[i].offer.challenge].code = ACT =>
                 Decoded[offered[i].offer.challenge].role = "credential"
          /\ Decoded[offered[i].offer.challenge].code = IHAT =>
                 Decoded[offered[i].offer.challenge].role = "endorsement"
  <2> TAKE i \in Survivors
  <2>1. offered \in Entries /\ i \in 1 .. Len(offered) /\ IsGood(i)
    BY ResponseFacts DEF IInv, Sound, Survivors
  <2>2. offered[i].offer \in Offers
    BY <2>1, EntryFacts
  <2> QED  BY <2>1, <2>2 DEF Unshared, IsGood, IsOurs
<1>2. IsFirst(credential, ACT) /\ IsFirst(moderator, IHAT)
  BY DEF IInv, Choosing
<1> QED  BY <1>1, <1>2, FirstIsPreferred

\* Where no type of the other role shares a code with a type the Client knows,
\* parse_moderator_challenges chooses the first surviving challenge of each role
\* that it knows. The run headers_types shows what happens otherwise.
THEOREM PairPreferredHolds ==
    ASSUME Unshared
    PROVE  Spec => []PairPreferred
<1>1. IInv => PairPreferred
  BY InvPreferred
<1> QED  BY <1>1, Invariance, PTL

----------------------------------------------------------------------------
(* The answer.                                                             *)

\* A set of one.
LEMMA Singleton ==
    ASSUME NEW x \in Nat PROVE Min({x}) = x
BY DEF Min

\* A text without a comma is one part.
LEMMA OnePart ==
    ASSUME NEW s \in Texts, NoComma(s)
    PROVE  /\ PartStarts(s) = {1}
           /\ Part(s, 1) \in Texts /\ Len(Part(s, 1)) = Len(s)
           /\ \A j \in 1 .. Len(s) : Part(s, 1)[j] = s[j]
<1>1. Len(s) \in Nat /\ 1 \in 1 .. Len(s) + 1 /\ DOMAIN s = 1 .. Len(s)
  BY LenProperties DEF Texts
<1>2. PartStarts(s) = {1}
  BY <1>1 DEF PartStarts, NoComma
<1>3. PICK e \in 0 .. Len(s) :
               /\ RunsTo(s, 1, e)
               /\ Part(s, 1) \in Texts
               /\ Len(Part(s, 1)) = e - 1 + 1
               /\ \A j \in 1 .. e - 1 + 1 : Part(s, 1)[j] = s[1 + j - 1]
  BY <1>1, PartFacts
<1>4. e = Len(s)
  <2>n. PICK n \in Nat : n = Len(s)
    BY <1>1
  <2>1. e # n => e + 1 \in 1 .. n
    BY <2>n
  <2> QED  BY <1>3, <2>n, <2>1 DEF RunsTo, NoComma
<1>5. e - 1 + 1 = Len(s) /\ \A j \in 1 .. Len(s) : 1 + j - 1 = j
  BY <1>1, <1>4
<1> QED  BY <1>2, <1>3, <1>5

\* A header value with one parameter of ours is read as what it says.
LEMMA KindRead ==
    ASSUME NEW k1 \in Symbols \ {Space, Equals, Comma}, NEW k2 \in Symbols \ {Space, Equals, Comma},
           k1 # k2, NEW k \in {k1, k2}, NEW v \in Bodies, NEW s \in Texts, Holds(s, k, v),
           NEW kinds, kinds = <<k1, k2>>
    PROVE  Kind(s, kinds) = [kind |-> k, value |-> v]
<1>1. IsPlain(v) /\ v \in Texts /\ Len(v) \in Nat /\ NoComma(Param(k, v))
      /\ Param(k, v)[2] = Equals
  <2>1. IsPlain(v) /\ k \in Symbols \ {Space, Equals, Comma}
    BY HeadersAssumption
  <2>2. v \in Texts /\ Len(v) \in Nat /\ NoComma(Param(k, v))
    BY <2>1, PlainParam
  <2> QED  BY <2>1, <2>2, ParamText
<1>d. PICK d \in 0 .. 1 : /\ Len(s) = d + (Len(v) + 4)
                          /\ d = 1 => s[1] = Space
                          /\ \A j \in 1 .. Len(v) + 4 : s[d + j] = Param(k, v)[j]
  BY DEF Holds
<1>2. NoComma(s)
  <2> SUFFICES ASSUME NEW j \in 1 .. Len(s) PROVE s[j] # Comma
    BY DEF NoComma
  <2>1. CASE d = 1 /\ j = 1
    BY <1>d, <2>1, SymbolFacts
  <2>2. CASE ~(d = 1 /\ j = 1)
    <3>1. j - d \in 1 .. Len(v) + 4 /\ d + (j - d) = j
      BY <1>1, <1>d, <2>2
    <3>2. PICK i \in 1 .. Len(v) + 4 : j = d + i
      BY <3>1
    <3>3. Len(Param(k, v)) = Len(v) + 4
      BY <1>1, ParamText
    <3> QED  BY <1>1, <1>d, <3>2, <3>3 DEF NoComma
  <2> QED  BY <2>1, <2>2
<1>3. /\ PartStarts(s) = {1} /\ Part(s, 1) \in Texts /\ Len(Part(s, 1)) = Len(s)
      /\ \A j \in 1 .. Len(s) : Part(s, 1)[j] = s[j]
  BY <1>2, OnePart
<1>4. Holds(Part(s, 1), k, v)
  <2>1. d = 1 => Part(s, 1)[1] = Space
    <3>1. 1 \in 1 .. Len(s)
      BY <1>1, <1>d
    <3> QED  BY <1>3, <1>d, <3>1
  <2>2. ASSUME NEW j \in 1 .. Len(v) + 4 PROVE Part(s, 1)[d + j] = Param(k, v)[j]
    <3>1. d + j \in 1 .. Len(s)
      BY <1>1, <1>d
    <3> QED  BY <1>3, <1>d, <3>1
  <2> QED  BY <1>3, <1>d, <2>1, <2>2 DEF Holds
<1>5. Key(Part(s, 1)) = <<k>> /\ k \in Symbols \ {Space, Equals}
  BY <1>1, <1>3, <1>4, KeyValue
<1>6. Given(s, k) # {} /\ Get(s, k) = v
  BY <1>1, <1>3, <1>4, <1>5, FirstGiven
<1>7. \A o \in {k1, k2} : o # k => Given(s, o) = {}
  BY <1>3, <1>5 DEF Given, Params
<1>8. ParamsParse(s)
  <2>1. d + 2 \in 1 .. Len(s) /\ 2 \in 1 .. Len(v) + 4
    BY <1>1, <1>d
  <2>2. s[d + 2] = Equals
    BY <1>1, <1>d, <2>1
  <2> QED  BY <1>2, <2>1, <2>2, NoCommaEquated, Parses
<1> DEFINE named == {i \in DOMAIN kinds : Given(s, kinds[i]) # {}}
<1>9. DOMAIN kinds = {1, 2} /\ kinds[1] = k1 /\ kinds[2] = k2
  OBVIOUS
<1>10. CASE k = k1
  <2>1. named = {1}
    BY <1>6, <1>7, <1>9, <1>10
  <2>2. Min(named) = 1
    BY <2>1, Singleton
  <2>3. named # {} /\ kinds[Min(named)] = k
    BY <1>9, <1>10, <2>1, <2>2
  <2> HIDE DEF named
  <2> QED  BY <1>6, <1>8, <2>3 DEF Kind, named
<1>11. CASE k = k2
  <2>1. named = {2}
    BY <1>6, <1>7, <1>9, <1>11
  <2>2. Min(named) = 2
    BY <2>1, Singleton
  <2>3. named # {} /\ kinds[Min(named)] = k
    BY <1>9, <1>11, <2>1, <2>2
  <2> HIDE DEF named
  <2> QED  BY <1>6, <1>8, <2>3 DEF Kind, named
<1> QED  BY <1>10, <1>11

\* The names of the parameters differ from each other and from the challenge's.
LEMMA KindSymbols ==
    /\ Scheme \in Symbols
    /\ \E k1, k2 \in Symbols \ {Space, Equals, Comma} :
           /\ AuthorizationKinds = <<k1, k2>> /\ ToSet(AuthorizationKinds) = {k1, k2}
           /\ k1 # k2 /\ {k1, k2} \intersect {Scheme, "challenge", "realm", "other"} = {}
           /\ k1 = "credential-request" /\ k2 = "presentation"
    /\ \E k1, k2 \in Symbols \ {Space, Equals, Comma} :
           /\ CredentialKinds = <<k1, k2>>
           /\ k1 # k2 /\ k1 = "response" /\ k2 = "update"
<1> DEFINE K1 == "credential-request"
           K2 == "presentation"
           L1 == "response"
           L2 == "update"
<1>1. /\ {K1, K2, L1, L2} \subseteq Symbols \ {Space, Equals, Comma} /\ K1 # K2 /\ L1 # L2
      /\ Scheme \in Symbols
      /\ {K1, K2} \intersect {Scheme, "challenge", "realm", "other"} = {}
  BY DEF Symbols, Space, Equals, Comma, Scheme
<1>2. AuthorizationKinds = <<K1, K2>> /\ CredentialKinds = <<L1, L2>>
  BY DEF AuthorizationKinds, CredentialKinds
<1> HIDE DEF K1, K2, L1, L2
<1>3. ToSet(AuthorizationKinds) = {K1, K2}
  BY <1>2 DEF ToSet
<1>4. \E k1, k2 \in Symbols \ {Space, Equals, Comma} :
           /\ AuthorizationKinds = <<k1, k2>> /\ ToSet(AuthorizationKinds) = {k1, k2}
           /\ k1 # k2 /\ {k1, k2} \intersect {Scheme, "challenge", "realm", "other"} = {}
           /\ k1 = K1 /\ k2 = K2
  BY <1>1, <1>2, <1>3
<1>5. \E k1, k2 \in Symbols \ {Space, Equals, Comma} :
           /\ CredentialKinds = <<k1, k2>>
           /\ k1 # k2 /\ k1 = L1 /\ k2 = L2
  BY <1>1, <1>2
<1> QED  BY <1>1, <1>4, <1>5 DEF K1, K2, L1, L2

\* What to_header_value of an Authorization writes, its parser reads.
LEMMA AuthorizationRead ==
    ASSUME NEW k \in ToSet(AuthorizationKinds), NEW v \in Bodies
    PROVE  ParseAuthorization(<<Scheme, Space>> \o Param(k, v)) = [kind |-> k, value |-> v]
<1>1. PICK k1 \in Symbols \ {Space, Equals, Comma}, k2 \in Symbols \ {Space, Equals, Comma} :
           /\ AuthorizationKinds = <<k1, k2>> /\ ToSet(AuthorizationKinds) = {k1, k2} /\ k1 # k2
  BY KindSymbols
<1>2. /\ v \in Texts /\ Len(v) \in Nat /\ k \in Symbols
      /\ Param(k, v) \in Texts /\ Len(Param(k, v)) = Len(v) + 4
      /\ Param(k, v)[Len(v) + 4] = Quote
  BY <1>1, HeadersAssumption, PlainParam, ParamText
<1> DEFINE h == <<Scheme, Space>>
           P == Param(k, v)
           n == Len(v)
           A == h \o P
<1>3. h \in Texts /\ Len(h) = 2 /\ h[1] = Scheme /\ h[2] = Space
  BY SymbolFacts DEF Texts
<1> HIDE DEF h, P, n
<1>4. /\ A \in Texts /\ Len(A) = n + 6 /\ n \in Nat
      /\ \A j \in 1 .. n + 6 : A[j] = IF j <= 2 THEN h[j] ELSE P[j - 2]
  <2>1. /\ h \o P \in Texts /\ Len(h \o P) = Len(h) + Len(P)
        /\ \A i \in 1 .. Len(h) + Len(P) : (h \o P)[i] = IF i <= Len(h) THEN h[i] ELSE P[i - Len(h)]
    BY <1>2, <1>3, ConcatProperties DEF Texts, P
  <2>2. Len(h) + Len(P) = n + 6 /\ n \in Nat /\ Len(h) = 2
    BY <1>2, <1>3 DEF P, n
  <2> QED  BY <2>1, <2>2
<1> HIDE DEF A
<1>5. A[1] = Scheme /\ A[2] = Space /\ A[n + 6] = Quote /\ \A j \in 1 .. n + 4 : A[2 + j] = P[j]
  <2>1. /\ {1, 2, n + 6} \subseteq 1 .. n + 6 /\ n + 6 - 2 = n + 4 /\ ~(n + 6 <= 2)
        /\ \A j \in 1 .. n + 4 : 2 + j \in 1 .. n + 6 /\ ~(2 + j <= 2) /\ (2 + j) - 2 = j
    BY <1>4
  <2>2. P[n + 4] = Quote
    BY <1>2 DEF P, n
  <2> QED  BY <1>3, <1>4, <2>1, <2>2
<1>6. A # <<>> /\ Trim(A) = A /\ Head(A) = Scheme
  <2>1. A # <<>>
    <3>1. Len(A) # 0
      BY <1>4
    <3> QED  BY <3>1, EmptySeq
  <2>2. Trim(A) = A
    BY <1>4, <1>5, <2>1, TrimSame, SymbolFacts
  <2> QED  BY <1>4, <1>5, <2>1, <2>2 DEF Texts
<1>7. /\ Tail(A) \in Texts /\ Len(Tail(A)) = 1 + (n + 4) /\ Tail(A)[1] = Space
      /\ \A j \in 1 .. n + 4 : Tail(A)[1 + j] = P[j]
  <2>1. /\ Tail(A) \in Texts /\ Len(Tail(A)) = Len(A) - 1
        /\ \A i \in 1 .. Len(A) - 1 : Tail(A)[i] = A[i + 1]
    BY <1>4, <1>6, TailFacts
  <2>2. /\ Len(A) - 1 = 1 + (n + 4) /\ 1 \in 1 .. Len(A) - 1 /\ 1 + 1 = 2
        /\ \A j \in 1 .. n + 4 : 1 + j \in 1 .. Len(A) - 1 /\ (1 + j) + 1 = 2 + j
    BY <1>4
  <2> QED  BY <1>5, <2>1, <2>2
<1>8. Kind(Tail(A), AuthorizationKinds) = [kind |-> k, value |-> v]
  <2>1. 1 \in 0 .. 1
    OBVIOUS
  <2>2. Holds(Tail(A), k, v)
    BY <1>7, <2>1 DEF Holds, n, P
  <2> QED  BY <1>1, <1>7, <2>2, KindRead
<1>9. ParseAuthorization(A) = [kind |-> k, value |-> v]
  BY <1>6, <1>8 DEF ParseAuthorization
<1> QED  BY <1>9 DEF A, h, P

\* What to_header_value of a Mole-Credential writes, its parser reads.
LEMMA CredentialRead ==
    ASSUME NEW k \in {"response", "update"}, NEW v \in Bodies
    PROVE  ParseCredential(Param(k, v)) = [kind |-> k, value |-> v]
<1>1. PICK k1 \in Symbols \ {Space, Equals, Comma}, k2 \in Symbols \ {Space, Equals, Comma} :
           /\ CredentialKinds = <<k1, k2>> /\ k \in {k1, k2} /\ k1 # k2
  BY KindSymbols
<1>2. /\ v \in Texts /\ Len(v) \in Nat /\ k \in Symbols
      /\ Param(k, v) \in Texts /\ Len(Param(k, v)) = Len(v) + 4
  BY <1>1, HeadersAssumption, PlainParam, ParamText
<1> DEFINE P == Param(k, v)
<1> HIDE DEF P
<1>3. Holds(P, k, v)
  <2>1. 0 \in 0 .. 1 /\ 0 # 1 /\ Len(P) = 0 + (Len(v) + 4)
        /\ \A j \in 1 .. Len(v) + 4 : P[0 + j] = P[j]
    BY <1>2 DEF P
  <2> QED  BY <2>1 DEF Holds, P
<1>4. Kind(P, CredentialKinds) = [kind |-> k, value |-> v]
  BY <1>1, <1>2, <1>3, KindRead DEF P
<1> QED  BY <1>4 DEF ParseCredential, P

\* Trimming a text leaves a text.
LEMMA TrimText ==
    ASSUME NEW t \in Texts
    PROVE  Trim(t) \in Texts
<1> DEFINE solid == Solid(t, {Space})
<1>1. solid \subseteq 1 .. Len(t) /\ Len(t) \in Nat
  BY LenProperties DEF Texts, Solid
<1> HIDE DEF solid
<1>2. CASE solid = {}
  BY <1>2, EmptySeq DEF Trim, solid, Texts
<1>3. CASE solid # {}
  <2>1. solid \subseteq Nat /\ solid \subseteq 0 .. Len(t)
    BY <1>1
  <2>2. Min(solid) \in solid /\ Max(solid) \in solid
    BY <1>1, <1>3, <2>1, Least, Greatest
  <2>3. PICK a \in 1 .. Len(t), b \in 1 .. Len(t) : a = Min(solid) /\ b = Max(solid)
    BY <1>1, <2>2
  <2>4. \A j \in a .. b : j \in 1 .. Len(t)
    BY <1>1
  <2>5. \A j \in a .. b : t[j] \in Symbols
    BY <2>4, ElementOfSeq DEF Texts
  <2>6. SubSeq(t, a, b) \in Seq(Symbols)
    BY <2>5, SubSeqProperties
  <2> QED  BY <1>3, <2>3, <2>6 DEF Trim, solid, Texts
<1> QED  BY <1>2, <1>3

\* w stands in t, d symbols from its beginning, with blanks around it.
Within(w, t, d, blanks) ==
    /\ d + Len(w) <= Len(t)
    /\ \A j \in 1 .. Len(w) : w[j] = t[d + j]
    /\ \A k \in 1 .. Len(t) : k <= d \/ k > d + Len(w) => t[k] \in blanks

\* Trimming takes off spaces only.
LEMMA TrimWithin ==
    ASSUME NEW t \in Texts
    PROVE  \E d \in Nat : Within(Trim(t), t, d, {Space})
<1> DEFINE solid == Solid(t, {Space})
<1>1. solid = {j \in 1 .. Len(t) : t[j] # Space} /\ Len(t) \in Nat
  BY LenProperties DEF Texts, Solid
<1> HIDE DEF solid
<1>2. CASE solid = {}
  <2>1. Trim(t) = <<>> /\ Len(<<>>) = 0
    BY <1>2 DEF Trim, solid
  <2>2. \A k \in 1 .. Len(t) : t[k] = Space
    BY <1>1, <1>2
  <2>3. Within(Trim(t), t, 0, {Space})
    BY <1>1, <2>1, <2>2 DEF Within
  <2> QED  BY <2>3
<1>3. CASE solid # {}
  <2>1. solid \subseteq Nat /\ solid \subseteq 0 .. Len(t)
    BY <1>1
  <2>2. /\ Min(solid) \in solid /\ \A j \in solid : Min(solid) <= j
        /\ Max(solid) \in solid /\ \A j \in solid : Max(solid) >= j
    BY <1>1, <1>3, <2>1, Least, Greatest
  <2>3. PICK a \in 1 .. Len(t), b \in 1 .. Len(t) : a = Min(solid) /\ b = Max(solid)
    BY <1>1, <2>2
  <2>4. a <= b
    BY <2>2, <2>3
  <2>5. \A j \in a .. b : t[j] \in Symbols
    <3>1. \A j \in a .. b : j \in 1 .. Len(t)
      BY <1>1
    <3> QED  BY <3>1, ElementOfSeq DEF Texts
  <2>6. PICK d \in Nat : a = d + 1
    <3>1. a - 1 \in Nat /\ a = (a - 1) + 1
      BY <1>1
    <3> QED  BY <3>1
  <2> DEFINE w == SubSeq(t, a, b)
  <2>7. /\ Len(w) = b - a + 1
        /\ \A j \in 1 .. b - a + 1 : w[j] = t[a + j - 1]
    BY <1>1, <2>4, <2>5, SubSeqProperties
  <2>8. Trim(t) = w
    BY <1>3, <2>3 DEF Trim, solid
  <2> HIDE DEF w
  <2>9. d + Len(w) = b /\ \A j \in 1 .. Len(w) : a + j - 1 = d + j
    BY <1>1, <2>4, <2>6, <2>7
  <2>10. ASSUME NEW k \in 1 .. Len(t), k <= d \/ k > b PROVE t[k] = Space
    <3>1. k < a \/ k > b
      BY <1>1, <2>6, <2>10
    <3>2. k \notin solid
      BY <1>1, <2>2, <2>3, <3>1
    <3> QED  BY <1>1, <3>2
  <2>11. Within(w, t, d, {Space})
    BY <1>1, <2>7, <2>9, <2>10 DEF Within
  <2> QED  BY <2>8, <2>11
<1> QED  BY <1>2, <1>3

\* Unquoting takes off quotes only, and leaves a text.
LEMMA UnquotedWithin ==
    ASSUME NEW t \in Texts
    PROVE  Unquoted(t) \in Texts /\ \E d \in Nat : Within(Unquoted(t), t, d, {Quote})
<1>1. Len(t) \in Nat /\ DOMAIN t = 1 .. Len(t)
  BY LenProperties DEF Texts
<1>2. CASE Len(t) > 1 /\ Head(t) = Quote /\ Last(t) = Quote
  <2>1. t # <<>> /\ Head(t) = t[1] /\ Last(t) = t[Len(t)]
    <3>1. t # <<>>
      BY <1>2, EmptySeq
    <3> QED  BY <3>1, HeadTailProperties DEF Texts, Last
  <2> DEFINE u == Tail(t)
             m == Len(t) - 2
             w == SubSeq(u, 1, m)
  <2>2. m \in Nat /\ Len(t) = m + 2
    BY <1>1, <1>2
  <2>3. u \in Texts /\ Len(u) = m + 1 /\ \A i \in 1 .. m + 1 : u[i] = t[i + 1]
    <3>1. /\ u \in Texts /\ Len(u) = Len(t) - 1
          /\ \A i \in 1 .. Len(t) - 1 : u[i] = t[i + 1]
      BY <2>1, TailFacts
    <3>2. Len(t) - 1 = m + 1
      BY <1>1
    <3> QED  BY <3>1, <3>2
  <2> HIDE DEF u
  <2>4. Unquoted(t) = w
    <3>1. Len(u) - 1 = m
      BY <2>2, <2>3
    <3>2. Front(u) = w
      BY <3>1 DEF Front
    <3> QED  BY <1>2, <3>2 DEF Unquoted, u
  <2> HIDE DEF m
  <2>5. \A i \in 1 .. m : u[i] \in Symbols
    <3>1. \A i \in 1 .. m : i \in 1 .. Len(u)
      BY <2>2, <2>3
    <3> QED  BY <2>3, <3>1, ElementOfSeq DEF Texts
  <2>6. w \in Texts /\ Len(w) = m /\ \A i \in 1 .. m : w[i] = u[i]
    <3>1. /\ SubSeq(u, 1, m) \in Seq(Symbols)
          /\ Len(SubSeq(u, 1, m)) = IF 1 <= m THEN m - 1 + 1 ELSE 0
          /\ \A i \in 1 .. m - 1 + 1 : SubSeq(u, 1, m)[i] = u[1 + i - 1]
      BY <2>2, <2>5, SubSeqProperties
    <3>2. \A i \in 1 .. m : i \in 1 .. m - 1 + 1 /\ 1 + i - 1 = i
      BY <2>2
    <3>3. (IF 1 <= m THEN m - 1 + 1 ELSE 0) = m
      BY <2>2
    <3> QED  BY <3>1, <3>2, <3>3 DEF Texts
  <2> HIDE DEF w
  <2>7. \A i \in 1 .. m : w[i] = t[1 + i]
    <3>1. \A i \in 1 .. m : i \in 1 .. m + 1 /\ i + 1 = 1 + i
      BY <2>2
    <3> QED  BY <2>3, <2>6, <3>1
  <2>8. \A k \in 1 .. Len(t) : k <= 1 \/ k > 1 + m => k = 1 \/ k = Len(t)
    BY <2>2
  <2>9. Within(w, t, 1, {Quote})
    BY <1>2, <2>1, <2>2, <2>6, <2>7, <2>8 DEF Within
  <2> QED  BY <2>4, <2>6, <2>9
<1>3. CASE ~(Len(t) > 1 /\ Head(t) = Quote /\ Last(t) = Quote)
  <2>1. Unquoted(t) = t
    BY <1>3 DEF Unquoted
  <2>2. Within(t, t, 0, {Quote})
    BY <1>1 DEF Within
  <2> QED  BY <2>1, <2>2
<1> QED  BY <1>2, <1>3

\* What stands in what stands in a text stands in it.
LEMMA WithinWithin ==
    ASSUME NEW u \in Texts, NEW w \in Texts, NEW t \in Texts,
           NEW c \in Nat, NEW d \in Nat, NEW B, NEW E,
           Within(u, w, c, B), Within(w, t, d, E)
    PROVE  Within(u, t, d + c, B \union E)
<1>1. Len(u) \in Nat /\ Len(w) \in Nat /\ Len(t) \in Nat
  BY LenProperties DEF Texts
<1>2. c + Len(u) <= Len(w) /\ d + Len(w) <= Len(t)
  BY DEF Within
<1>3. (d + c) + Len(u) <= Len(t)
  BY <1>1, <1>2
<1>4. ASSUME NEW j \in 1 .. Len(u) PROVE u[j] = t[(d + c) + j]
  <2>1. c + j \in 1 .. Len(w) /\ d + (c + j) = (d + c) + j
    BY <1>1, <1>2
  <2> QED  BY <2>1 DEF Within
<1>5. ASSUME NEW k \in 1 .. Len(t), k <= d + c \/ k > (d + c) + Len(u)
      PROVE  t[k] \in B \union E
  <2>1. CASE k <= d \/ k > d + Len(w)
    BY <2>1 DEF Within
  <2>2. CASE ~(k <= d \/ k > d + Len(w))
    <3>1. PICK j \in 1 .. Len(w) : k = d + j
      <4>1. k - d \in 1 .. Len(w) /\ k = d + (k - d)
        BY <1>1, <2>2
      <4> QED  BY <4>1
    <3>2. j <= c \/ j > c + Len(u)
      BY <1>1, <1>5, <3>1
    <3> QED  BY <3>1, <3>2 DEF Within
  <2> QED  BY <2>1, <2>2
<1> QED  BY <1>3, <1>4, <1>5 DEF Within

\* A value that names none of our kinds runs no handler.
LEMMA NoKind ==
    ASSUME NEW s, NEW kinds,
           ParamsParse(s) => \A i \in DOMAIN kinds : Given(s, kinds[i]) = {}
    PROVE  Kind(s, kinds) = Malformed
BY DEF Kind

\* No challenge of ours, sent back, is an answer.
LEMMA ChallengeNoAnswer ==
    ASSUME NEW o \in Offers, o.scheme = Scheme
    PROVE  ParseAuthorization(MoleValue(o)) = Malformed
<1> DEFINE M == MoleValue(o)
           T == Tail(M)
<1>1. IsPlain(o.challenge) /\ IsPlain(o.realm)
  BY HeadersAssumption
<1>2. /\ M \in Texts /\ M # <<>> /\ M[1] = Scheme /\ M[Len(M)] = Quote
  BY <1>1, MoleText
<1>3. Trim(M) = M /\ Head(M) = Scheme
  <2> HIDE DEF M
  <2> QED  BY <1>2, TrimSame, SymbolFacts DEF Texts
<1>4. /\ T \in Texts /\ Len(M) \in Nat \ {0} /\ Len(T) = Len(M) - 1
      /\ \A i \in 1 .. Len(M) - 1 : T[i] = M[i + 1]
  BY <1>2, TailFacts
<1>5. \A i \in PartStarts(T) : i <= Len(T) => Key(Part(T, i)) \in {<<"challenge">>, <<"realm">>}
  <2>1. PICK s \in Texts : s = Tail(MoleValue(o))
    BY <1>4
  <2>2. Len(s) \in Nat
    BY LenProperties DEF Texts
  <2>3. \A i \in PartStarts(s) :
            i <= Len(Tail(MoleValue(o))) => Key(Part(s, i)) \in {<<"challenge">>, <<"realm">>}
    <3>1. /\ Len(Tail(MoleValue(o))) <= Len(s) /\ Len(s) = Len(Tail(MoleValue(o)))
          /\ \A i \in 1 .. Len(Tail(MoleValue(o))) : s[i] = Tail(MoleValue(o))[i]
      BY <2>1, <2>2
    <3> HIDE DEF M, T
    <3> QED  BY <1>1, <3>1, Reads
  <2> QED  BY <2>1, <2>3
<1> HIDE DEF T
<1> DEFINE C == "challenge"
           R == "realm"
<1>6. PICK k1 \in Symbols, k2 \in Symbols :
           AuthorizationKinds = <<k1, k2>> /\ {k1, k2} \intersect {C, R} = {}
  BY KindSymbols
<1>7. \A i \in PartStarts(T) : i <= Len(T) => Key(Part(T, i)) \in {<<C>>, <<R>>}
  BY <1>5
<1> HIDE DEF C, R, M
<1>8. \A i \in PartStarts(T) : i <= Len(T)
  <2> SUFFICES ASSUME NEW i \in PartStarts(T), i > Len(T) PROVE FALSE
    BY <1>4, StartFacts
  <2>1. i \in 1 .. Len(T) + 1 /\ (i = 1 \/ T[i - 1] = Comma)
    BY <1>4, StartFacts
  <2>2. i = Len(T) + 1 /\ Len(T) \in Nat /\ i - 1 = Len(T)
    BY <1>4, <2>1
  <2>3. CASE i = 1
    <3>1. Len(M) = 1
      BY <1>4, <2>2, <2>3
    <3> QED  BY <1>2, <3>1, SymbolFacts
  <2>4. CASE i # 1
    <3>1. Len(T) \in 1 .. Len(M) - 1 /\ Len(T) + 1 = Len(M)
      BY <1>4, <2>2, <2>4
    <3> QED  BY <1>2, <1>4, <2>1, <2>2, <2>4, <3>1, SymbolFacts
  <2> QED  BY <2>3, <2>4
<1>9. \A k \in {k1, k2} : Given(T, k) = {}
  <2> SUFFICES ASSUME NEW k \in {k1, k2}, NEW i \in Given(T, k) PROVE FALSE
    OBVIOUS
  <2>1. i \in PartStarts(T) /\ Key(Part(T, i)) = <<k>>
    BY DEF Given, Params
  <2>2. <<k>> # <<C>> /\ <<k>> # <<R>>
    BY <1>6
  <2> QED  BY <1>7, <1>8, <2>1, <2>2
<1>10. \A i \in DOMAIN AuthorizationKinds : Given(T, AuthorizationKinds[i]) = {}
  BY <1>6, <1>9
<1>11. Kind(T, AuthorizationKinds) = Malformed
  BY <1>10, NoKind
<1> QED  BY <1>2, <1>3, <1>11 DEF ParseAuthorization, T, M

\* part stands in v after position i, from the scheme or a comma to a comma or
\* the end.
IsPartOf(part, v, i) ==
    /\ i + Len(part) <= Len(v)
    /\ i = 1 \/ v[i] = Comma
    /\ \A j \in 1 .. Len(part) : part[j] = v[i + j] /\ part[j] # Comma
    /\ i + Len(part) = Len(v) \/ v[i + Len(part) + 1] = Comma

\* Where such a part is read as a parameter, the text carries that.
LEMMA CarriedBy ==
    ASSUME NEW v \in Texts, NEW part \in Texts, NEW i \in Nat \ {0}, NEW k,
           IsPartOf(part, v, i), Key(part) = <<k>>, Equals \in ToSet(part)
    PROVE  Carries(v, [kind |-> k, value |-> Value(part)])
<1>1. /\ DOMAIN part = 1 .. Len(part) /\ Len(part) \in Nat
      /\ DOMAIN v = 1 .. Len(v) /\ Len(v) \in Nat
      /\ i + Len(part) <= Len(v)
  BY LenProperties DEF Texts, IsPartOf
<1>b. i = 1 \/ v[i] = Comma
  BY DEF IsPartOf
<1>c. \A j \in 1 .. Len(part) : part[j] = v[i + j] /\ part[j] # Comma
  BY DEF IsPartOf
<1>d. i + Len(part) = Len(v) \/ v[i + Len(part) + 1] = Comma
  BY DEF IsPartOf
<1> DEFINE E == {j \in DOMAIN part : part[j] = Equals}
<1>2. E \subseteq 1 .. Len(part) /\ E # {} /\ \A j \in E : part[j] = Equals
  BY <1>1 DEF ToSet
<1> HIDE DEF E
<1>3. PICK f \in 1 .. Len(part) : f = FirstEquals(part) /\ part[f] = Equals
  <2>1. E \subseteq Nat
    BY <1>1, <1>2
  <2>2. Min(E) \in E
    BY <1>2, <2>1, Least
  <2> QED  BY <1>2, <2>2 DEF FirstEquals, E
<1>4. PICK h \in Nat : f = h + 1
  <2>1. f - 1 \in Nat /\ f = (f - 1) + 1
    BY <1>1
  <2> QED  BY <2>1
<1>5. PICK e \in 1 .. Len(v) : e = i + f
  BY <1>1
<1>6. v[e] = Equals
  BY <1>3, <1>5, <1>c
<1> DEFINE front == SubSeq(part, 1, h)
           back == After(part, f)
<1>7. NamedAt(v, k, e)
  <2>1. front \in Texts /\ Len(front) = h /\ \A j \in 1 .. h : front[j] = part[j]
    <3>1. \A j \in 1 .. h : j \in 1 .. Len(part)
      BY <1>1, <1>4
    <3>2. \A j \in 1 .. h : part[j] \in Symbols
      BY <3>1, ElementOfSeq DEF Texts
    <3>3. /\ SubSeq(part, 1, h) \in Seq(Symbols)
          /\ Len(SubSeq(part, 1, h)) = IF 1 <= h THEN h - 1 + 1 ELSE 0
          /\ \A j \in 1 .. h - 1 + 1 : SubSeq(part, 1, h)[j] = part[1 + j - 1]
      BY <3>2, SubSeqProperties
    <3>4. /\ \A j \in 1 .. h : j \in 1 .. h - 1 + 1 /\ 1 + j - 1 = j
          /\ (IF 1 <= h THEN h - 1 + 1 ELSE 0) = h
      OBVIOUS
    <3> QED  BY <3>3, <3>4 DEF Texts
  <2>2. Trim(front) = <<k>>
    <3>1. f - 1 = h
      BY <1>4
    <3> QED  BY <1>3, <3>1 DEF Key
  <2> HIDE DEF front
  <2>3. PICK d \in Nat : Within(<<k>>, front, d, {Space})
    BY <2>1, <2>2, TrimWithin
  <2>4. d + 1 <= h /\ front[d + 1] = k /\ \A j \in 1 .. h : j # d + 1 => front[j] = Space
    <3>1. Len(<<k>>) = 1 /\ <<k>>[1] = k
      OBVIOUS
    <3>2. \A j \in 1 .. h : j # d + 1 => j <= d \/ j > d + 1
      OBVIOUS
    <3> QED  BY <2>1, <2>3, <3>1, <3>2 DEF Within
  <2>5. PICK n \in 1 .. e - 1 : n = i + (d + 1)
    BY <1>1, <1>4, <1>5, <2>4
  <2>6. v[n] = k
    <3>1. d + 1 \in 1 .. h /\ d + 1 \in 1 .. Len(part)
      BY <1>1, <1>4, <2>4
    <3> QED  BY <1>c, <2>1, <2>4, <2>5, <3>1
  <2>7. ASSUME NEW j \in i + 1 .. e - 1, j # n PROVE v[j] = Space
    <3>1. PICK q \in 1 .. h : j = i + q
      <4>1. j - i \in 1 .. h /\ j = i + (j - i)
        BY <1>1, <1>4, <1>5
      <4> QED  BY <4>1
    <3>2. q \in 1 .. Len(part) /\ q # d + 1
      BY <1>1, <1>4, <2>5, <2>7, <3>1
    <3> QED  BY <1>c, <2>1, <2>4, <3>1, <3>2
  <2>8. i \in 1 .. e - 1 /\ i < n
    BY <1>1, <1>5, <2>4, <2>5
  <2> QED  BY <1>6, <1>b, <2>5, <2>6, <2>7, <2>8 DEF NamedAt
<1>8. ValuedAt(v, Value(part), e)
  <2>1. /\ back \in Texts /\ Len(back) = Len(part) - f
        /\ \A j \in 1 .. Len(part) - f : back[j] = part[f + j]
    <3>1. f \in 0 .. Len(part)
      BY <1>1
    <3> QED  BY <3>1, AfterFacts
  <2> HIDE DEF back
  <2> DEFINE t == Trim(back)
             u == Unquoted(t)
  <2>2. t \in Texts /\ u \in Texts
    BY <2>1, TrimText, UnquotedWithin
  <2>3. PICK d1 \in Nat : Within(t, back, d1, {Space})
    BY <2>1, TrimWithin
  <2>4. PICK d2 \in Nat : Within(u, t, d2, {Quote})
    BY <2>2, UnquotedWithin
  <2>5. Value(part) = u
    BY <1>3 DEF Value, back
  <2> HIDE DEF t, u
  <2>6. PICK d \in Nat : Within(u, back, d, {Space, Quote})
    <3>1. Within(u, back, d1 + d2, {Quote} \union {Space})
      BY <2>1, <2>2, <2>3, <2>4, WithinWithin
    <3>2. {Quote} \union {Space} = {Space, Quote} /\ d1 + d2 \in Nat
      OBVIOUS
    <3> QED  BY <3>1, <3>2
  <2>7. PICK m \in Nat : m = Len(u) /\ d + m <= Len(part) - f
    BY <2>1, <2>2, <2>6, LenProperties DEF Texts, Within
  <2>8. PICK from \in e .. Len(v), to \in e .. Len(v), x \in e .. Len(v) :
            from = e + d /\ to = from + m /\ x = i + Len(part)
    <3>1. PICK l \in Nat : l = Len(part)
      BY <1>1
    <3>2. d + m <= l - f /\ i + l <= Len(v) /\ e = i + f /\ f \in 1 .. l
      BY <1>1, <1>5, <2>7, <3>1
    <3>3. e + d \in e .. Len(v) /\ (e + d) + m \in e .. Len(v) /\ i + l \in e .. Len(v)
      BY <1>1, <3>1, <3>2
    <3> QED  BY <3>1, <3>3
  <2>9. x = Len(v) \/ v[x + 1] = Comma
    BY <1>d, <2>8
  <2>10. ASSUME NEW j \in e + 1 .. x
         PROVE  \E q \in 1 .. Len(back) : /\ j = e + q /\ v[j] = back[q] /\ v[j] # Comma
    <3>1. PICK q \in 1 .. Len(back) : j = e + q
      <4>1. j - e \in 1 .. Len(back) /\ j = e + (j - e)
        BY <1>1, <1>5, <2>1, <2>8
      <4> QED  BY <4>1
    <3>2. f + q \in 1 .. Len(part) /\ j = i + (f + q)
      BY <1>1, <1>5, <2>1, <3>1
    <3>3. q \in 1 .. Len(part) - f
      BY <2>1
    <3> QED  BY <1>c, <2>1, <3>1, <3>2, <3>3
  <2>11. \A j \in (e + 1 .. from) \union (to + 1 .. x) : v[j] \in {Space, Quote}
    <3> SUFFICES ASSUME NEW j \in (e + 1 .. from) \union (to + 1 .. x)
                 PROVE  v[j] \in {Space, Quote}
      OBVIOUS
    <3>1. j \in e + 1 .. x
      BY <1>1, <1>5, <2>7, <2>8
    <3>2. PICK q \in 1 .. Len(back) : j = e + q /\ v[j] = back[q]
      BY <2>10, <3>1
    <3>3. q <= d \/ q > d + m
      BY <1>1, <2>8, <3>2
    <3> QED  BY <2>6, <2>7, <3>2, <3>3 DEF Within
  <2>12. u = SubSeq(v, from + 1, to)
    <3>1. \A j \in from + 1 .. to : j \in 1 .. Len(v)
      BY <1>1
    <3>2. \A j \in from + 1 .. to : v[j] \in Symbols
      BY <3>1, ElementOfSeq DEF Texts
    <3>3. PICK b \in Int : b = from + 1
      BY <1>1
    <3> DEFINE w == SubSeq(v, b, to)
    <3>4. /\ w \in Texts
          /\ Len(w) = IF b <= to THEN to - b + 1 ELSE 0
          /\ \A j \in 1 .. to - b + 1 : w[j] = v[b + j - 1]
      <4>1. to \in Int /\ \A j \in b .. to : v[j] \in Symbols
        BY <1>1, <3>2, <3>3
      <4> QED  BY <3>3, <4>1, SubSeqProperties DEF Texts
    <3> HIDE DEF w
    <3>5. Len(w) = m /\ \A j \in 1 .. m : w[j] = v[from + j]
      <4>1. (IF b <= to THEN to - b + 1 ELSE 0) = m
        BY <1>1, <2>8, <3>3
      <4>2. \A j \in 1 .. m : j \in 1 .. to - b + 1 /\ b + j - 1 = from + j
        BY <1>1, <2>8, <3>3
      <4> QED  BY <3>4, <4>1, <4>2
    <3>6. ASSUME NEW j \in 1 .. m PROVE u[j] = v[from + j]
      <4>1. u[j] = back[d + j]
        BY <2>6, <2>7 DEF Within
      <4>2. d + j \in 1 .. Len(part) - f /\ f + (d + j) \in 1 .. Len(part)
            /\ i + (f + (d + j)) = from + j
        BY <1>1, <1>5, <2>7, <2>8
      <4> QED  BY <1>c, <2>1, <4>1, <4>2
    <3>7. u = w
      BY <2>2, <2>7, <3>4, <3>5, <3>6, SeqEqual DEF Texts
    <3> QED  BY <3>3, <3>7 DEF w
  <2>13. to <= x /\ \A j \in e + 1 .. x : v[j] # Comma
    BY <1>1, <1>5, <2>7, <2>8, <2>10
  <2> QED  BY <2>5, <2>9, <2>11, <2>12, <2>13 DEF ValuedAt
<1> QED  BY <1>1, <1>7, <1>8 DEF Carries

\* What an Authorization is taken for, it carries, behind our name.
LEMMA Carried ==
    ASSUME NEW text \in Texts, ParseAuthorization(text) # Malformed
    PROVE  /\ Head(Trim(text)) = Scheme
           /\ \E k \in ToSet(AuthorizationKinds), value \in Bodies \union DOMAIN Decoded :
                  /\ ParseAuthorization(text) = [kind |-> k, value |-> value]
                  /\ Carries(Trim(text), ParseAuthorization(text))
<1> DEFINE v == Trim(text)
           s == Tail(v)
           kinds == AuthorizationKinds
<1>1. v \in Texts /\ v # <<>> /\ Head(v) = Scheme /\ ParseAuthorization(text) = Kind(s, kinds)
  BY TrimText DEF ParseAuthorization
<1> HIDE DEF v
<1>2. /\ s \in Texts /\ Len(v) \in Nat \ {0} /\ Len(s) = Len(v) - 1
      /\ \A j \in 1 .. Len(v) - 1 : s[j] = v[j + 1]
  BY <1>1, TailFacts
<1> HIDE DEF s
<1> DEFINE named == {j \in DOMAIN kinds : Given(s, kinds[j]) # {}}
           k == kinds[Min(named)]
<1>3. /\ ParamsParse(s) /\ named # {}
      /\ Get(s, k) \in Bodies \union DOMAIN Decoded
      /\ Kind(s, kinds) = [kind |-> k, value |-> Get(s, k)]
  BY <1>1 DEF Kind
<1>4. k \in ToSet(kinds) /\ Given(s, k) # {}
  <2>1. DOMAIN kinds = {1, 2}
    BY DEF AuthorizationKinds
  <2>2. named \subseteq DOMAIN kinds /\ \A j \in named : Given(s, kinds[j]) # {}
    OBVIOUS
  <2> HIDE DEF named, kinds
  <2>3. Min(named) \in named
    <3>1. named \subseteq Nat
      BY <2>1, <2>2
    <3> QED  BY <1>3, <3>1, Least
  <2> QED  BY <2>2, <2>3 DEF ToSet
<1> HIDE DEF named, k
<1> DEFINE G == Given(s, k)
<1>5. PICK i \in PartStarts(s) : /\ Get(s, k) = Value(Part(s, i))
                                /\ i \in Params(s) /\ Key(Part(s, i)) = <<k>>
  <2>1. G \subseteq Params(s) /\ Params(s) \subseteq PartStarts(s)
        /\ \A j \in G : Key(Part(s, j)) = <<k>>
    BY DEF Given, Params
  <2>2. PartStarts(s) \subseteq Nat
    BY <1>2, StartFacts
  <2>3. Get(s, k) = Value(Part(s, Min(G)))
    BY DEF Get
  <2> HIDE DEF G
  <2>4. Min(G) \in G
    BY <1>4, <2>1, <2>2, Least DEF G
  <2> QED  BY <2>1, <2>3, <2>4
<1> DEFINE part == Part(s, i)
<1>6. Equals \in ToSet(part)
  BY <1>3, <1>5 DEF ParamsParse
<1>7. i \in 1 .. Len(s) + 1 /\ (i = 1 \/ s[i - 1] = Comma)
  BY <1>2, StartFacts
<1>8. PICK x \in 0 .. Len(s) :
          /\ RunsTo(s, i, x) /\ part \in Texts /\ Len(part) = x - i + 1
          /\ \A j \in 1 .. x - i + 1 : part[j] = s[i + j - 1]
  BY <1>2, <1>7, PartFacts
<1> HIDE DEF part
<1>9. /\ i \in Nat \ {0} /\ i + Len(part) = x + 1 /\ x + 1 <= Len(v)
      /\ Len(part) \in Nat
  BY <1>2, <1>7, <1>8 DEF RunsTo
<1>10. i = 1 \/ v[i] = Comma
  <2>1. i # 1 => i - 1 \in 1 .. Len(v) - 1 /\ (i - 1) + 1 = i
    BY <1>2, <1>7
  <2> QED  BY <1>2, <1>7, <2>1
<1>11. ASSUME NEW j \in 1 .. Len(part) PROVE part[j] = v[i + j] /\ part[j] # Comma
  <2>1. /\ j \in 1 .. x - i + 1 /\ i + j - 1 \in 1 .. Len(v) - 1 /\ (i + j - 1) + 1 = i + j
        /\ i + j - 1 \in i .. x
    BY <1>2, <1>7, <1>8, <1>9
  <2> QED  BY <1>2, <1>8, <2>1 DEF RunsTo
<1>12. i + Len(part) = Len(v) \/ v[i + Len(part) + 1] = Comma
  <2>1. CASE x = Len(s)
    BY <1>2, <1>9, <2>1
  <2>2. CASE x # Len(s)
    <3>1. x + 1 \in 1 .. Len(v) - 1 /\ (x + 1) + 1 = i + Len(part) + 1
      BY <1>2, <1>8, <1>9, <2>2
    <3> QED  BY <1>2, <1>8, <2>2, <3>1 DEF RunsTo
  <2> QED  BY <2>1, <2>2
<1>13. Carries(v, [kind |-> k, value |-> Value(part)])
  <2>1. Key(part) = <<k>>
    BY <1>5 DEF part
  <2>2. IsPartOf(part, v, i)
    BY <1>9, <1>10, <1>11, <1>12 DEF IsPartOf
  <2> QED  BY <1>1, <1>6, <1>8, <1>9, <2>1, <2>2, CarriedBy
<1>14. Value(part) = Get(s, k)
  BY <1>5 DEF part
<1> QED  BY <1>1, <1>3, <1>4, <1>13, <1>14 DEF v

\* Requests of Mole Clients, and of others.
Asked == [kind : ToSet(AuthorizationKinds), value : Bodies]
Foreign == {Other(text) : text \in OtherAuthorizations}

\* What the Moderator may take another's text for.
Understood(text, a) ==
    a # Malformed =>
        /\ a.kind \in ToSet(AuthorizationKinds)
        /\ Head(Trim(text)) = Scheme
        /\ Carries(Trim(text), a)
        /\ ~SentBack(text)

\* What its handlers may return to it.
Returns(a) ==
    {Absent} \union
    {c \in [kind : {"response", "update"}, value : Bodies] :
        /\ c.kind = "response" => a.kind = "credential-request"
        /\ c.kind = "update" => a.kind = "presentation"}

\* What has been written has been read as it was meant.
AnswerInv ==
    /\ request # Nothing => request \in Asked \union Foreign
    /\ taken # Nothing =>
           /\ request # Nothing
           /\ IF request.kind = "other" THEN Understood(request.value, taken) ELSE taken = request
    /\ response # Nothing => taken # Nothing /\ response \in Returns(taken)
    /\ read # Nothing => response # Nothing /\ read = response

\* A Client's Authorization is taken for what it is, another's for something
\* that it carries.
LEMMA Taken ==
    ASSUME NEW r \in Asked \union Foreign, NEW a, a = ParseAuthorization(AuthorizationValue(r))
    PROVE  /\ a # Nothing
           /\ IF r.kind = "other" THEN Understood(r.value, a) ELSE a = r
<1>1. CASE r \in Asked
  <2>1. r.kind \in ToSet(AuthorizationKinds) /\ r.value \in Bodies
        /\ r = [kind |-> r.kind, value |-> r.value]
    BY <1>1 DEF Asked
  <2>2. r.kind # "other"
    BY <2>1, KindSymbols
  <2>3. ParseAuthorization(<<Scheme, Space>> \o Param(r.kind, r.value)) = r
    BY <2>1, AuthorizationRead
  <2>4. DOMAIN r = {"kind", "value"}
    BY <2>1
  <2>5. AuthorizationValue(r) = <<Scheme, Space>> \o Param(r.kind, r.value)
    BY <2>2 DEF AuthorizationValue
  <2>6. r # Nothing
    BY <2>4 DEF Nothing
  <2> QED  BY <2>2, <2>3, <2>5, <2>6
<1>2. CASE r \in Foreign
  <2>1. PICK text \in OtherAuthorizations : r = Other(text)
    BY <1>2 DEF Foreign
  <2>2. r.kind = "other" /\ r.value = text /\ a = ParseAuthorization(text)
    BY <2>1 DEF Other, AuthorizationValue
  <2>3. text \in Texts
    BY HeadersAssumption DEF Texts
  <2>4. CASE a = Malformed
    <3>1. DOMAIN Malformed = {"kind"}
      BY DEF Malformed
    <3>2. Malformed # Nothing
      BY <3>1 DEF Nothing
    <3> QED  BY <2>2, <2>4, <3>2 DEF Understood
  <2>5. CASE a # Malformed
    <3>1. Head(Trim(text)) = Scheme
      BY <2>2, <2>3, <2>5, Carried
    <3>2. PICK k \in ToSet(AuthorizationKinds) :
              /\ \E value : a = [kind |-> k, value |-> value]
              /\ Carries(Trim(text), a)
      BY <2>2, <2>3, <2>5, Carried
    <3>3. ~SentBack(text)
      BY <2>2, <2>5, ChallengeNoAnswer DEF SentBack
    <3>4. DOMAIN a = {"kind", "value"} /\ a.kind = k
      BY <3>2
    <3>5. a # Nothing
      BY <3>4 DEF Nothing
    <3> QED  BY <2>2, <3>1, <3>2, <3>3, <3>4, <3>5 DEF Understood
  <2> QED  BY <2>4, <2>5
<1> QED  BY <1>1, <1>2

\* No answer yet.
LEMMA AnswerInit == Init => AnswerInv
BY DEF Init, AnswerInv

\* Every step of the exchange passes on what was meant; the others leave it alone.
LEMMA AnswerNext == AnswerInv /\ [Next]_vars => AnswerInv'
<1> SUFFICES ASSUME AnswerInv, [Next]_vars PROVE AnswerInv'
  OBVIOUS
<1>1. CASE UNCHANGED answerVars
  BY <1>1 DEF AnswerInv, answerVars
<1>2. CASE Authorize
  <2>1. taken = Nothing /\ response = Nothing /\ read = Nothing
    BY <1>2 DEF AnswerInv, Authorize
  <2>2. request' \in Asked \union Foreign
    BY <1>2 DEF Authorize, Asked, Foreign
  <2> QED  BY <1>2, <2>1, <2>2 DEF AnswerInv, Authorize
<1>3. CASE Dispatch
  <2>1. request \in Asked \union Foreign /\ response = Nothing /\ read = Nothing
    BY <1>3 DEF AnswerInv, Dispatch
  <2>2. /\ taken' # Nothing
        /\ IF request.kind = "other" THEN Understood(request.value, taken') ELSE taken' = request
    BY <1>3, <2>1, Taken DEF Dispatch
  <2>3. response' \in Returns(taken')
    <3>1. CASE taken'.kind = "credential-request"
      BY <1>3, <3>1 DEF Dispatch, Returns
    <3>2. CASE taken'.kind = "presentation"
      BY <1>3, <3>2 DEF Dispatch, Returns
    <3>3. CASE taken'.kind \notin {"credential-request", "presentation"}
      BY <1>3, <3>3 DEF Dispatch, Returns
    <3> QED  BY <3>1, <3>2, <3>3
  <2>4. UNCHANGED <<request, read>>
    BY <1>3 DEF Dispatch
  <2>5. request # Nothing
    BY <1>3 DEF Dispatch
  <2>6. taken' # Nothing =>
            /\ request' # Nothing
            /\ IF request'.kind = "other" THEN Understood(request'.value, taken') ELSE taken' = request'
    BY <2>2, <2>4, <2>5
  <2>7. request' \in Asked \union Foreign /\ taken' # Nothing /\ read' = Nothing
    BY <2>1, <2>2, <2>4
  <2> QED  BY <2>3, <2>6, <2>7 DEF AnswerInv, Understood, SentBack
<1>4. CASE ReadCredential
  <2>1. response \in Returns(taken) /\ taken # Nothing
    BY <1>4 DEF AnswerInv, ReadCredential
  <2>2. read' = response
    <3>1. CASE response = Absent
      BY <1>4, <3>1 DEF ReadCredential
    <3>2. CASE response # Absent
      <4>1. response \in [kind : {"response", "update"}, value : Bodies]
        BY <2>1, <3>2 DEF Returns
      <4>2. response = [kind |-> response.kind, value |-> response.value]
            /\ response.kind \in {"response", "update"} /\ response.value \in Bodies
        BY <4>1
      <4>3. ParseCredential(Param(response.kind, response.value)) = response
        BY <4>2, CredentialRead
      <4> QED  BY <1>4, <3>2, <4>3 DEF ReadCredential, CredentialValue
    <3> QED  BY <3>1, <3>2
  <2> QED  BY <1>4, <2>1, <2>2 DEF AnswerInv, ReadCredential
<1>5. CASE NextValue \/ CutSegment \/ Consider
  BY <1>1, <1>5 DEF NextValue, CutSegment, Consider
<1> QED  BY <1>1, <1>2, <1>3, <1>4, <1>5 DEF Next, vars

\* The invariant is what the property says, with the reason.
LEMMA AnswerSafe == AnswerInv => AnswerUnderstood
<1> SUFFICES ASSUME AnswerInv PROVE AnswerUnderstood
  OBVIOUS
<1>1. taken # Nothing => IF request.kind = "other" THEN Understood(request.value, taken)
                                                   ELSE taken = request
  BY DEF AnswerInv
<1>2. taken # Nothing /\ request.kind = "other" /\ taken # Malformed =>
          /\ taken.kind \in ToSet(AuthorizationKinds)
          /\ Head(Trim(request.value)) = Scheme
          /\ Carries(Trim(request.value), taken)
          /\ ~SentBack(request.value)
  BY <1>1 DEF Understood
<1>3. read # Nothing =>
          /\ read = response
          /\ read.kind = "response" => taken.kind = "credential-request"
          /\ read.kind = "update" => taken.kind = "presentation"
  BY DEF AnswerInv, Returns, Absent
<1> QED  BY <1>1, <1>2, <1>3 DEF AnswerUnderstood

\* MoleAuthorization::parse and MoleCredential::parse read every request and every
\* answer of the two roles as what its writer meant, whatever base64url values
\* they carry. Of any other text that a user agent may send, a handler runs only
\* for one that begins with our name, and on what a parameter of that handler's
\* name carries; for no challenge sent back.
THEOREM AnswerUnderstoodHolds == Spec => []AnswerUnderstood
BY AnswerInit, AnswerNext, AnswerSafe, PTL DEF Spec
=============================================================================
