---------------------------- MODULE FramingProofs ----------------------------
(***************************************************************************)
(* A request is handed over with its body, whatever the segments: IInv is  *)
(* an invariant of the framing, for requests, chunks and bodies of every   *)
(* length, every size of the buffer and every limit of an int.             *)
(***************************************************************************)
EXTENDS Framing, SequenceTheorems, WellFoundedInduction, TLAPS

-----------------------------------------------------------------------------
(***************************************************************************)
(* What FlattenSeq makes of a sequence, element by element                 *)
(***************************************************************************)

\* A set of numbers that is not empty has a least element.
LEMMA LeastElement ==
    ASSUME NEW T, T \subseteq Nat, T # {}
    PROVE  \E x \in T : \A y \in T : x <= y
<1> DEFINE R == OpToRel(<, Nat)
<1>1. IsWellFoundedOn(R, Nat)
  BY NatLessThanWellFounded
<1>2. \A x, y \in Nat : x < y => <<x, y>> \in R
  BY DEF OpToRel
<1>3. ASSUME NEW Q, NEW S, IsWellFoundedOn(Q, S), T \subseteq S
      PROVE  \E x \in T : \A y \in T : ~(<<y, x>> \in Q)
  BY <1>3, WFMin
<1> HIDE DEF R
<1>4. PICK x \in T : \A y \in T : ~(<<y, x>> \in R)
  BY <1>1, <1>3
<1>5. ASSUME NEW y \in T
      PROVE  x <= y
  <2>1. x \in Nat /\ y \in Nat
    OBVIOUS
  <2>2. ~(y < x)
    BY <1>2, <1>4, <2>1
  <2> QED
    BY <2>1, <2>2
<1> QED
  BY <1>5

\* What holds of the first number and passes to the next holds of all up to n.
LEMMA Upward ==
    ASSUME NEW n \in Nat, NEW G, 0 \in G,
           \A i \in 1..n : i - 1 \in G => i \in G
    PROVE  \A i \in 0..n : i \in G
<1> DEFINE T == {i \in 0..n : i \notin G}
<1> SUFFICES ASSUME T # {}
             PROVE  FALSE
  OBVIOUS
<1>1. PICK x \in T : \A y \in T : x <= y
  <2>1. T \subseteq Nat
    OBVIOUS
  <2> HIDE DEF T
  <2> QED
    BY <2>1, LeastElement
<1>2. x \in 1..n /\ x - 1 \in 0..n
  OBVIOUS
<1>3. x - 1 \notin T
  BY <1>1, <1>2
<1> QED
  BY <1>2, <1>3

\* And downward.
LEMMA Downward ==
    ASSUME NEW n \in Nat, NEW G, n \in G,
           \A i \in 0..(n - 1) : i + 1 \in G => i \in G
    PROVE  \A i \in 0..n : i \in G
<1> DEFINE H == {i \in 0..n : n - i \in G}
<1>1. 0 \in H
  OBVIOUS
<1>2. ASSUME NEW i \in 1..n, i - 1 \in H
      PROVE  i \in H
  <2>1. n - (i - 1) = (n - i) + 1 /\ n - i \in 0..(n - 1)
    OBVIOUS
  <2> QED
    BY <1>2, <2>1
<1>3. \A i \in 0..n : i \in H
  <2> HIDE DEF H
  <2> QED
    BY <1>1, <1>2, Upward
<1>4. ASSUME NEW i \in 0..n
      PROVE  i \in G
  <2>1. n - i \in 0..n /\ n - (n - i) = i
    OBVIOUS
  <2> QED
    BY <1>3, <2>1
<1> QED
  BY <1>4

\* F[n] is the first n elements of s, one after the other.
Sums(F, s, S, n) ==
    /\ F \in [0..n -> Seq(S)] /\ F[0] = <<>>
    /\ \A i \in 1..n : F[i] = F[i - 1] \o s[i]

LEMMA SumsExist ==
    ASSUME NEW S, NEW s \in Seq(Seq(S))
    PROVE  \E F : Sums(F, s, S, Len(s))
<1> DEFINE G == {n \in 0..Len(s) : \E F : Sums(F, s, S, n)}
<1>1. 0 \in G
  <2>1. Sums([i \in 0..0 |-> <<>>], s, S, 0)
    BY DEF Sums
  <2>2. 0 \in 0..Len(s)
    OBVIOUS
  <2> QED
    BY <2>1, <2>2
<1>2. ASSUME NEW n \in 1..Len(s), n - 1 \in G
      PROVE  n \in G
  <2>1. PICK F : Sums(F, s, S, n - 1)
    BY <1>2
  <2> DEFINE H == [i \in 0..n |-> IF i = n THEN F[n - 1] \o s[n] ELSE F[i]]
  <2>2. s[n] \in Seq(S)
    BY ElementOfSeq
  <2>3. F[n - 1] \in Seq(S) /\ F[n - 1] \o s[n] \in Seq(S)
    BY <2>1, <2>2 DEF Sums
  <2>4. H \in [0..n -> Seq(S)]
    BY <2>1, <2>3 DEF Sums
  <2>5. H[0] = <<>>
    BY <2>1 DEF Sums
  <2>6. ASSUME NEW i \in 1..n
        PROVE  H[i] = H[i - 1] \o s[i]
    <3>1. /\ i \in 0..n /\ i - 1 \in 0..n /\ i - 1 # n
          /\ i # n => i \in 1..(n - 1)
      OBVIOUS
    <3>2. H[i - 1] = F[i - 1] /\ (i # n => H[i] = F[i]) /\ (i = n => H[i] = F[i - 1] \o s[i])
      BY <3>1
    <3> QED
      BY <2>1, <3>1, <3>2 DEF Sums
  <2>7. Sums(H, s, S, n)
    BY <2>4, <2>5, <2>6, Zenon DEF Sums
  <2> QED
    BY <2>7
<1>3. Len(s) \in Nat
  OBVIOUS
<1>4. \A n \in 0..Len(s) : n \in G
  <2> HIDE DEF G
  <2> QED
    BY <1>1, <1>2, <1>3, Upward
<1>5. Len(s) \in 0..Len(s)
  BY <1>3
<1> QED
  BY <1>4, <1>5

LEMMA SumsFlatten ==
    ASSUME NEW S, NEW s \in Seq(Seq(S)), NEW F, Sums(F, s, S, Len(s)),
           NEW j \in 0..Len(s)
    PROVE  FlattenSeq(SubSeq(s, 1, j)) = F[j]
<1> DEFINE t == SubSeq(s, 1, j)
           Step(f) == [i \in 1..Len(t) |-> IF i = 1 THEN t[i] ELSE f[i - 1] \o t[i]]
           f == CHOOSE g : g = Step(g)
           w == [i \in 1..j |-> F[i]]
<1>1. t \in Seq(Seq(S)) /\ Len(t) = j /\ \A i \in 1..j : t[i] = s[i]
  OBVIOUS
<1>2. CASE j = 0
  <2>1. t = <<>>
    BY <1>2
  <2>2. FlattenSeq(t) = t
    BY <1>1, <1>2, Zenon DEF FlattenSeq
  <2> QED
    BY <1>2, <2>1, <2>2 DEF Sums
<1>3. CASE j # 0
  <2>1. FlattenSeq(t) = f[j]
    BY <1>1, <1>3, Zenon DEF FlattenSeq
  <2>2. \A i \in 1..j : F[i - 1] \in Seq(S) /\ s[i] \in Seq(S) /\ F[i] = F[i - 1] \o s[i]
    <3>1. ASSUME NEW i \in 1..j
          PROVE  i \in 1..Len(s) /\ i - 1 \in 0..Len(s)
      OBVIOUS
    <3>2. \A i \in 1..Len(s) : s[i] \in Seq(S)
      BY ElementOfSeq
    <3> QED
      BY <3>1, <3>2, Zenon DEF Sums
  <2>3. F[1] = s[1]
    <3>1. 1 \in 1..j /\ 1 - 1 = 0
      BY <1>3
    <3>2. F[1] = <<>> \o s[1] /\ s[1] \in Seq(S)
      BY <2>2, <3>1 DEF Sums
    <3> QED
      BY <3>2, ConcatEmptySeq
  <2>4. w = Step(w)
    <3>1. \A i \in 1..j : F[i] = IF i = 1 THEN t[i] ELSE w[i - 1] \o t[i]
      <4> SUFFICES ASSUME NEW i \in 1..j
                   PROVE  F[i] = IF i = 1 THEN t[i] ELSE w[i - 1] \o t[i]
        OBVIOUS
      <4>1. i # 1 => i - 1 \in 1..j
        OBVIOUS
      <4>2. i # 1 => w[i - 1] = F[i - 1]
        BY <4>1
      <4> HIDE DEF w, t
      <4> QED
        BY <1>1, <2>2, <2>3, <4>2
    <3> QED
      BY <1>1, <3>1
  <2>5. f = Step(f)
    BY <2>4, Zenon
  <2>6. \A i \in 1..j : f[i] = IF i = 1 THEN t[i] ELSE f[i - 1] \o t[i]
    <3> HIDE DEF f
    <3> QED
      BY <1>1, <2>5
  <2> DEFINE G == {i \in 0..j : i = 0 \/ f[i] = F[i]}
  <2>7. 0 \in G
    OBVIOUS
  <2>8. ASSUME NEW i \in 1..j, i - 1 \in G
        PROVE  i \in G
    <3> HIDE DEF f, t
    <3>1. i = 1 => f[i] = F[i]
      BY <1>1, <2>3, <2>6
    <3>2. i # 1 => f[i] = F[i]
      <4>1. i # 1 => f[i - 1] = F[i - 1]
        BY <2>8
      <4>2. i # 1 => f[i] = f[i - 1] \o t[i]
        BY <2>6
      <4>3. t[i] = s[i]
        BY <1>1
      <4>4. F[i] = F[i - 1] \o s[i]
        BY <2>2
      <4> QED
        BY <4>1, <4>2, <4>3, <4>4, Zenon
    <3> QED
      BY <3>1, <3>2
  <2>9. \A i \in 0..j : i \in G
    <3>1. j \in Nat
      OBVIOUS
    <3> HIDE DEF G
    <3> QED
      BY <2>7, <2>8, <3>1, Upward
  <2>10. j \in 0..j /\ j # 0
    BY <1>3
  <2> QED
    BY <2>1, <2>9, <2>10
<1> QED
  BY <1>2, <1>3

\* The first elements flattened: nothing, and one more element each time.
LEMMA Flattened ==
    ASSUME NEW S, NEW s \in Seq(Seq(S))
    PROVE  /\ FlattenSeq(SubSeq(s, 1, 0)) = <<>>
           /\ \A j \in 0..Len(s) : FlattenSeq(SubSeq(s, 1, j)) \in Seq(S)
           /\ \A j \in 1..Len(s) :
                FlattenSeq(SubSeq(s, 1, j))
                  = FlattenSeq(SubSeq(s, 1, j - 1)) \o s[j]
           /\ FlattenSeq(SubSeq(s, 1, Len(s))) = FlattenSeq(s)
<1>1. PICK F : Sums(F, s, S, Len(s))
  BY SumsExist
<1>2. \A j \in 0..Len(s) : FlattenSeq(SubSeq(s, 1, j)) = F[j]
  BY <1>1, SumsFlatten
<1>3. SubSeq(s, 1, Len(s)) = s
  BY SubSeqFull
<1>4. 0 \in 0..Len(s) /\ \A j \in 1..Len(s) : j \in 0..Len(s) /\ j - 1 \in 0..Len(s)
  OBVIOUS
<1> QED
  BY <1>1, <1>2, <1>3, <1>4, Zenon DEF Sums

-----------------------------------------------------------------------------
(***************************************************************************)
(* Parts of sequences                                                      *)
(***************************************************************************)

\* The two parts of a sequence, by their places.
LEMMA TwoParts ==
    ASSUME NEW S, NEW p \in Seq(S), NEW w \in Seq(S)
    PROVE  /\ p \o w \in Seq(S) /\ Len(p \o w) = Len(p) + Len(w)
           /\ \A i \in 1..Len(p) : (p \o w)[i] = p[i]
           /\ \A i \in 1..Len(w) : (p \o w)[Len(p) + i] = w[i]
<1>1. Len(p) \in Nat /\ Len(w) \in Nat
  OBVIOUS
<1>2. ASSUME NEW i \in 1..Len(p)
      PROVE  i \in 1..(Len(p) + Len(w)) /\ i <= Len(p)
  BY <1>1
<1>3. ASSUME NEW i \in 1..Len(w)
      PROVE  /\ Len(p) + i \in 1..(Len(p) + Len(w)) /\ ~(Len(p) + i <= Len(p))
             /\ (Len(p) + i) - Len(p) = i
  BY <1>1
<1>4. /\ p \o w \in Seq(S) /\ Len(p \o w) = Len(p) + Len(w)
      /\ \A i \in 1..(Len(p) + Len(w)) :
            (p \o w)[i] = IF i <= Len(p) THEN p[i] ELSE w[i - Len(p)]
  BY ConcatProperties
<1> QED
  BY <1>2, <1>3, <1>4, Zenon

Regrouped(p, e, z) == (p \o e) \o z = p \o (e \o z)

LEMMA Regroup ==
    \A p, e, z \in Seq(Token) : (p \o e) \o z = p \o (e \o z)
BY ConcatAssociative

LEMMA RegroupAny ==
    \A p, e, z \in Seq(Token) : Regrouped(p, e, z)
BY Regroup, Zenon DEF Regrouped

\* Where the second of three parts begins, and what the first is.
LEMMA ThreeParts ==
    ASSUME NEW S, NEW p \in Seq(S), NEW e \in Seq(S), NEW z \in Seq(S)
    PROVE  /\ p \o (e \o z) \in Seq(S)
           /\ Len(p \o (e \o z)) = Len(p) + Len(e) + Len(z)
           /\ \A i \in 1..Len(e) : (p \o (e \o z))[Len(p) + i] = e[i]
           /\ SubSeq(p \o (e \o z), 1, Len(p)) = p
<1> DEFINE w == e \o z
<1>1. /\ w \in Seq(S) /\ Len(w) = Len(e) + Len(z)
      /\ \A i \in 1..Len(e) : w[i] = e[i]
  BY ConcatProperties
<1> HIDE DEF w
<1>2. /\ p \o w \in Seq(S) /\ Len(p \o w) = Len(p) + Len(w)
      /\ \A i \in 1..Len(p) : (p \o w)[i] = p[i]
      /\ \A i \in 1..Len(w) : (p \o w)[Len(p) + i] = w[i]
  <2>1. w \in Seq(S)
    BY <1>1
  <2> QED
    BY <2>1, TwoParts
<1>3. Len(p) \in Nat /\ Len(e) \in Nat /\ Len(z) \in Nat
  OBVIOUS
<1>4. SubSeq(p \o w, 1, Len(p)) = p
  BY <1>2, <1>3
<1>5. Len(p \o w) = Len(p) + Len(e) + Len(z)
  BY <1>1, <1>2, <1>3
<1>6. \A i \in 1..Len(e) : (p \o w)[Len(p) + i] = e[i]
  BY <1>1, <1>2, <1>3
<1> QED
  BY <1>2, <1>4, <1>5, <1>6 DEF w

\* What lies between two places of a sequence.
LEMMA Between ==
    ASSUME NEW S, NEW s \in Seq(S), NEW m \in Nat, NEW n \in m..Len(s)
    PROVE  /\ SubSeq(s, m + 1, n) \in Seq(S)
           /\ Len(SubSeq(s, m + 1, n)) = n - m
           /\ \A i \in 1..(n - m) : SubSeq(s, m + 1, n)[i] = s[m + i]
<1>1. \A i \in (m + 1)..n : s[i] \in S
  BY ElementOfSeq
<1> QED
  BY <1>1, SubSeqProperties

\* The places from m to k and from k to n are those from m to n.
LEMMA Joined ==
    ASSUME NEW S, NEW s \in Seq(S), NEW m \in Nat, NEW k \in m..Len(s),
           NEW n \in k..Len(s)
    PROVE  SubSeq(s, m + 1, k) \o SubSeq(s, k + 1, n) = SubSeq(s, m + 1, n)
<1>1. m + 1 \in 1..(Len(s) + 1) /\ k \in ((m + 1) - 1)..Len(s)
  OBVIOUS
<1> QED
  BY <1>1, ConcatAdjacentSubSeq

-----------------------------------------------------------------------------
(***************************************************************************)
(* What a peer sends, place by place                                       *)
(***************************************************************************)

\* The first j chunks of r, as they are sent and as they are meant.
Enc(r, j) == EncodedAll(SubSeq(r.chunks, 1, j))
Dat(r, j) == FlattenSeq(SubSeq(r.chunks, 1, j))

\* What is sent after the head.
Stream(r) == Content(r) \o r.more

LEMMA RequestFacts ==
    ASSUME NEW r \in Requests
    PROVE  /\ r.kind \in {"plain", "bare", "length", "chunked", "broken", "garbled"}
           /\ r.head \in Nat
           /\ r.chunks \in Seq(Seq(Token)) /\ r.more \in Seq(Token)
           /\ \A i \in 1..Len(r.chunks) :
                /\ r.chunks[i] \in Seq(Token)
                /\ Len(r.chunks[i]) \in DOMAIN Sizes
                /\ Len(r.chunks[i]) \in Nat \ {0}
           /\ r.kind \in {"plain", "bare"} => r.chunks = <<>>
<1>1. Data \subseteq Token
  BY DEF Token
<1> HIDE DEF Token
<1>2. Seq(Data) \subseteq Seq(Token)
  BY <1>1, SeqMonotonic
<1>3. r.chunks \in Seq(Seq(Token))
  BY <1>2, FramingAssumption, SeqMonotonic
<1>4. DOMAIN r.chunks = 1..Len(r.chunks)
  BY <1>3, LenProperties
<1>5. \A i \in 1..Len(r.chunks) : r.chunks[i] \in Seq(Token)
  BY <1>3, ElementOfSeq
<1> QED
  BY <1>2, <1>3, <1>4, <1>5, FramingAssumption, Zenon

LEMMA TokenFacts ==
    /\ CrLf \in Seq(Token) /\ Len(CrLf) = 2 /\ CrLf[1] = "CR" /\ CrLf[2] = "LF"
    /\ \A n \in DOMAIN Sizes :
         /\ n \in Nat \ {0} /\ Sizes[n] \in Token
         /\ Sizes[n] # "CR" /\ Value(Sizes[n]) = n
    /\ "0" \in Token /\ Value("0") = 0 /\ Value("x") = 0
    /\ "x" \in Token /\ "h" \in Token /\ "blank" \in Token
<1>1. /\ "CR" \in Token /\ "LF" \in Token /\ "0" \in Token
      /\ "x" \in Token /\ "h" \in Token /\ "blank" \in Token
  BY DEF Token
<1>2. \A n \in DOMAIN Sizes :
         /\ n \in Nat \ {0} /\ Sizes[n] \in Token
         /\ Sizes[n] # "CR" /\ Sizes[n] # "0" /\ Sizes[n] # "x"
  BY FramingAssumption DEF Token
<1>3. \A n \in DOMAIN Sizes : Value(Sizes[n]) = n
  BY FramingAssumption, Zenon DEF Value
<1>4. Value("0") = 0 /\ Value("x") = 0
  BY <1>2, Zenon DEF Value
<1>5. CrLf \in Seq(Token) /\ Len(CrLf) = 2 /\ CrLf[1] = "CR" /\ CrLf[2] = "LF"
  <2> HIDE DEF Token
  <2> QED
    BY <1>1 DEF CrLf
<1> QED
  BY <1>1, <1>2, <1>3, <1>4, <1>5, Zenon

\* One chunk: its size, a line end, its data, a line end.
LEMMA EncodedFacts ==
    ASSUME NEW c \in Seq(Token), Len(c) \in DOMAIN Sizes
    PROVE  /\ Encoded(c) \in Seq(Token) /\ Len(Encoded(c)) = Len(c) + 5
           /\ Encoded(c)[1] = Sizes[Len(c)]
           /\ Encoded(c)[2] = "CR" /\ Encoded(c)[3] = "LF"
           /\ \A i \in 1..Len(c) : Encoded(c)[3 + i] = c[i]
<1> DEFINE d == <<Sizes[Len(c)]>>
<1>1. d \in Seq(Token) /\ Len(d) = 1 /\ d[1] = Sizes[Len(c)]
  <2>1. Sizes[Len(c)] \in Token
    BY TokenFacts
  <2> HIDE DEF Token
  <2> QED
    BY <2>1
<1> HIDE DEF d
<1>2. /\ d \o CrLf \in Seq(Token) /\ Len(d \o CrLf) = 3
      /\ (d \o CrLf)[1] = Sizes[Len(c)]
      /\ (d \o CrLf)[2] = "CR" /\ (d \o CrLf)[3] = "LF"
  <2>1. CrLf \in Seq(Token)
    BY TokenFacts
  <2>2. /\ d \o CrLf \in Seq(Token) /\ Len(d \o CrLf) = Len(d) + Len(CrLf)
        /\ \A i \in 1..Len(d) : (d \o CrLf)[i] = d[i]
        /\ \A i \in 1..Len(CrLf) : (d \o CrLf)[Len(d) + i] = CrLf[i]
    <3>1. d \in Seq(Token)
      BY <1>1
    <3> QED
      BY <2>1, <3>1, TwoParts
  <2> QED
    BY <1>1, <2>2, TokenFacts
<1> DEFINE h == d \o CrLf
<1> HIDE DEF h
<1>3. /\ h \in Seq(Token) /\ Len(h) = 3
      /\ h[1] = Sizes[Len(c)] /\ h[2] = "CR" /\ h[3] = "LF"
  BY <1>2 DEF h
<1>4. Encoded(c) = (h \o c) \o CrLf
  BY DEF Encoded, d, h
<1>5. /\ h \o c \in Seq(Token) /\ Len(h \o c) = Len(c) + 3
      /\ \A i \in 1..3 : (h \o c)[i] = h[i]
      /\ \A i \in 1..Len(c) : (h \o c)[3 + i] = c[i]
  <2>1. /\ h \o c \in Seq(Token) /\ Len(h \o c) = Len(h) + Len(c)
        /\ \A i \in 1..Len(h) : (h \o c)[i] = h[i]
        /\ \A i \in 1..Len(c) : (h \o c)[Len(h) + i] = c[i]
    <3>1. h \in Seq(Token)
      BY <1>3
    <3> QED
      BY <3>1, TwoParts
  <2> QED
    BY <1>3, <2>1
<1>6. /\ Encoded(c) \in Seq(Token) /\ Len(Encoded(c)) = Len(c) + 5
      /\ \A i \in 1..(Len(c) + 3) : Encoded(c)[i] = (h \o c)[i]
  <2> DEFINE g == h \o c
  <2>1. CrLf \in Seq(Token) /\ Len(CrLf) = 2 /\ g \in Seq(Token)
    BY <1>5, TokenFacts
  <2> HIDE DEF g
  <2>2. /\ g \o CrLf \in Seq(Token) /\ Len(g \o CrLf) = Len(g) + Len(CrLf)
        /\ \A i \in 1..Len(g) : (g \o CrLf)[i] = g[i]
    <3>1. g \in Seq(Token)
      BY <2>1
    <3>2. CrLf \in Seq(Token)
      BY <2>1
    <3> QED
      BY <3>1, <3>2, TwoParts
  <2>3. Len(g) = Len(c) + 3
    BY <1>5 DEF g
  <2>4. Len(c) \in Nat
    OBVIOUS
  <2>5. Len(g \o CrLf) = Len(c) + 5
    BY <2>1, <2>2, <2>3, <2>4
  <2> QED
    BY <1>4, <2>2, <2>3, <2>5, Zenon DEF g
<1>7. /\ Encoded(c)[1] = Sizes[Len(c)]
      /\ Encoded(c)[2] = "CR" /\ Encoded(c)[3] = "LF"
  <2>1. /\ 1 \in 1..3 /\ 1 \in 1..(Len(c) + 3)
        /\ 2 \in 1..3 /\ 2 \in 1..(Len(c) + 3)
        /\ 3 \in 1..3 /\ 3 \in 1..(Len(c) + 3)
    OBVIOUS
  <2> QED
    BY <1>3, <1>5, <1>6, <2>1, Zenon
<1>8. ASSUME NEW i \in 1..Len(c)
      PROVE  Encoded(c)[3 + i] = c[i]
  <2>1. 3 + i \in 1..(Len(c) + 3)
    OBVIOUS
  <2> QED
    BY <1>5, <1>6, <2>1, Zenon
<1> QED
  BY <1>6, <1>7, <1>8, Zenon

\* One chunk more each time, as they are sent and as they are meant.
LEMMA Growth ==
    ASSUME NEW r \in Requests
    PROVE  /\ Enc(r, 0) = <<>> /\ Dat(r, 0) = <<>>
           /\ \A j \in 0..Len(r.chunks) :
                Enc(r, j) \in Seq(Token) /\ Dat(r, j) \in Seq(Token)
           /\ \A j \in 1..Len(r.chunks) :
                /\ Enc(r, j) = Enc(r, j - 1) \o Encoded(r.chunks[j])
                /\ Dat(r, j) = Dat(r, j - 1) \o r.chunks[j]
           /\ Enc(r, Len(r.chunks)) = EncodedAll(r.chunks)
           /\ Dat(r, Len(r.chunks)) = FlattenSeq(r.chunks)
<1> DEFINE K == Len(r.chunks)
           e == [i \in 1..K |-> Encoded(r.chunks[i])]
<1>1. r.chunks \in Seq(Seq(Token)) /\ K \in Nat /\ DOMAIN r.chunks = 1..K
  BY RequestFacts
<1>2. \A i \in 1..K : Encoded(r.chunks[i]) \in Seq(Token)
  BY RequestFacts, EncodedFacts
<1>3. e \in Seq(Seq(Token)) /\ Len(e) = K
  <2> DEFINE T == Seq(Token)
  <2>1. e \in [1..K -> T]
    BY <1>2
  <2>2. K \in Nat
    BY <1>1
  <2> HIDE DEF e, K, T
  <2>3. e \in Seq(T) /\ Len(e) = K
    BY <2>1, <2>2
  <2> QED
    BY <2>3 DEF T
<1>4. ASSUME NEW j \in 0..K
      PROVE  Enc(r, j) = FlattenSeq(SubSeq(e, 1, j))
  <2> DEFINE t == SubSeq(r.chunks, 1, j)
             u == [i \in DOMAIN t |-> Encoded(t[i])]
  <2>1. DOMAIN t = 1..j /\ \A i \in 1..j : t[i] = r.chunks[i]
    BY <1>1
  <2>2. u = [i \in 1..j |-> Encoded(r.chunks[i])]
    <3> HIDE DEF t
    <3> QED
      BY <2>1
  <2>3. SubSeq(e, 1, j) \in Seq(Seq(Token)) /\ Len(SubSeq(e, 1, j)) = j
        /\ \A i \in 1..j : SubSeq(e, 1, j)[i] = e[i]
    <3> HIDE DEF e
    <3> QED
      BY <1>1, <1>3
  <2>4. SubSeq(e, 1, j) = [i \in 1..j |-> Encoded(r.chunks[i])]
    <3> DEFINE v == SubSeq(e, 1, j)
    <3>1. \A i \in 1..j : v[i] = Encoded(r.chunks[i])
      BY <2>3
    <3>2. v \in [1..j -> Seq(Token)]
      <4> HIDE DEF v
      <4> QED
        BY <2>3, LenProperties DEF v
    <3> HIDE DEF v
    <3>3. v = [i \in 1..j |-> Encoded(r.chunks[i])]
      BY <3>1, <3>2
    <3> QED
      BY <3>3 DEF v
  <2> QED
    BY <2>2, <2>4, Zenon DEF Enc, EncodedAll
<1> HIDE DEF e
<1>5. \A j \in 1..K : j \in 0..K /\ j - 1 \in 0..K
  BY <1>1
<1>6. /\ Dat(r, 0) = <<>>
      /\ \A j \in 0..K : Dat(r, j) \in Seq(Token)
      /\ \A j \in 1..K : Dat(r, j) = Dat(r, j - 1) \o r.chunks[j]
      /\ Dat(r, K) = FlattenSeq(r.chunks)
  BY <1>1, Flattened DEF Dat
<1>7. /\ FlattenSeq(SubSeq(e, 1, 0)) = <<>>
      /\ \A j \in 0..K : FlattenSeq(SubSeq(e, 1, j)) \in Seq(Token)
      /\ \A j \in 1..K : FlattenSeq(SubSeq(e, 1, j))
                            = FlattenSeq(SubSeq(e, 1, j - 1)) \o e[j]
  BY <1>3, Flattened
<1>8. 0 \in 0..K /\ K \in 0..K
  BY <1>1
<1>9. SubSeq(r.chunks, 1, K) = r.chunks
  BY <1>1, SubSeqFull
<1>10. \A j \in 1..K : e[j] = Encoded(r.chunks[j])
  BY DEF e
<1>11. Enc(r, K) = EncodedAll(r.chunks)
  BY <1>9 DEF Enc
<1> HIDE DEF K
<1>12. \A j \in 0..K : Enc(r, j) \in Seq(Token)
  BY <1>4, <1>7
<1>13. \A j \in 1..K : Enc(r, j) = Enc(r, j - 1) \o Encoded(r.chunks[j])
  BY <1>4, <1>5, <1>7, <1>10
<1>14. Enc(r, 0) = <<>>
  BY <1>4, <1>7, <1>8
<1> QED
  BY <1>6, <1>11, <1>12, <1>13, <1>14 DEF K

\* A chunk is longer as it is sent.
LEMMA Longer ==
    ASSUME NEW r \in Requests
    PROVE  /\ \A j \in 0..Len(r.chunks) : Len(Dat(r, j)) <= Len(Enc(r, j))
           /\ \A j \in 1..Len(r.chunks) :
                Len(Enc(r, j)) = Len(Enc(r, j - 1)) + Len(r.chunks[j]) + 5
<1> DEFINE K == Len(r.chunks)
           G == {j \in 0..K : Len(Dat(r, j)) <= Len(Enc(r, j))}
<1>1. K \in Nat
  BY RequestFacts
<1>2. ASSUME NEW j \in 1..K
      PROVE  /\ Len(Enc(r, j)) = Len(Enc(r, j - 1)) + Len(r.chunks[j]) + 5
             /\ Len(Dat(r, j)) = Len(Dat(r, j - 1)) + Len(r.chunks[j])
             /\ Len(Dat(r, j - 1)) \in Nat /\ Len(Enc(r, j - 1)) \in Nat
             /\ Len(r.chunks[j]) \in Nat
  <2> DEFINE c == r.chunks[j]
             p == Enc(r, j - 1)
             q == Dat(r, j - 1)
  <2>1. j - 1 \in 0..K
    BY <1>1
  <2>2. p \in Seq(Token) /\ q \in Seq(Token) /\ c \in Seq(Token)
        /\ Len(c) \in DOMAIN Sizes /\ Len(c) \in Nat \ {0}
    BY <2>1, Growth, RequestFacts
  <2>3. Enc(r, j) = p \o Encoded(c) /\ Dat(r, j) = q \o c
    BY Growth
  <2> HIDE DEF c, p, q
  <2>4. Len(Dat(r, j)) = Len(q) + Len(c)
    BY <2>2, <2>3, TwoParts
  <2>5. Encoded(c) \in Seq(Token) /\ Len(Encoded(c)) = Len(c) + 5
    BY <2>2, EncodedFacts
  <2>6. Len(Enc(r, j)) = Len(p) + Len(Encoded(c))
    <3>1. p \in Seq(Token) /\ Encoded(c) \in Seq(Token)
      BY <2>2, <2>5
    <3>2. Len(p \o Encoded(c)) = Len(p) + Len(Encoded(c))
      BY <3>1, TwoParts
    <3> QED
      BY <2>3, <3>2
  <2>7. Len(p) \in Nat /\ Len(q) \in Nat /\ Len(c) \in Nat
    BY <2>2
  <2>8. Len(Enc(r, j)) = Len(p) + Len(c) + 5
    BY <2>5, <2>6, <2>7
  <2> QED
    BY <2>4, <2>7, <2>8, Zenon DEF c, p, q
<1>3. 0 \in G
  <2>1. 0 \in 0..K /\ Len(Dat(r, 0)) = 0 /\ Len(Enc(r, 0)) = 0
    <3>1. Dat(r, 0) = <<>> /\ Enc(r, 0) = <<>>
      BY Growth
    <3> QED
      BY <1>1, <3>1
  <2> QED
    BY <2>1
<1>4. ASSUME NEW j \in 1..K, j - 1 \in G
      PROVE  j \in G
  <2>1. j \in 0..K /\ Len(Dat(r, j - 1)) <= Len(Enc(r, j - 1))
    BY <1>1, <1>4
  <2>2. Len(Dat(r, j)) <= Len(Enc(r, j))
    <3>1. \A a, b, c \in Nat : a <= b => a + c <= b + c + 5
      OBVIOUS
    <3> HIDE DEF K, G
    <3> QED
      BY <1>2, <2>1, <3>1, Zenon
  <2> QED
    BY <2>1, <2>2
<1>5. \A j \in 0..K : j \in G
  <2> HIDE DEF G, K
  <2> QED
    BY <1>1, <1>3, <1>4, Upward
<1> QED
  BY <1>2, <1>5

LEMMA EndingFacts ==
    ASSUME NEW r
    PROVE  /\ Ending(r) \in Seq(Token) /\ Len(Ending(r)) >= 3
           /\ r.kind # "broken" =>
                 /\ Len(Ending(r)) = 5
                 /\ Value(Ending(r)[1]) = 0 /\ Ending(r)[1] # "CR"
                 /\ Ending(r)[2] = "CR" /\ Ending(r)[3] = "LF"
           /\ r.kind = "broken" =>
                 /\ Len(Ending(r)) = 3
                 /\ Ending(r)[1] = "CR" /\ Ending(r)[2] = "LF"
<1>1. "CR" \in Token /\ "LF" \in Token /\ "0" \in Token /\ "x" \in Token
  BY DEF Token
<1>2. /\ Value("0") = 0 /\ Value("x") = 0
  BY TokenFacts
<1> HIDE DEF Token, Value
<1>3. CASE r.kind = "broken"
  BY <1>1, <1>3 DEF Ending
<1>4. CASE r.kind = "garbled"
  BY <1>1, <1>2, <1>4 DEF Ending
<1>5. CASE r.kind # "broken" /\ r.kind # "garbled"
  BY <1>1, <1>2, <1>5 DEF Ending
<1> QED
  BY <1>3, <1>4, <1>5

\* After the first j chunks come the rest and the end.
LEMMA Ahead ==
    ASSUME NEW r \in Requests, r.kind \in InChunks
    PROVE  \A j \in 0..Len(r.chunks) :
             \E z \in Seq(Token) : /\ Content(r) = Enc(r, j) \o z
                                   /\ Len(z) >= Len(Ending(r))
<1> DEFINE K == Len(r.chunks)
           E == Ending(r)
           C == Content(r)
           P(j) == Enc(r, j)
           Rest(z, j) == z \in Seq(Token) /\ C = P(j) \o z /\ Len(z) >= Len(E)
           G == {j \in 0..K : \E z : Rest(z, j)}
<1>1. K \in Nat /\ E \in Seq(Token) /\ Len(E) \in Nat
  BY RequestFacts, EndingFacts
<1>2. K \in G
  <2>1. C = P(K) \o E
    BY Growth DEF Content
  <2>2. Rest(E, K)
    BY <1>1, <2>1
  <2>3. K \in 0..K
    BY <1>1
  <2> HIDE DEF Rest, K
  <2> QED
    BY <2>2, <2>3
<1>3. ASSUME NEW j \in 0..(K - 1), j + 1 \in G
      PROVE  j \in G
  <2> DEFINE e == Encoded(r.chunks[j + 1])
  <2>1. j \in 0..K /\ j + 1 \in 1..K /\ (j + 1) - 1 = j
    BY <1>1
  <2>2. PICK z : Rest(z, j + 1)
    BY <1>3
  <2>3. P(j) \in Seq(Token)
    BY <2>1, Growth
  <2>4. e \in Seq(Token)
    BY <2>1, RequestFacts, EncodedFacts
  <2>5. P(j + 1) = P(j) \o e
    BY <2>1, Growth
  <2> HIDE DEF e, P, C, E
  <2>6. C = P(j) \o (e \o z)
    <3>1. z \in Seq(Token) /\ C = P(j + 1) \o z
      BY <2>2
    <3>2. (P(j) \o e) \o z = P(j) \o (e \o z)
      BY <2>3, <2>4, <3>1, Regroup, Zenon
    <3> QED
      BY <2>5, <3>1, <3>2
  <2>7. e \o z \in Seq(Token) /\ Len(e \o z) = Len(e) + Len(z)
    BY <2>2, <2>4, TwoParts
  <2>8. Len(e \o z) >= Len(E)
    BY <1>1, <2>2, <2>4, <2>7
  <2>9. Rest(e \o z, j)
    BY <2>6, <2>7, <2>8
  <2> QED
    BY <2>1, <2>9
<1>4. \A j \in 0..K : j \in G
  <2> HIDE DEF G, K
  <2> QED
    BY <1>1, <1>2, <1>3, Downward
<1> QED
  BY <1>4

LEMMA StreamFacts ==
    ASSUME NEW r \in Requests
    PROVE  /\ Content(r) \in Seq(Token) /\ Stream(r) \in Seq(Token)
           /\ Len(Stream(r)) = Len(Content(r)) + Len(r.more)
<1>1. Content(r) \in Seq(Token)
  <2>1. EncodedAll(r.chunks) \in Seq(Token) /\ FlattenSeq(r.chunks) \in Seq(Token)
    <3>1. Len(r.chunks) \in 0..Len(r.chunks)
      BY RequestFacts
    <3> QED
      BY <3>1, Growth
  <2>2. EncodedAll(r.chunks) \o Ending(r) \in Seq(Token)
    BY <2>1, EndingFacts, TwoParts
  <2> QED
    BY <2>1, <2>2 DEF Content
<1> QED
  BY <1>1, RequestFacts, TwoParts DEF Stream

\* The first j chunks are the beginning of the stream, and the end follows.
LEMMA Beginning ==
    ASSUME NEW r \in Requests, r.kind \in InChunks,
           NEW j \in 0..Len(r.chunks)
    PROVE  /\ Enc(r, j) \in Seq(Token)
           /\ SubSeq(Stream(r), 1, Len(Enc(r, j))) = Enc(r, j)
           /\ Len(Enc(r, j)) + Len(Ending(r)) <= Len(Content(r))
<1> DEFINE p == Enc(r, j)
           m == r.more
<1>1. p \in Seq(Token) /\ m \in Seq(Token)
  BY Growth, RequestFacts
<1>2. PICK z \in Seq(Token) : Content(r) = p \o z /\ Len(z) >= Len(Ending(r))
  BY Ahead
<1> HIDE DEF p, m
<1>3. Len(Content(r)) = Len(p) + Len(z)
  BY <1>1, <1>2, TwoParts
<1>4. Stream(r) = p \o (z \o m)
  <2>1. (p \o z) \o m = p \o (z \o m)
    BY <1>1, <1>2, Regroup, Zenon
  <2> QED
    BY <1>2, <2>1 DEF Stream, m
<1>5. SubSeq(p \o (z \o m), 1, Len(p)) = p
  BY <1>1, ThreeParts
<1>6. Len(p) + Len(Ending(r)) <= Len(Content(r))
  BY <1>1, <1>2, <1>3, EndingFacts
<1> QED
  BY <1>1, <1>4, <1>5, <1>6 DEF p

\* What stands where the next chunk begins.
LEMMA AtChunk ==
    ASSUME NEW r \in Requests, r.kind \in InChunks,
           NEW j \in 0..(Len(r.chunks) - 1)
    PROVE  LET o == Len(Enc(r, j))
               c == r.chunks[j + 1]
           IN  /\ o \in Nat /\ c \in Seq(Token)
               /\ Len(c) \in DOMAIN Sizes /\ Len(c) \in Nat \ {0}
               /\ Len(Enc(r, j + 1)) = o + Len(c) + 5
               /\ Stream(r)[o + 1] = Sizes[Len(c)]
               /\ Stream(r)[o + 2] = "CR" /\ Stream(r)[o + 3] = "LF"
               /\ \A i \in 1..Len(c) : Stream(r)[o + 3 + i] = c[i]
               /\ Dat(r, j + 1) = Dat(r, j) \o c
<1> DEFINE o == Len(Enc(r, j))
           c == r.chunks[j + 1]
           p == Enc(r, j)
           e == Encoded(c)
           m == r.more
<1>1. j \in 0..Len(r.chunks) /\ j + 1 \in 1..Len(r.chunks)
      /\ j + 1 \in 0..Len(r.chunks) /\ (j + 1) - 1 = j
  BY RequestFacts
<1>2. c \in Seq(Token) /\ Len(c) \in DOMAIN Sizes /\ Len(c) \in Nat \ {0}
  BY <1>1, RequestFacts
<1>3. p \in Seq(Token) /\ m \in Seq(Token)
  BY <1>1, Growth, RequestFacts
<1>4. /\ e \in Seq(Token) /\ Len(e) = Len(c) + 5
      /\ e[1] = Sizes[Len(c)] /\ e[2] = "CR" /\ e[3] = "LF"
      /\ \A i \in 1..Len(c) : e[3 + i] = c[i]
  BY <1>2, EncodedFacts
<1>5. Enc(r, j + 1) = p \o e /\ Dat(r, j + 1) = Dat(r, j) \o c
  BY <1>1, Growth
<1>6. PICK z \in Seq(Token) : Content(r) = (p \o e) \o z
  BY <1>1, <1>5, Ahead
<1>7. e \in Seq(Token)
  BY <1>4
<1> HIDE DEF p, e, m, c, o
<1>8. Stream(r) = p \o (e \o (z \o m))
  <2> DEFINE y == z \o m
             x == p \o e
  <2>1. /\ p \in Seq(Token) /\ e \in Seq(Token)
        /\ z \in Seq(Token) /\ m \in Seq(Token)
    BY <1>3, <1>7
  <2>2. x \in Seq(Token) /\ y \in Seq(Token)
    BY <2>1, TwoParts
  <2> HIDE DEF x, y
  <2>3. (x \o z) \o m = x \o (z \o m)
    <3>1. x \in Seq(Token)
      BY <2>2
    <3>2. z \in Seq(Token)
      OBVIOUS
    <3>3. m \in Seq(Token)
      BY <2>1
    <3> QED
      BY <3>1, <3>2, <3>3, Regroup, Zenon
  <2>4. (p \o e) \o y = p \o (e \o y)
    <3>1. p \in Seq(Token)
      BY <2>1
    <3>2. e \in Seq(Token)
      BY <2>1
    <3>3. y \in Seq(Token)
      BY <2>2
    <3>4. Regrouped(p, e, y)
      BY <3>1, <3>2, <3>3, RegroupAny, Zenon
    <3> QED
      BY <3>4, Zenon DEF Regrouped
  <2> QED
    BY <1>6, <2>3, <2>4, Zenon DEF Stream, m, x, y
<1>9. \A i \in 1..Len(e) : Stream(r)[Len(p) + i] = e[i]
  <2>1. z \o m \in Seq(Token)
    BY <1>6, <1>3, TwoParts
  <2> QED
    BY <1>3, <1>7, <1>8, <2>1, ThreeParts
<1>10. Len(Enc(r, j + 1)) = o + Len(c) + 5
  BY <1>1, Longer DEF o, c
<1>11. o = Len(p) /\ o \in Nat
  BY <1>3 DEF p, o
<1>12. \A i \in 1..(Len(c) + 5) : Stream(r)[o + i] = e[i]
  BY <1>4, <1>9, <1>11
<1>13. /\ Stream(r)[o + 1] = e[1]
       /\ Stream(r)[o + 2] = e[2] /\ Stream(r)[o + 3] = e[3]
  BY <1>2, <1>12
<1>14. ASSUME NEW i \in 1..Len(c)
       PROVE  Stream(r)[o + 3 + i] = c[i]
  <2>1. 3 + i \in 1..(Len(c) + 5) /\ o + (3 + i) = o + 3 + i
    BY <1>2, <1>11
  <2>2. Stream(r)[o + (3 + i)] = e[3 + i]
    BY <1>12, <2>1
  <2> QED
    BY <1>4, <2>1, <2>2
<1> QED
  BY <1>2, <1>4, <1>5, <1>10, <1>11, <1>13, <1>14, Zenon DEF o, c

\* What stands after the last chunk.
LEMMA AtEnd ==
    ASSUME NEW r \in Requests, r.kind \in InChunks,
           NEW o, o = Len(Enc(r, Len(r.chunks)))
    PROVE  /\ o \in Nat /\ Len(Content(r)) = o + Len(Ending(r))
           /\ Stream(r)[o + 1] = Ending(r)[1]
           /\ Stream(r)[o + 2] = Ending(r)[2]
           /\ Stream(r)[o + 3] = Ending(r)[3]
<1> DEFINE p == Enc(r, Len(r.chunks))
           e == Ending(r)
           m == r.more
<1>1. Len(r.chunks) \in 0..Len(r.chunks)
  BY RequestFacts
<1>2. p \in Seq(Token) /\ e \in Seq(Token) /\ m \in Seq(Token)
  <2>1. p \in Seq(Token)
    BY <1>1, Growth
  <2>2. e \in Seq(Token)
    BY EndingFacts
  <2> QED
    BY <2>1, <2>2, RequestFacts
<1>3. Len(e) >= 3
  BY EndingFacts
<1>4. Content(r) = p \o e
  BY Growth DEF Content
<1> HIDE DEF p, e, m
<1>5. Stream(r) = p \o (e \o m)
  <2>1. (p \o e) \o m = p \o (e \o m)
    BY <1>2, Regroup, Zenon
  <2> QED
    BY <1>4, <2>1 DEF Stream, m
<1>6. \A i \in 1..Len(e) : Stream(r)[Len(p) + i] = e[i]
  BY <1>2, <1>5, ThreeParts
<1>7. Len(Content(r)) = Len(p) + Len(e)
  BY <1>2, <1>4, TwoParts
<1>8. Len(p) \in Nat /\ Len(e) \in Nat
  BY <1>2
<1>9. /\ Stream(r)[Len(p) + 1] = e[1]
      /\ Stream(r)[Len(p) + 2] = e[2] /\ Stream(r)[Len(p) + 3] = e[3]
  BY <1>6, <1>8, <1>3
<1> QED
  BY <1>7, <1>8, <1>9 DEF p, e

-----------------------------------------------------------------------------
(***************************************************************************)
(* The loop over chunks                                                    *)
(***************************************************************************)

LEMMA MinFacts ==
    ASSUME NEW T, T \subseteq Nat, NEW x \in T, \A y \in T : x <= y
    PROVE  Min(T) = x
<1>1. Min(T) \in T /\ \A y \in T : Min(T) <= y
  BY Zenon DEF Min
<1> DEFINE m == Min(T)
<1> HIDE DEF m
<1>2. m \in Nat /\ x \in Nat /\ m <= x /\ x <= m
  BY <1>1 DEF m
<1> QED
  BY <1>2 DEF m

LEMMA ValueFacts == \A t : Value(t) \in Nat
<1>1. DOMAIN Sizes \subseteq Nat
  BY FramingAssumption
<1> QED
  BY <1>1 DEF Value

\* A turn that takes a chunk goes on behind it, within b.
LEMMA Forward ==
    ASSUME NEW b \in Seq(Token), NEW c \in 0..Len(b), LineEnds(b, c) # {},
           Complete(b, Min(LineEnds(b, c)), Value(b[c + 1]))
    PROVE  Min(LineEnds(b, c)) + 2 + Value(b[c + 1]) + 2 \in (c + 1)..Len(b)
<1> DEFINE T == LineEnds(b, c)
           rn == Min(T)
           v == Value(b[c + 1])
<1>1. Len(b) \in Nat /\ v \in Nat
  BY ValueFacts
<1>2. T \subseteq Nat /\ \A p \in T : c <= p
  BY <1>1 DEF LineEnds
<1>3. rn \in T
  <2> HIDE DEF T
  <2>1. PICK x \in T : \A y \in T : x <= y
    BY <1>2, LeastElement DEF T
  <2> QED
    BY <1>2, <2>1, MinFacts
<1>4. rn \in Nat /\ c <= rn
  BY <1>2, <1>3
<1>5. Len(b) - (rn + 2) >= v + 2
  BY DEF Complete
<1> HIDE DEF v, rn
<1>6. rn + 2 + v + 2 \in (c + 1)..Len(b)
  BY <1>1, <1>4, <1>5
<1> QED
  BY <1>6 DEF v, rn

\* What a turn makes of the turns after it depends on those behind it only.
LEMMA TurnAgrees ==
    ASSUME NEW b \in Seq(Token), NEW c \in 0..Len(b), NEW v, NEW w,
           \A d \in (c + 1)..Len(b) : v[d] = w[d]
    PROVE  Turn(b, c, v) = Turn(b, c, w)
<1> DEFINE d == Min(LineEnds(b, c)) + 2 + Value(b[c + 1]) + 2
<1>1. CASE LineEnds(b, c) = {} \/ ~Complete(b, Min(LineEnds(b, c)), Value(b[c + 1]))
  BY <1>1, Zenon DEF Turn
<1>2. CASE LineEnds(b, c) # {} /\ Complete(b, Min(LineEnds(b, c)), Value(b[c + 1]))
  <2>1. d \in (c + 1)..Len(b)
    BY <1>2, Forward
  <2>2. v[d] = w[d]
    BY <2>1
  <2> QED
    BY <2>2, Zenon DEF Turn
<1> QED
  BY <1>1, <1>2

\* There is a walk, so Chunks is the one it starts with.
IsWalk(b, w) == w = [c \in 0..Len(b) |-> Turn(b, c, w)]

LEMMA WalkExists ==
    ASSUME NEW b \in Seq(Token)
    PROVE  \E w : IsWalk(b, w)
<1> DEFINE n == Len(b)
           From(w, m) == /\ DOMAIN w = 0..n /\ w = [c \in DOMAIN w |-> w[c]]
                         /\ \A c \in m..n : w[c] = Turn(b, c, w)
           G == {m \in 0..(n + 1) : \E w : From(w, m)}
<1>1. n \in Nat
  OBVIOUS
<1>2. n + 1 \in G
  <2> DEFINE w == [c \in 0..n |-> 0]
  <2>1. \A c \in (n + 1)..n : w[c] = Turn(b, c, w)
    <3>1. (n + 1)..n = {}
      BY <1>1
    <3> QED
      BY <3>1
  <2>2. DOMAIN w = 0..n /\ w = [c \in DOMAIN w |-> w[c]]
    OBVIOUS
  <2>3. From(w, n + 1)
    BY <2>1, <2>2
  <2> HIDE DEF From, w
  <2> QED
    BY <1>1, <2>3
<1>3. ASSUME NEW m \in 0..((n + 1) - 1), m + 1 \in G
      PROVE  m \in G
  <2>1. PICK w : From(w, m + 1)
    BY <1>3
  <2> DEFINE t == Turn(b, m, w)
             v == [w EXCEPT ![m] = t]
  <2>2. m \in 0..n
    BY <1>1
  <2> HIDE DEF n, t
  <2>3. /\ DOMAIN v = 0..n /\ v = [c \in DOMAIN v |-> v[c]]
        /\ v[m] = t /\ \A c \in 0..n : c # m => v[c] = w[c]
    BY <2>1, <2>2
  <2> HIDE DEF v
  <2>4. ASSUME NEW c \in m..n
        PROVE  Turn(b, c, v) = Turn(b, c, w)
    <3>1. c \in 0..n /\ \A d \in (c + 1)..n : d \in 0..n /\ d # m
      BY <1>1, <2>2
    <3>2. \A d \in (c + 1)..n : v[d] = w[d]
      BY <2>3, <3>1
    <3> QED
      BY <3>1, <3>2, TurnAgrees DEF n
  <2>5. ASSUME NEW c \in m..n
        PROVE  v[c] = Turn(b, c, v)
    <3>1. CASE c = m
      BY <2>3, <2>4, <3>1 DEF t
    <3>2. CASE c # m
      <4>1. c \in 0..n /\ c \in (m + 1)..n
        BY <1>1, <2>2, <3>2
      <4>2. w[c] = Turn(b, c, w)
        BY <2>1, <4>1
      <4> QED
        BY <2>3, <2>4, <3>2, <4>1, <4>2
    <3> QED
      BY <3>1, <3>2
  <2>6. From(v, m)
    BY <2>3, <2>5
  <2>7. m \in 0..(n + 1)
    BY <1>1
  <2> HIDE DEF From
  <2> QED
    BY <2>6, <2>7
<1>4. 0 \in G
  <2>1. n + 1 \in Nat /\ 0 \in 0..(n + 1)
    BY <1>1
  <2> HIDE DEF n, G
  <2> QED
    BY <1>2, <1>3, <2>1, Downward
<1>5. PICK w : From(w, 0)
  BY <1>4
<1>6. w = [c \in 0..n |-> Turn(b, c, w)]
  BY <1>5
<1> QED
  BY <1>6 DEF IsWalk

LEMMA ChunksWalk ==
    ASSUME NEW b \in Seq(Token)
    PROVE  \E w : /\ \A c \in 0..Len(b) : w[c] = Turn(b, c, w)
                  /\ Chunks(b) = IF Len(b) > 2 THEN w[0]
                                 ELSE Decoded("more", <<>>, b)
<1> DEFINE u == CHOOSE w : IsWalk(b, w)
<1>1. IsWalk(b, u)
  BY WalkExists, Zenon
<1>2. Chunks(b) = IF Len(b) > 2 THEN u[0] ELSE Decoded("more", <<>>, b)
  BY Zenon DEF Chunks, IsWalk
<1> HIDE DEF u
<1>3. \A c \in 0..Len(b) : u[c] = Turn(b, c, u)
  <2>1. u = [c \in 0..Len(b) |-> Turn(b, c, u)]
    BY <1>1 DEF IsWalk
  <2> QED
    BY <2>1, Zenon
<1> QED
  BY <1>2, <1>3

\* What the loop may make of b, the bytes after the place o of the stream, when
\* it has taken the first j chunks.
Parsed(r, o, b, j, d) ==
    /\ d \in [verdict : {"more", "200", "400"}, data : Seq(Token),
              rest : Seq(Token)]
    /\ d.verdict = "more" =>
          /\ o + Len(b) < Len(Content(r))
          /\ \E i \in 0..Len(r.chunks) :
                /\ Dat(r, j) \o d.data = Dat(r, i)
                /\ Len(Enc(r, i)) \in o..(o + Len(b))
                /\ d.rest = SubSeq(b, Len(Enc(r, i)) - o + 1, Len(b))
    /\ d.verdict # "more" =>
          /\ d.verdict = IF r.kind = "broken" THEN "400" ELSE "200"
          /\ d.rest = <<>>
          /\ Dat(r, j) \o d.data = Dat(r, Len(r.chunks))
          /\ Len(Enc(r, Len(r.chunks))) <= o + Len(b)
          /\ r.kind # "broken" => Len(Content(r)) <= o + Len(b)

\* b is what stands after the place o of the stream.
After(r, o, b) ==
    /\ o \in Nat /\ b \in Seq(Token)
    /\ \A i \in 1..Len(b) : b[i] = Stream(r)[o + i]

\* It stops before a chunk, or the end, that is not complete.
LEMMA Stops ==
    ASSUME NEW r \in Requests, NEW o, NEW b, After(r, o, b),
           NEW j \in 0..Len(r.chunks), NEW c \in 0..Len(b),
           o + c = Len(Enc(r, j)), o + Len(b) < Len(Content(r))
    PROVE  Parsed(r, o, b, j, Decoded("more", <<>>, SubSeq(b, c + 1, Len(b))))
<1> DEFINE d == Decoded("more", <<>>, SubSeq(b, c + 1, Len(b)))
           q == Dat(r, j)
<1>1. b \in Seq(Token) /\ o \in Nat /\ Len(b) \in Nat
  BY DEF After
<1>2. SubSeq(b, c + 1, Len(b)) \in Seq(Token)
  <2>1. Len(b) \in c..Len(b)
    BY <1>1
  <2> QED
    BY <1>1, <2>1, Between
<1>3. d \in [verdict : {"more", "200", "400"}, data : Seq(Token),
              rest : Seq(Token)]
  BY <1>2 DEF Decoded
<1>4. /\ d.verdict = "more" /\ d.data = <<>>
      /\ d.rest = SubSeq(b, c + 1, Len(b))
  BY DEF Decoded
<1>5. q \o <<>> = q
  <2>1. q \in Seq(Token)
    BY Growth
  <2> HIDE DEF q
  <2> QED
    BY <2>1, ConcatEmptySeq
<1>6. Len(Enc(r, j)) \in o..(o + Len(b)) /\ Len(Enc(r, j)) - o = c
  <2> DEFINE n == Len(Enc(r, j))
  <2>1. o + c = n
    OBVIOUS
  <2> HIDE DEF n
  <2>2. n \in o..(o + Len(b)) /\ n - o = c
    BY <1>1, <2>1
  <2> QED
    BY <2>2 DEF n
<1>7. \E i \in 0..Len(r.chunks) :
         /\ Dat(r, j) \o d.data = Dat(r, i)
         /\ Len(Enc(r, i)) \in o..(o + Len(b))
         /\ d.rest = SubSeq(b, Len(Enc(r, i)) - o + 1, Len(b))
  BY <1>4, <1>5, <1>6, Zenon
<1> QED
  BY <1>3, <1>4, <1>7, Zenon DEF Parsed, d

\* A line end follows the size.
LEMMA SizeLine ==
    ASSUME NEW b \in Seq(Token), NEW c \in 0..Len(b),
           Len(b) >= c + 1 => b[c + 1] # "CR",
           Len(b) >= c + 3 => b[c + 2] = "CR" /\ b[c + 3] = "LF"
    PROVE  /\ Len(b) < c + 3 => LineEnds(b, c) = {}
           /\ Len(b) >= c + 3 =>
                LineEnds(b, c) # {} /\ Min(LineEnds(b, c)) = c + 1
<1>1. Len(b) \in Nat
  OBVIOUS
<1>2. ASSUME Len(b) < c + 3
      PROVE  LineEnds(b, c) = {}
  <2>1. \A p \in c..(Len(b) - 2) : p = c /\ Len(b) >= c + 1
    BY <1>1, <1>2
  <2> QED
    BY <2>1 DEF LineEnds
<1>3. ASSUME Len(b) >= c + 3
      PROVE  LineEnds(b, c) # {} /\ Min(LineEnds(b, c)) = c + 1
  <2> DEFINE T == LineEnds(b, c)
  <2>1. T \subseteq Nat /\ c \notin T /\ \A p \in T : c <= p
    BY <1>1, <1>3 DEF LineEnds
  <2>2. c + 1 \in T
    <3>1. c + 1 \in c..(Len(b) - 2) /\ (c + 1) + 1 = c + 2 /\ (c + 1) + 2 = c + 3
      BY <1>1, <1>3
    <3> QED
      BY <1>3, <3>1 DEF LineEnds
  <2> HIDE DEF T
  <2>3. \A p \in T : c + 1 <= p
    BY <1>1, <2>1
  <2>4. Min(T) = c + 1
    BY <2>1, <2>2, <2>3, MinFacts
  <2> QED
    BY <2>2, <2>4 DEF T
<1> QED
  BY <1>1, <1>2, <1>3

\* At a chunk.
LEMMA TakesChunk ==
    ASSUME NEW r \in Requests, r.kind \in InChunks,
           NEW o, NEW b, After(r, o, b), NEW w,
           NEW j \in 0..(Len(r.chunks) - 1), NEW c \in 0..Len(b),
           o + c = Len(Enc(r, j)),
           \A d \in 0..Len(b) :
              o + d = Len(Enc(r, j + 1)) => Parsed(r, o, b, j + 1, w[d])
    PROVE  Parsed(r, o, b, j, Turn(b, c, w))
<1> DEFINE k == r.chunks[j + 1]
           L == Len(k)
           X == Stream(r)
<1>1. b \in Seq(Token) /\ o \in Nat /\ Len(b) \in Nat /\ c \in Nat
  BY DEF After
<1>2. /\ k \in Seq(Token) /\ L \in DOMAIN Sizes /\ L \in Nat \ {0}
      /\ Len(Enc(r, j + 1)) = o + c + L + 5
      /\ X[o + c + 1] = Sizes[L]
      /\ X[o + c + 2] = "CR" /\ X[o + c + 3] = "LF"
      /\ \A i \in 1..L : X[o + c + 3 + i] = k[i]
      /\ Dat(r, j + 1) = Dat(r, j) \o k
  <2> DEFINE n == o + c
  <2>1. n = Len(Enc(r, j)) /\ k = r.chunks[j + 1]
    OBVIOUS
  <2>2. /\ n \in Nat /\ k \in Seq(Token)
        /\ Len(k) \in DOMAIN Sizes /\ Len(k) \in Nat \ {0}
        /\ Len(Enc(r, j + 1)) = n + Len(k) + 5
        /\ Stream(r)[n + 1] = Sizes[Len(k)]
        /\ Stream(r)[n + 2] = "CR" /\ Stream(r)[n + 3] = "LF"
        /\ \A i \in 1..Len(k) : Stream(r)[n + 3 + i] = k[i]
        /\ Dat(r, j + 1) = Dat(r, j) \o k
    <3> DEFINE m == Len(Enc(r, j))
               h == r.chunks[j + 1]
    <3>1. /\ m \in Nat /\ h \in Seq(Token)
          /\ Len(h) \in DOMAIN Sizes /\ Len(h) \in Nat \ {0}
          /\ Len(Enc(r, j + 1)) = m + Len(h) + 5
          /\ Stream(r)[m + 1] = Sizes[Len(h)]
          /\ Stream(r)[m + 2] = "CR" /\ Stream(r)[m + 3] = "LF"
          /\ \A i \in 1..Len(h) : Stream(r)[m + 3 + i] = h[i]
          /\ Dat(r, j + 1) = Dat(r, j) \o h
      BY AtChunk, Zenon
    <3>2. n = m /\ k = h
      BY <2>1
    <3> HIDE DEF n, k, m, h
    <3> QED
      BY <3>1, <3>2, Zenon
  <2> HIDE DEF n, k
  <2> QED
    BY <2>2, Zenon DEF n, X, L
<1>a. L \in Nat /\ L > 0
  <2>1. L \in Nat \ {0}
    BY <1>2
  <2> HIDE DEF L
  <2> QED
    BY <2>1
<1>3. j \in 0..Len(r.chunks) /\ j + 1 \in 0..Len(r.chunks)
  BY RequestFacts
<1>4. o + c + L + 5 < Len(Content(r))
  <2>1. /\ Len(Enc(r, j + 1)) + Len(Ending(r)) <= Len(Content(r))
        /\ Len(Ending(r)) >= 3 /\ Ending(r) \in Seq(Token)
        /\ Content(r) \in Seq(Token)
    BY <1>3, Beginning, EndingFacts, StreamFacts
  <2>2. Len(Ending(r)) \in Nat /\ Len(Content(r)) \in Nat
    BY <2>1
  <2> HIDE DEF L
  <2> QED
    BY <1>1, <1>2, <2>1, <2>2
<1>5. \A i \in 1..Len(b) : b[i] = X[o + i]
  BY DEF After
<1> HIDE DEF k, L, X
<1>6. \A i \in Nat : i > 0 /\ c + i <= Len(b) => b[c + i] = X[o + c + i]
  <2> SUFFICES ASSUME NEW i \in Nat, i > 0, c + i <= Len(b)
               PROVE  b[c + i] = X[o + c + i]
    OBVIOUS
  <2>1. c + i \in 1..Len(b) /\ o + (c + i) = o + c + i
    BY <1>1
  <2> QED
    BY <1>5, <2>1
<1>7. /\ Len(b) >= c + 1 => b[c + 1] = Sizes[L] /\ b[c + 1] # "CR"
      /\ Len(b) >= c + 3 => b[c + 2] = "CR" /\ b[c + 3] = "LF"
  <2>1. Sizes[L] # "CR"
    BY <1>2, TokenFacts
  <2>2. /\ 1 \in Nat /\ 1 > 0 /\ 2 \in Nat /\ 2 > 0 /\ 3 \in Nat /\ 3 > 0
        /\ Len(b) >= c + 1 => c + 1 <= Len(b)
        /\ Len(b) >= c + 3 => c + 2 <= Len(b) /\ c + 3 <= Len(b)
    BY <1>1
  <2> QED
    BY <1>2, <1>6, <2>1, <2>2, Zenon
<1>8. /\ Len(b) < c + 3 => LineEnds(b, c) = {}
      /\ Len(b) >= c + 3 =>
            LineEnds(b, c) # {} /\ Min(LineEnds(b, c)) = c + 1
  <2>1. /\ Len(b) >= c + 1 => b[c + 1] # "CR"
        /\ Len(b) >= c + 3 => b[c + 2] = "CR" /\ b[c + 3] = "LF"
    BY <1>7
  <2>2. b \in Seq(Token)
    BY <1>1
  <2> QED
    BY <2>1, <2>2, SizeLine, Zenon
<1>9. Len(b) >= c + 3 => Value(b[c + 1]) = L
  <2>1. Value(Sizes[L]) = L
    BY <1>2, TokenFacts
  <2>2. Len(b) >= c + 3 => Len(b) >= c + 1
    BY <1>1
  <2> QED
    BY <1>7, <2>1, <2>2, Zenon
<1>10. CASE Len(b) < c + L + 5
  <2>1. o + Len(b) < Len(Content(r))
    <3>1. Len(Content(r)) \in Nat
      BY StreamFacts
    <3> QED
      BY <1>1, <1>a, <1>4, <1>10, <3>1
  <2>2. Turn(b, c, w) = Decoded("more", <<>>, SubSeq(b, c + 1, Len(b)))
    <3>1. CASE Len(b) < c + 3
      BY <1>8, <3>1, Zenon DEF Turn
    <3>2. CASE ~(Len(b) < c + 3)
      <4>1. /\ LineEnds(b, c) # {} /\ Min(LineEnds(b, c)) = c + 1
            /\ Value(b[c + 1]) = L
        BY <1>1, <1>8, <1>9, <3>2
      <4>2. ~Complete(b, c + 1, L)
        BY <1>1, <1>a, <1>10 DEF Complete
      <4>3. c + 1 # c
        BY <1>1
      <4> QED
        BY <4>1, <4>2, <4>3, Zenon DEF Turn
    <3> QED
      BY <3>1, <3>2
  <2> QED
    BY <1>3, <2>1, <2>2, Stops
<1>11. CASE Len(b) >= c + L + 5
  <2> DEFINE e == c + L + 5
             next == w[e]
             s == SubSeq(b, c + 4, c + 3 + L)
             q == Dat(r, j)
  <2>1. /\ LineEnds(b, c) # {} /\ Min(LineEnds(b, c)) = c + 1
        /\ Value(b[c + 1]) = L
    <3>1. ~(Len(b) < c + 3) /\ Len(b) >= c + 3
      BY <1>1, <1>a, <1>11
    <3> QED
      BY <1>8, <1>9, <3>1
  <2>2. Complete(b, c + 1, L) /\ c + 1 # c /\ L # 0
    BY <1>1, <1>a, <1>11 DEF Complete
  <2>3. /\ (c + 1) + 2 + L + 2 = e /\ (c + 1) + 3 = c + 4
        /\ (c + 1) + 2 + L = c + 3 + L
    BY <1>1, <1>a
  <2>4. Turn(b, c, w) = [next EXCEPT !.data = s \o @]
    <3> HIDE DEF e
    <3> QED
      BY <2>1, <2>2, <2>3, Zenon DEF Turn
  <2>5. s = k
    <3>1. c + 3 \in Nat /\ c + 3 + L \in (c + 3)..Len(b) /\ (c + 3) + 1 = c + 4
          /\ (c + 3 + L) - (c + 3) = L
      BY <1>1, <1>a, <1>11
    <3>2. /\ s \in Seq(Token) /\ Len(s) = L
          /\ \A i \in 1..L : s[i] = b[c + 3 + i]
      <4> DEFINE f == c + 3
                 g == c + 3 + L
      <4>1. f \in Nat /\ g \in f..Len(b)
        BY <3>1
      <4> HIDE DEF f, g
      <4>2. /\ SubSeq(b, f + 1, g) \in Seq(Token)
            /\ Len(SubSeq(b, f + 1, g)) = g - f
            /\ \A i \in 1..(g - f) : SubSeq(b, f + 1, g)[i] = b[f + i]
        BY <1>1, <4>1, Between
      <4>3. f + 1 = c + 4 /\ g = c + 3 + L /\ g - f = L /\ f = c + 3
        BY <3>1 DEF f, g
      <4> QED
        BY <4>2, <4>3
    <3>3. \A i \in 1..L : s[i] = k[i]
      <4> SUFFICES ASSUME NEW i \in 1..L
                   PROVE  b[c + 3 + i] = k[i]
        BY <3>2
      <4>1. /\ 3 + i \in Nat /\ 3 + i > 0 /\ c + (3 + i) <= Len(b)
            /\ c + (3 + i) = c + 3 + i /\ o + c + (3 + i) = o + c + 3 + i
        BY <1>1, <1>a, <1>11
      <4>2. b[c + (3 + i)] = X[o + c + (3 + i)]
        BY <1>6, <4>1
      <4> QED
        BY <1>2, <4>1, <4>2
    <3> HIDE DEF s
    <3> QED
      BY <1>2, <3>2, <3>3, SeqEqual DEF L
  <2>6. Parsed(r, o, b, j + 1, next)
    <3>1. e \in 0..Len(b) /\ o + e = o + c + L + 5
      BY <1>1, <1>a, <1>11
    <3>2. o + e = Len(Enc(r, j + 1))
      BY <1>2, <3>1
    <3> HIDE DEF e
    <3> QED
      BY <3>1, <3>2
  <2> HIDE DEF s, next, q
  <2>7. next \in [verdict : {"more", "200", "400"}, data : Seq(Token),
              rest : Seq(Token)]
    BY <2>6 DEF Parsed
  <2> DEFINE d == [next EXCEPT !.data = s \o @]
  <2>8. k \in Seq(Token) /\ q \in Seq(Token) /\ next.data \in Seq(Token)
    BY <1>2, <1>3, <2>7, Growth DEF q
  <2>9. k \o next.data \in Seq(Token)
    BY <2>8, TwoParts
  <2>10. /\ d \in [verdict : {"more", "200", "400"}, data : Seq(Token),
              rest : Seq(Token)]
         /\ d.verdict = next.verdict /\ d.rest = next.rest
         /\ d.data = k \o next.data
    BY <2>5, <2>7, <2>9
  <2> HIDE DEF d
  <2>11. q \o d.data = Dat(r, j + 1) \o next.data
    <3>1. (q \o k) \o next.data = q \o (k \o next.data)
      BY <2>8, Regroup, Zenon
    <3>2. Dat(r, j + 1) = q \o k
      BY <1>2 DEF q
    <3> QED
      BY <2>10, <3>1, <3>2
  <2>12. Parsed(r, o, b, j, d)
    BY <2>6, <2>10, <2>11, Zenon DEF Parsed, q
  <2> QED
    BY <2>4, <2>12 DEF d
<1> QED
  BY <1>1, <1>a, <1>10, <1>11

\* At the end: the last chunk, or the empty line.
LEMMA TakesEnd ==
    ASSUME NEW r \in Requests, r.kind \in InChunks,
           NEW o, NEW b, After(r, o, b), NEW w, NEW c \in 0..Len(b),
           o + c = Len(Enc(r, Len(r.chunks)))
    PROVE  Parsed(r, o, b, Len(r.chunks), Turn(b, c, w))
<1> DEFINE K == Len(r.chunks)
           X == Stream(r)
           E == Ending(r)
           q == Dat(r, K)
           C == Len(Content(r))
           P == Len(Enc(r, K))
<1>1. b \in Seq(Token) /\ o \in Nat /\ Len(b) \in Nat /\ c \in Nat
  BY DEF After
<1>2. K \in 0..K
  BY RequestFacts
<1>3. /\ C = P + Len(E)
      /\ X[P + 1] = E[1] /\ X[P + 2] = E[2] /\ X[P + 3] = E[3]
  BY AtEnd, Zenon
<1>4. P = o + c
  OBVIOUS
<1>5. \A i \in 1..Len(b) : b[i] = X[o + i]
  BY DEF After
<1>6. q \o <<>> = q
  <2>1. q \in Seq(Token)
    BY <1>2, Growth
  <2> HIDE DEF q
  <2> QED
    BY <2>1, ConcatEmptySeq
<1>7. Len(E) \in Nat
  BY EndingFacts
<1>8. ASSUME o + Len(b) < C,
             Turn(b, c, w) = Decoded("more", <<>>, SubSeq(b, c + 1, Len(b)))
      PROVE  Parsed(r, o, b, K, Turn(b, c, w))
  BY <1>2, <1>8, Stops
<1>9. ASSUME NEW v \in {"200", "400"},
             v = IF r.kind = "broken" THEN "400" ELSE "200",
             Turn(b, c, w) = Decoded(v, <<>>, <<>>),
             r.kind # "broken" => C <= o + Len(b)
      PROVE  Parsed(r, o, b, K, Turn(b, c, w))
  <2> DEFINE d == Decoded(v, <<>>, <<>>)
  <2>1. d \in [verdict : {"more", "200", "400"}, data : Seq(Token),
              rest : Seq(Token)]
    BY DEF Decoded
  <2>2. d.verdict = v /\ d.data = <<>> /\ d.rest = <<>> /\ v # "more"
    BY DEF Decoded
  <2>3. P <= o + Len(b)
    <3> HIDE DEF P
    <3> QED
      BY <1>1, <1>4
  <2> HIDE DEF d
  <2>4. Parsed(r, o, b, K, d)
    BY <1>6, <1>9, <2>1, <2>2, <2>3, Zenon DEF Parsed
  <2> QED
    BY <1>9, <2>4, Zenon DEF d
<1> HIDE DEF X, E, q, C, P, K
<1>10. \A i \in Nat : i > 0 /\ c + i <= Len(b) => b[c + i] = X[P + i]
  <2> SUFFICES ASSUME NEW i \in Nat, i > 0, c + i <= Len(b)
               PROVE  b[c + i] = X[P + i]
    OBVIOUS
  <2>1. c + i \in 1..Len(b) /\ o + (c + i) = P + i
    BY <1>1, <1>4
  <2> QED
    BY <1>5, <2>1
<1>11. /\ Len(b) >= c + 1 => b[c + 1] = E[1]
       /\ Len(b) >= c + 2 => b[c + 2] = E[2]
       /\ Len(b) >= c + 3 => b[c + 1] = E[1] /\ b[c + 2] = E[2] /\ b[c + 3] = E[3]
  <2>1. /\ 1 \in Nat /\ 1 > 0 /\ 2 \in Nat /\ 2 > 0 /\ 3 \in Nat /\ 3 > 0
        /\ Len(b) >= c + 1 => c + 1 <= Len(b)
        /\ Len(b) >= c + 2 => c + 2 <= Len(b)
        /\ Len(b) >= c + 3 => c + 1 <= Len(b) /\ c + 2 <= Len(b) /\ c + 3 <= Len(b)
    BY <1>1
  <2> QED
    BY <1>3, <1>10, <2>1, Zenon
<1>12. CASE r.kind # "broken"
  <2>1. /\ Len(E) = 5 /\ Value(E[1]) = 0 /\ E[1] # "CR"
        /\ E[2] = "CR" /\ E[3] = "LF"
    BY <1>12, EndingFacts, Zenon DEF E
  <2>2. /\ Len(b) < c + 3 => LineEnds(b, c) = {}
        /\ Len(b) >= c + 3 =>
              LineEnds(b, c) # {} /\ Min(LineEnds(b, c)) = c + 1
    <3>1. /\ Len(b) >= c + 1 => b[c + 1] # "CR"
          /\ Len(b) >= c + 3 => b[c + 2] = "CR" /\ b[c + 3] = "LF"
      BY <1>11, <2>1
    <3>2. b \in Seq(Token)
      BY <1>1
    <3> QED
      BY <3>1, <3>2, SizeLine
  <2>3. Len(b) >= c + 3 => Value(b[c + 1]) = 0
    BY <1>11, <2>1, Zenon
  <2>4. c + 1 # c
    BY <1>1
  <2>5. CASE Len(b) < c + 5
    <3>1. o + Len(b) < C
      BY <1>1, <1>3, <1>4, <2>1, <2>5
    <3>2. CASE Len(b) < c + 3
      <4>1. Turn(b, c, w) = Decoded("more", <<>>, SubSeq(b, c + 1, Len(b)))
        BY <2>2, <3>2, Zenon DEF Turn
      <4> QED
        BY <1>8, <3>1, <4>1 DEF K
    <3>3. CASE Len(b) >= c + 3
      <4>1. ~Complete(b, c + 1, 0)
        BY <1>1, <2>5 DEF Complete
      <4>2. Turn(b, c, w) = Decoded("more", <<>>, SubSeq(b, c + 1, Len(b)))
        BY <2>2, <2>3, <2>4, <3>3, <4>1, Zenon DEF Turn
      <4> QED
        BY <1>8, <3>1, <4>2 DEF K
    <3> QED
      BY <1>1, <3>2, <3>3
  <2>6. CASE Len(b) >= c + 5
    <3>1. Complete(b, c + 1, 0) /\ Len(b) >= c + 3
      BY <1>1, <2>6 DEF Complete
    <3>2. Turn(b, c, w) = Decoded("200", <<>>, <<>>)
      BY <2>2, <2>3, <2>4, <3>1, Zenon DEF Turn
    <3>3. C <= o + Len(b)
      BY <1>1, <1>3, <1>4, <2>1, <2>6
    <3> QED
      BY <1>9, <1>12, <3>2, <3>3 DEF K
  <2> QED
    BY <1>1, <2>5, <2>6
<1>13. CASE r.kind = "broken"
  <2>1. Len(E) = 3 /\ E[1] = "CR" /\ E[2] = "LF"
    BY <1>13, EndingFacts, Zenon DEF E
  <2>2. CASE Len(b) < c + 2
    <3>1. LineEnds(b, c) = {}
      BY <1>1, <2>2 DEF LineEnds
    <3>2. o + Len(b) < C
      BY <1>1, <1>3, <1>4, <2>1, <2>2
    <3>3. Turn(b, c, w) = Decoded("more", <<>>, SubSeq(b, c + 1, Len(b)))
      BY <3>1, Zenon DEF Turn
    <3> QED
      BY <1>8, <3>2, <3>3 DEF K
  <2>3. CASE Len(b) >= c + 2
    <3>1. b[c + 1] = "CR" /\ b[c + 2] = "LF"
      BY <1>1, <1>11, <2>1, <2>3
    <3>2. LineEnds(b, c) # {} /\ Min(LineEnds(b, c)) = c
      <4> DEFINE T == LineEnds(b, c)
      <4>1. T \subseteq Nat /\ c \in T /\ \A p \in T : c <= p
        BY <1>1, <2>3, <3>1 DEF LineEnds
      <4> HIDE DEF T
      <4>2. Min(T) = c
        BY <4>1, MinFacts
      <4> QED
        BY <4>1, <4>2 DEF T
    <3>3. Turn(b, c, w) = Decoded("400", <<>>, <<>>)
      BY <3>2, Zenon DEF Turn
    <3> QED
      BY <1>9, <1>13, <3>3 DEF K
  <2> QED
    BY <1>1, <2>2, <2>3
<1> QED
  BY <1>12, <1>13

\* The loop, from the beginning of any chunk.
LEMMA ChunksParse ==
    ASSUME NEW r \in Requests, r.kind \in InChunks,
           NEW k \in 0..Len(r.chunks), NEW b, After(r, Len(Enc(r, k)), b)
    PROVE  Parsed(r, Len(Enc(r, k)), b, k, Chunks(b))
<1> DEFINE K == Len(r.chunks)
           o == Len(Enc(r, k))
<1>1. b \in Seq(Token) /\ o \in Nat /\ Len(b) \in Nat
  BY DEF After
<1>2. PICK w : /\ \A c \in 0..Len(b) : w[c] = Turn(b, c, w)
               /\ Chunks(b) = IF Len(b) > 2 THEN w[0]
                              ELSE Decoded("more", <<>>, b)
  BY <1>1, ChunksWalk
<1> DEFINE Good(j) == \A c \in 0..Len(b) :
                         o + c = Len(Enc(r, j)) => Parsed(r, o, b, j, w[c])
           G == {j \in 0..K : Good(j)}
<1>3. K \in Nat /\ K \in 0..K
  BY RequestFacts
<1>4. Good(K)
  BY <1>2, TakesEnd
<1>5. ASSUME NEW j \in 0..(K - 1), j + 1 \in G
      PROVE  j \in G
  <2>1. Good(j + 1) /\ j \in 0..K
    BY <1>3, <1>5
  <2>2. Good(j)
    BY <1>2, <2>1, TakesChunk
  <2> QED
    BY <2>1, <2>2
<1>6. \A j \in 0..K : j \in G
  <2>1. K \in G
    BY <1>3, <1>4
  <2> HIDE DEF G, K
  <2> QED
    BY <1>3, <1>5, <2>1, Downward
<1>7. CASE Len(b) > 2
  <2>1. Good(k)
    BY <1>6
  <2>2. 0 \in 0..Len(b) /\ o + 0 = Len(Enc(r, k))
    BY <1>1
  <2> QED
    BY <1>2, <1>7, <2>1, <2>2
<1>8. CASE ~(Len(b) > 2)
  <2>1. o + Len(b) < Len(Content(r))
    <3>1. /\ o + Len(Ending(r)) <= Len(Content(r))
          /\ Len(Ending(r)) >= 3 /\ Ending(r) \in Seq(Token)
          /\ Content(r) \in Seq(Token)
      BY Beginning, EndingFacts, StreamFacts
    <3>2. Len(Ending(r)) \in Nat /\ Len(Content(r)) \in Nat
      BY <3>1
    <3> HIDE DEF o
    <3> QED
      BY <1>1, <1>8, <3>1, <3>2
  <2>2. SubSeq(b, 0 + 1, Len(b)) = b /\ 0 \in 0..Len(b)
    BY <1>1, SubSeqFull
  <2>3. o + 0 = Len(Enc(r, k))
    BY <1>1
  <2>4. Parsed(r, o, b, k, Decoded("more", <<>>, SubSeq(b, 0 + 1, Len(b))))
    BY <2>1, <2>2, <2>3, Stops
  <2> QED
    BY <1>2, <1>8, <2>2, <2>4
<1> QED
  BY <1>7, <1>8

-----------------------------------------------------------------------------
(***************************************************************************)
(* A request on the wire                                                   *)
(***************************************************************************)

LEMMA WireFacts ==
    ASSUME NEW r \in Requests
    PROVE  /\ Wire(r) \in Seq(Token) /\ Stream(r) \in Seq(Token)
           /\ Len(Wire(r)) = r.head + 1 + Len(Stream(r))
           /\ Len(Whole(r)) = r.head + 1 + Len(Content(r))
           /\ \A i \in 1..r.head : Wire(r)[i] = "h"
           /\ Wire(r)[r.head + 1] = "blank"
           /\ \A i \in 1..Len(Stream(r)) : Wire(r)[(r.head + 1) + i] = Stream(r)[i]
<1> DEFINE n == r.head
           h == [i \in 1..n |-> "h"]
           e == <<"blank">>
           p == h \o e
           c == Content(r)
           m == r.more
           s == Stream(r)
<1>1. n \in Nat /\ "h" \in Token /\ "blank" \in Token
  BY RequestFacts, TokenFacts
<1>2. c \in Seq(Token) /\ s \in Seq(Token)
  BY StreamFacts
<1>3. m \in Seq(Token)
  BY RequestFacts
<1> HIDE DEF n
<1>4. h \in Seq(Token) /\ Len(h) = n /\ \A i \in 1..n : h[i] = "h"
  <2>1. h \in [1..n -> Token]
    BY <1>1
  <2>2. \A i \in 1..n : h[i] = "h"
    OBVIOUS
  <2> HIDE DEF h
  <2> QED
    BY <1>1, <2>1, <2>2
<1>5. e \in Seq(Token) /\ Len(e) = 1 /\ e[1] = "blank"
  <2> HIDE DEF Token
  <2> QED
    BY <1>1
<1>6. Whole(r) = p \o c
  BY DEF Whole, n
<1> HIDE DEF h, e, c, m, s
<1>7. /\ p \in Seq(Token) /\ Len(p) = Len(h) + Len(e)
      /\ \A i \in 1..Len(h) : p[i] = h[i]
      /\ \A i \in 1..Len(e) : p[Len(h) + i] = e[i]
  <2>1. h \in Seq(Token) /\ e \in Seq(Token)
    BY <1>4, <1>5
  <2> QED
    BY <2>1, TwoParts
<1>8. /\ Len(p) = n + 1 /\ \A i \in 1..n : p[i] = "h"
      /\ p[n + 1] = "blank"
  BY <1>1, <1>4, <1>5, <1>7
<1>9. p \in Seq(Token)
  BY <1>7
<1> HIDE DEF p
<1>10. Len(Whole(r)) = Len(p) + Len(c)
  BY <1>2, <1>6, <1>9, TwoParts
<1>11. Wire(r) = p \o s
  <2>1. (p \o c) \o m = p \o (c \o m)
    BY <1>2, <1>3, <1>9, Regroup, Zenon
  <2> QED
    BY <1>6, <2>1 DEF Wire, Stream, c, m, s
<1>12. /\ Wire(r) \in Seq(Token) /\ Len(Wire(r)) = Len(p) + Len(s)
       /\ \A i \in 1..Len(p) : Wire(r)[i] = p[i]
       /\ \A i \in 1..Len(s) : Wire(r)[Len(p) + i] = s[i]
  <2>1. s \in Seq(Token)
    BY <1>2
  <2>2. /\ p \o s \in Seq(Token) /\ Len(p \o s) = Len(p) + Len(s)
        /\ \A i \in 1..Len(p) : (p \o s)[i] = p[i]
        /\ \A i \in 1..Len(s) : (p \o s)[Len(p) + i] = s[i]
    BY <1>9, <2>1, TwoParts
  <2> QED
    BY <1>11, <2>2
<1>13. \A i \in 1..n : i \in 1..Len(p)
  BY <1>1, <1>8
<1>14. n + 1 \in 1..Len(p)
  BY <1>1, <1>8
<1>15. /\ \A i \in 1..n : Wire(r)[i] = "h"
       /\ Wire(r)[n + 1] = "blank"
       /\ \A i \in 1..Len(s) : Wire(r)[(n + 1) + i] = s[i]
  BY <1>8, <1>12, <1>13, <1>14
<1> QED
  BY <1>2, <1>8, <1>10, <1>12, <1>15, Zenon DEF n, s, c

\* What has come after the head.
Got(r, n) == SubSeq(Wire(r), r.head + 2, n)

LEMMA GotFacts ==
    ASSUME NEW r \in Requests, NEW n \in (r.head + 1)..Len(Wire(r))
    PROVE  /\ Got(r, n) \in Seq(Token) /\ Len(Got(r, n)) = n - (r.head + 1)
           /\ Len(Got(r, n)) <= Len(Stream(r))
           /\ \A i \in 1..Len(Got(r, n)) : Got(r, n)[i] = Stream(r)[i]
           /\ Got(r, n) = SubSeq(Stream(r), 1, n - (r.head + 1))
<1> DEFINE m == r.head + 1
           W == Wire(r)
           X == Stream(r)
           g == SubSeq(W, m + 1, n)
           f == SubSeq(X, 1, n - m)
<1>1. /\ W \in Seq(Token) /\ X \in Seq(Token)
      /\ Len(W) = m + Len(X)
      /\ \A i \in 1..Len(X) : W[m + i] = X[i]
  BY WireFacts
<1>2. m \in Nat /\ Len(X) \in Nat /\ Got(r, n) = g
  <2>1. r.head \in Nat /\ (r.head + 1) + 1 = r.head + 2
    BY RequestFacts
  <2>2. Len(X) \in Nat
    BY <1>1
  <2>3. m \in Nat
    BY <2>1
  <2>4. Got(r, n) = g
    BY <2>1, Zenon DEF Got
  <2> QED
    BY <2>2, <2>3, <2>4
<1> HIDE DEF m, W, X
<1>3. n \in m..Len(W)
  BY DEF m, W
<1>4. /\ g \in Seq(Token) /\ Len(g) = n - m
      /\ \A i \in 1..(n - m) : g[i] = W[m + i]
  <2>1. W \in Seq(Token)
    BY <1>1
  <2> QED
    BY <1>2, <1>3, <2>1, Between
<1>5. n - m \in 0..Len(X)
  BY <1>1, <1>2, <1>3
<1>6. /\ f \in Seq(Token) /\ Len(f) = n - m
      /\ \A i \in 1..(n - m) : f[i] = X[i]
  <2> DEFINE k == n - m
  <2>1. k \in 0..Len(X)
    BY <1>5
  <2> HIDE DEF k
  <2>2. /\ SubSeq(X, 0 + 1, k) \in Seq(Token) /\ Len(SubSeq(X, 0 + 1, k)) = k - 0
        /\ \A i \in 1..(k - 0) : SubSeq(X, 0 + 1, k)[i] = X[0 + i]
    BY <1>1, <2>1, Between
  <2>3. 0 + 1 = 1 /\ k - 0 = k /\ \A i \in 1..k : 0 + i = i
    BY <2>1
  <2>4. /\ SubSeq(X, 1, k) \in Seq(Token) /\ Len(SubSeq(X, 1, k)) = k
        /\ \A i \in 1..k : SubSeq(X, 1, k)[i] = X[i]
    BY <2>2, <2>3
  <2> QED
    BY <2>4 DEF k
<1>7. \A i \in 1..(n - m) : g[i] = X[i]
  BY <1>1, <1>2, <1>4, <1>5
<1>8. g = f
  <2> HIDE DEF g, f
  <2> QED
    BY <1>4, <1>6, <1>7, SeqEqual
<1> HIDE DEF g, f
<1>9. \A i \in 1..Len(g) : g[i] = X[i]
  BY <1>4, <1>7
<1>10. Len(g) <= Len(X)
  BY <1>2, <1>4, <1>5
<1> QED
  BY <1>2, <1>4, <1>8, <1>9, <1>10, Zenon DEF m, W, X, g, f

LEMMA HeadFacts ==
    ASSUME NEW r \in Requests, NEW n \in 0..Len(Wire(r)), NEW b,
           b = SubSeq(Wire(r), 1, n)
    PROVE  /\ b \in Seq(Token) /\ Len(b) = n
           /\ ~Contains(b, "blank") => n <= r.head
           /\ Contains(b, "blank") =>
                /\ n \in (r.head + 1)..Len(Wire(r))
                /\ SubSeq(b, 1 + Min({i \in DOMAIN b : b[i] = "blank"}), Len(b))
                     = Got(r, n)
<1> DEFINE W == Wire(r)
           h == r.head
           T == {i \in DOMAIN b : b[i] = "blank"}
<1>1. /\ W \in Seq(Token) /\ h \in Nat /\ n \in Nat /\ Len(W) \in Nat
      /\ \A i \in 1..h : W[i] = "h"
      /\ W[h + 1] = "blank"
  <2>1. W \in Seq(Token)
    BY WireFacts
  <2>2. Len(W) \in Nat
    BY <2>1
  <2> QED
    BY <2>1, <2>2, WireFacts, RequestFacts
<1> HIDE DEF W, h
<1>2. /\ b \in Seq(Token) /\ Len(b) = n /\ DOMAIN b = 1..n
      /\ \A i \in 1..n : b[i] = W[i]
  <2>1. W \in Seq(Token) /\ n \in 0..Len(W) /\ b = SubSeq(W, 0 + 1, n)
    BY <1>1 DEF W
  <2>2. /\ b \in Seq(Token) /\ Len(b) = n - 0
        /\ \A i \in 1..(n - 0) : b[i] = W[0 + i]
    BY <2>1, Between
  <2>3. n - 0 = n /\ \A i \in 1..n : 0 + i = i
    BY <1>1
  <2>4. DOMAIN b = 1..Len(b)
    BY <2>2, LenProperties
  <2> QED
    BY <2>2, <2>3, <2>4
<1>3. ASSUME n > h
      PROVE  /\ Contains(b, "blank") /\ Min(T) = h + 1
             /\ SubSeq(b, h + 2, n) = SubSeq(W, h + 2, n)
  <2>1. h + 1 \in 1..n /\ b[h + 1] = "blank"
    BY <1>1, <1>2, <1>3
  <2>2. Contains(b, "blank")
    BY <1>2, <2>1, Zenon DEF Contains
  <2>3. h + 1 \in T /\ T \subseteq Nat
    BY <1>2, <2>1
  <2>4. \A y \in T : h + 1 <= y
    <3> SUFFICES ASSUME NEW y \in T, ~(h + 1 <= y)
                 PROVE  FALSE
      OBVIOUS
    <3>1. y \in 1..n /\ b[y] = "blank"
      BY <1>2
    <3>2. y \in 1..h
      BY <1>1, <3>1
    <3>3. b[y] = "h"
      BY <1>1, <1>2, <3>1, <3>2
    <3> QED
      BY <3>1, <3>3
  <2> HIDE DEF T
  <2>5. Min(T) = h + 1
    BY <2>3, <2>4, MinFacts
  <2> DEFINE m == h + 1
             f == SubSeq(b, m + 1, n)
             g == SubSeq(W, m + 1, n)
  <2>6. m \in Nat /\ n \in m..Len(b) /\ n \in m..Len(W) /\ m + 1 = h + 2
    BY <1>1, <1>2, <1>3 DEF W
  <2> HIDE DEF m
  <2>7. b \in Seq(Token) /\ W \in Seq(Token)
    BY <1>1, <1>2
  <2>8. /\ f \in Seq(Token) /\ Len(f) = n - m
        /\ \A i \in 1..(n - m) : f[i] = b[m + i]
    BY <2>6, <2>7, Between
  <2>9. /\ g \in Seq(Token) /\ Len(g) = n - m
        /\ \A i \in 1..(n - m) : g[i] = W[m + i]
    BY <2>6, <2>7, Between
  <2> HIDE DEF f, g
  <2>10. \A i \in 1..(n - m) : f[i] = g[i]
    <3>1. \A i \in 1..(n - m) : m + i \in 1..n
      BY <1>1, <2>6
    <3> QED
      BY <1>2, <2>8, <2>9, <3>1
  <2>11. f = g
    BY <2>8, <2>9, <2>10, SeqEqual
  <2> QED
    BY <2>2, <2>5, <2>6, <2>11 DEF f, g
<1>4. ASSUME Contains(b, "blank")
      PROVE  n > h
  <2>1. PICK i \in 1..Len(b) : b[i] = "blank"
    BY <1>4 DEF Contains
  <2> SUFFICES ASSUME n <= h
               PROVE  FALSE
    BY <1>1
  <2>2. i \in 1..n /\ i \in 1..h
    BY <1>1, <1>2
  <2>3. b[i] = "h"
    BY <1>1, <1>2, <2>2
  <2> QED
    BY <2>1, <2>3
<1>5. Contains(b, "blank") =>
         SubSeq(b, 1 + Min(T), Len(b)) = SubSeq(W, h + 2, n)
  <2>1. Min(T) = h + 1 => 1 + Min(T) = h + 2
    <3>1. 1 + (h + 1) = h + 2
      BY <1>1
    <3> HIDE DEF T
    <3> QED
      BY <3>1
  <2> HIDE DEF T
  <2> QED
    BY <1>2, <1>3, <1>4, <2>1
<1>6. ~Contains(b, "blank") => n <= h
  BY <1>1, <1>3
<1>7. Contains(b, "blank") => n \in (h + 1)..Len(W)
  BY <1>1, <1>4 DEF W
<1> QED
  BY <1>2, <1>5, <1>6, <1>7, Zenon DEF W, h, T, Got

LEMMA PrefixFacts ==
    ASSUME NEW S, NEW s \in Seq(S), NEW n \in 0..Len(s)
    PROVE  IsPrefix(SubSeq(s, 1, n), s)
<1> DEFINE t == SubSeq(s, 1, n)
<1>1. n \in Nat /\ Len(s) \in Nat
  OBVIOUS
<1>2. t \in Seq(S) /\ Len(t) = n
  OBVIOUS
<1> HIDE DEF t
<1>3. SubSeq(t, 1, Len(t)) = t
  BY <1>2, SubSeqFull
<1>4. Len(t) <= Len(s) /\ t = SubSeq(s, 1, Len(t))
  BY <1>1, <1>2 DEF t
<1> QED
  BY <1>3, <1>4, Zenon DEF IsPrefix, t

-----------------------------------------------------------------------------
(***************************************************************************)
(* The invariant                                                           *)
(***************************************************************************)

IInv == TypeOK /\ BodyExact /\ NotEarly /\ Prompt /\ NothingLost

\* NoStatus is none of the other statuses.
LEMMA StatusFacts ==
    /\ NoStatus # "LENGTHLESS" /\ NoStatus # "CHUNKED"
    /\ NoStatus # "200" /\ NoStatus # "400"
BY Zenon DEF NoStatus

LEMMA AtoiFacts ==
    ASSUME NEW n \in Nat
    PROVE  Atoi(n) \in Int /\ Atoi(n) <= n /\ (n < IntLimit => Atoi(n) = n)
<1>1. \A a \in Nat, m \in Nat \ {0} :
         a % m \in 0..(m - 1) /\ a % m <= a /\ (a < m => a % m = a)
  OBVIOUS
<1>2. IntLimit \in Nat \ {0}
  BY FramingAssumption
<1> QED
  BY <1>1, <1>2 DEF Atoi

LEMMA LengthFacts ==
    ASSUME NEW r \in Requests
    PROVE  /\ FlattenSeq(r.chunks) \in Seq(Token) /\ Length(r) \in Nat
           /\ r.kind \in {"plain", "bare", "length"} => Content(r) = FlattenSeq(r.chunks)
           /\ r.kind \in {"plain", "bare"} => Content(r) = <<>>
<1>1. Len(r.chunks) \in 0..Len(r.chunks)
  BY RequestFacts
<1>2. FlattenSeq(r.chunks) \in Seq(Token)
  BY <1>1, Growth
<1>3. Length(r) \in Nat
  BY <1>2 DEF Length
<1>4. r.kind \in {"plain", "bare"} => FlattenSeq(r.chunks) = <<>>
  <2>1. r.kind \in {"plain", "bare"} => r.chunks = <<>>
    BY RequestFacts
  <2>2. FlattenSeq(<<>>) = <<>>
    <3>1. Len(<<>>) = 0
      OBVIOUS
    <3> QED
      BY <3>1, Zenon DEF FlattenSeq
  <2> QED
    BY <2>1, <2>2
<1>5. r.kind \in {"plain", "bare", "length"} => Content(r) = FlattenSeq(r.chunks)
  BY DEF Content, InChunks
<1> QED
  BY <1>2, <1>3, <1>4, <1>5

\* What a recv() of n bytes adds.
LEMMA Received ==
    ASSUME TypeOK, NEW n \in 1..BufSize, Recv(n)
    PROVE  /\ n \in Nat /\ at \in Nat /\ at + n \in 0..Len(Wire(req))
           /\ at' = at + n /\ req' = req /\ req \in Requests
           /\ filled' \in BOOLEAN
           /\ Segment(n) \in Seq(Token) /\ Len(Segment(n)) = n
           /\ Sent \o Segment(n) = SubSeq(Wire(req), 1, at + n)
           /\ at > req.head =>
                /\ SentContent \o Segment(n) = Got(req, at + n)
                /\ at + n \in (req.head + 1)..Len(Wire(req))
<1> DEFINE W == Wire(req)
           h == req.head
<1>1. /\ n \in Nat /\ n > 0 /\ at' = at + n /\ req' = req
      /\ filled' = (n = BufSize) /\ at + n <= Len(W)
  BY FramingAssumption DEF Recv
<1>2. req \in Requests /\ at \in 0..Len(W)
  BY DEF TypeOK
<1>3. W \in Seq(Token) /\ h \in Nat
  BY <1>2, WireFacts, RequestFacts
<1>4. Len(W) \in Nat
  BY <1>3
<1>5. filled' \in BOOLEAN
  BY <1>1
<1> HIDE DEF W, h
<1>6. at \in Nat /\ at + n \in 0..Len(W) /\ at + n \in at..Len(W)
  BY <1>1, <1>2, <1>4
<1>7. SubSeq(W, at + 1, at + n) \in Seq(Token) /\ Len(SubSeq(W, at + 1, at + n)) = n
  <2> DEFINE m == at + n
  <2>1. m \in at..Len(W) /\ m - at = n
    BY <1>1, <1>6
  <2>2. W \in Seq(Token) /\ at \in Nat
    BY <1>3, <1>6
  <2> HIDE DEF m
  <2>3. /\ SubSeq(W, at + 1, m) \in Seq(Token)
        /\ Len(SubSeq(W, at + 1, m)) = m - at
    BY <2>1, <2>2, Between
  <2> QED
    BY <2>1, <2>3 DEF m
<1>8. \A k \in 0..at : SubSeq(W, k + 1, at) \o SubSeq(W, at + 1, at + n)
                         = SubSeq(W, k + 1, at + n)
  <2> SUFFICES ASSUME NEW k \in 0..at
               PROVE  SubSeq(W, k + 1, at) \o SubSeq(W, at + 1, at + n)
                         = SubSeq(W, k + 1, at + n)
    OBVIOUS
  <2> DEFINE m == at + n
  <2>1. k \in Nat /\ at \in k..Len(W) /\ m \in at..Len(W)
    BY <1>2, <1>4, <1>6
  <2>2. W \in Seq(Token)
    BY <1>3
  <2> HIDE DEF m
  <2>3. SubSeq(W, k + 1, at) \o SubSeq(W, at + 1, m) = SubSeq(W, k + 1, m)
    BY <2>1, <2>2, Joined
  <2> QED
    BY <2>3 DEF m
<1>9. SubSeq(W, 1, at) \o SubSeq(W, at + 1, at + n) = SubSeq(W, 1, at + n)
  <2>1. 0 \in 0..at /\ 0 + 1 = 1
    BY <1>6
  <2> QED
    BY <1>8, <2>1
<1>10. ASSUME at > h
       PROVE  /\ SubSeq(W, h + 2, at) \o SubSeq(W, at + 1, at + n)
                    = SubSeq(W, h + 2, at + n)
              /\ at + n \in (h + 1)..Len(W)
  <2>1. h + 1 \in 0..at /\ (h + 1) + 1 = h + 2 /\ at + n \in (h + 1)..Len(W)
    BY <1>1, <1>3, <1>6, <1>10
  <2>2. SubSeq(W, (h + 1) + 1, at) \o SubSeq(W, at + 1, at + n)
          = SubSeq(W, (h + 1) + 1, at + n)
    BY <1>8, <2>1, Zenon
  <2> QED
    BY <2>1, <2>2
<1> QED
  BY <1>1, <1>2, <1>5, <1>6, <1>7, <1>9, <1>10, Zenon
  DEF W, h, Segment, Sent, SentContent, Got

\* A step after which the request is not handed over, nor all there.
LEMMA GoesOn ==
    ASSUME IInv, req' = req, at' \in 0..Len(Wire(req)), filled' \in BOOLEAN,
           status' \in {NoStatus, "LENGTHLESS", "CHUNKED"}, handed' = FALSE,
           readBuf' \in Seq(Token), Len(readBuf') <= at',
           body' \in Seq(Token), Len(body') <= at',
           ~(at' >= Len(Whole(req))) \/ (status' = NoStatus /\ filled'),
           NothingLost'
    PROVE  IInv'
<1>1. TypeOK'
  <2>1. status' \notin {"200", "400"}
    BY StatusFacts
  <2> QED
    BY <2>1, Zenon DEF IInv, TypeOK
<1>2. BodyExact' /\ NotEarly'
  BY DEF BodyExact, NotEarly
<1>3. Prompt'
  BY Zenon DEF Prompt, Arrived
<1> QED
  BY <1>1, <1>2, <1>3, Zenon DEF IInv

\* A step that hands the request over.
LEMMA Hands ==
    ASSUME IInv, req' = req, at' \in 0..Len(Wire(req)), filled' \in BOOLEAN,
           status' \in {"200", "400"}, handed' = TRUE,
           readBuf' \in Seq(Token), Len(readBuf') <= at',
           body' \in Seq(Token), Len(body') <= at',
           BodyExact', NotEarly'
    PROVE  IInv'
<1>1. TypeOK'
  BY Zenon DEF IInv, TypeOK
<1>2. Prompt'
  BY DEF Prompt
<1>3. NothingLost'
  <2>1. status' # NoStatus /\ status' # "LENGTHLESS" /\ status' # "CHUNKED"
    BY StatusFacts
  <2> QED
    BY <2>1, Zenon DEF NothingLost
<1> QED
  BY <1>1, <1>2, <1>3, Zenon DEF IInv

-----------------------------------------------------------------------------
(***************************************************************************)
(* The steps                                                               *)
(***************************************************************************)

\* The rest of what stands after the place o.
LEMMA Shifted ==
    ASSUME NEW r \in Requests, NEW o, NEW b, After(r, o, b),
           o + Len(b) <= Len(Stream(r)), NEW c \in 0..Len(b)
    PROVE  SubSeq(b, c + 1, Len(b)) = SubSeq(Stream(r), (o + c) + 1, o + Len(b))
<1> DEFINE X == Stream(r)
           l == Len(b)
           m == o + c
           n == o + l
           f == SubSeq(b, c + 1, l)
           g == SubSeq(X, m + 1, n)
<1>1. o \in Nat /\ l \in Nat /\ c \in Nat /\ c <= l
  BY DEF After
<1>2. b \in Seq(Token) /\ X \in Seq(Token)
  BY StreamFacts DEF After
<1>3. Len(X) \in Nat
  BY <1>2
<1>4. \A i \in 1..l : b[i] = X[o + i]
  BY DEF After
<1> HIDE DEF X
<1>5. l \in c..Len(b) /\ m \in Nat /\ n \in m..Len(X) /\ n - m = l - c
  BY <1>1, <1>3 DEF X
<1> HIDE DEF l, m, n
<1>6. /\ f \in Seq(Token) /\ Len(f) = l - c
      /\ \A i \in 1..(l - c) : f[i] = b[c + i]
  BY <1>1, <1>2, <1>5, Between
<1>7. /\ g \in Seq(Token) /\ Len(g) = n - m
      /\ \A i \in 1..(n - m) : g[i] = X[m + i]
  BY <1>2, <1>5, Between
<1>8. \A i \in 1..(l - c) : c + i \in 1..l /\ o + (c + i) = m + i
  BY <1>1 DEF m
<1> HIDE DEF f, g
<1>9. \A i \in 1..(l - c) : f[i] = g[i]
  BY <1>4, <1>5, <1>6, <1>7, <1>8
<1>10. f = g
  BY <1>5, <1>6, <1>7, <1>9, SeqEqual
<1> QED
  BY <1>10 DEF f, g, l, m, n, X

\* What the loop makes of a chunked body of which k chunks are decoded already
\* and b is there: it goes on before the end only, and decodes exactly the
\* chunks it takes.
LEMMA ChunkStep ==
    ASSUME NEW r \in Requests, r.kind \in InChunks,
           NEW m \in (r.head + 1)..Len(Wire(r)), NEW k \in 0..Len(r.chunks),
           NEW b \in Seq(Token), Got(r, m) = Enc(r, k) \o b,
           NEW d, d = Chunks(b)
    PROVE  /\ d.verdict \in {"more", "200", "400"}
           /\ d.data \in Seq(Token) /\ d.rest \in Seq(Token)
           /\ Dat(r, k) \o d.data \in Seq(Token)
           /\ Len(Dat(r, k) \o d.data) <= m /\ Len(d.rest) <= m /\ Len(b) <= m
           /\ d.verdict = "more" =>
                /\ m < Len(Whole(r))
                /\ \E i \in 0..Len(r.chunks) :
                     /\ Dat(r, k) \o d.data = Dat(r, i)
                     /\ Got(r, m) = Enc(r, i) \o d.rest
           /\ d.verdict # "more" =>
                /\ d.verdict = IF r.kind = "broken" THEN "400" ELSE "200"
                /\ Dat(r, k) \o d.data = FlattenSeq(r.chunks)
                /\ r.kind # "broken" => m >= Len(Whole(r))
<1> DEFINE p == Enc(r, k)
           o == Len(p)
           X == Stream(r)
           K == Len(r.chunks)
           g == Got(r, m)
           h == r.head + 1
<1>1. p \in Seq(Token) /\ X \in Seq(Token) /\ K \in Nat /\ K \in 0..K
  <2>1. K \in Nat /\ K \in 0..K
    BY RequestFacts
  <2>2. p \in Seq(Token)
    BY Growth
  <2>3. X \in Seq(Token)
    BY StreamFacts
  <2> QED
    BY <2>1, <2>2, <2>3
<1>2. o \in Nat /\ Len(b) \in Nat /\ Len(X) \in Nat
  BY <1>1
<1>3. h \in Nat /\ Len(Content(r)) \in Nat
  <2>1. Content(r) \in Seq(Token)
    BY StreamFacts
  <2>2. Len(Content(r)) \in Nat
    BY <2>1
  <2> QED
    BY <2>2, RequestFacts
<1>4. /\ g \in Seq(Token) /\ Len(g) = m - h /\ Len(g) <= Len(X)
      /\ \A i \in 1..Len(g) : g[i] = X[i]
      /\ g = SubSeq(X, 1, m - h)
  BY GotFacts
<1>5. m \in Nat /\ m >= h /\ Len(Whole(r)) = h + Len(Content(r))
  BY <1>3, WireFacts
<1>6. /\ Len(g) = o + Len(b)
      /\ \A i \in 1..Len(b) : g[o + i] = b[i]
  <2> HIDE DEF p, g
  <2>1. /\ Len(p \o b) = Len(p) + Len(b)
        /\ \A i \in 1..Len(b) : (p \o b)[Len(p) + i] = b[i]
    <3>1. p \in Seq(Token)
      BY <1>1
    <3>2. b \in Seq(Token)
      OBVIOUS
    <3> QED
      BY <3>1, <3>2, TwoParts
  <2>2. g = p \o b
    BY DEF g, p
  <2> QED
    BY <2>1, <2>2
<1> HIDE DEF h, g
<1>7. After(r, o, b)
  <2> SUFFICES ASSUME NEW i \in 1..Len(b)
               PROVE  b[i] = X[o + i]
    BY <1>2, Zenon DEF After
  <2> HIDE DEF o, X
  <2>1. o + i \in 1..Len(g)
    BY <1>2, <1>6
  <2> QED
    BY <1>4, <1>6, <2>1
<1>8. Parsed(r, o, b, k, d)
  BY <1>7, ChunksParse
<1>9. o + Len(b) = m - h /\ o + Len(b) <= Len(X) /\ o + Len(b) <= m
  <2>1. Len(g) = m - h /\ Len(g) <= Len(X) /\ Len(g) = o + Len(b)
    BY <1>4, <1>6
  <2>2. m - h <= m
    <3>1. \A u, v \in Nat : u - v <= u
      OBVIOUS
    <3> QED
      BY <1>3, <1>5, <3>1
  <2> HIDE DEF o, X
  <2> QED
    BY <2>1, <2>2
<1>10. /\ d.verdict \in {"more", "200", "400"}
       /\ d.data \in Seq(Token) /\ d.rest \in Seq(Token)
  BY <1>8 DEF Parsed
<1>11. Len(b) <= m
  <2> HIDE DEF o
  <2> QED
    BY <1>2, <1>5, <1>9
<1>12. ASSUME d.verdict = "more"
       PROVE  /\ m < Len(Whole(r))
              /\ Len(Dat(r, k) \o d.data) <= m /\ Len(d.rest) <= m
              /\ Dat(r, k) \o d.data \in Seq(Token)
              /\ \E i \in 0..Len(r.chunks) :
                   /\ Dat(r, k) \o d.data = Dat(r, i)
                   /\ Got(r, m) = Enc(r, i) \o d.rest
  <2>1. o + Len(b) < Len(Content(r))
    BY <1>8, <1>12, Zenon DEF Parsed
  <2>2. m < Len(Whole(r))
    <3> HIDE DEF o
    <3> QED
      BY <1>2, <1>3, <1>5, <1>9, <2>1
  <2>3. PICK i \in 0..K : /\ Dat(r, k) \o d.data = Dat(r, i)
                          /\ Len(Enc(r, i)) \in o..(o + Len(b))
                          /\ d.rest = SubSeq(b, Len(Enc(r, i)) - o + 1, Len(b))
    BY <1>8, <1>12, Zenon DEF Parsed
  <2> DEFINE q == Enc(r, i)
             c == Len(q) - o
  <2>4. /\ q \in Seq(Token) /\ SubSeq(X, 1, Len(q)) = q
        /\ Dat(r, i) \in Seq(Token) /\ Len(Dat(r, i)) <= Len(q)
    BY Beginning, Growth, Longer
  <2>5. Len(Dat(r, i)) \in Nat /\ Len(q) \in Nat
    BY <2>4
  <2>6. Len(q) \in o..(o + Len(b)) /\ d.rest = SubSeq(b, c + 1, Len(b))
    BY <2>3
  <2> HIDE DEF o, q
  <2>7. c \in 0..Len(b) /\ o + c = Len(q)
    BY <1>2, <2>5, <2>6
  <2> HIDE DEF c
  <2>8. d.rest = SubSeq(X, Len(q) + 1, o + Len(b))
    <3>1. d.rest = SubSeq(X, (o + c) + 1, o + Len(b))
      <4> HIDE DEF X
      <4> QED
        BY <1>7, <1>9, <2>6, <2>7, Shifted DEF X
    <3> QED
      BY <2>7, <3>1
  <2> HIDE DEF X
  <2>9. SubSeq(X, 1, Len(q)) \o SubSeq(X, Len(q) + 1, o + Len(b))
          = SubSeq(X, 1, o + Len(b))
    <3> DEFINE u == Len(q)
               v == o + Len(b)
    <3>1. /\ u \in 0..Len(X) /\ v \in u..Len(X) /\ 0 + 1 = 1
      BY <1>2, <1>9, <2>6
    <3> HIDE DEF u, v
    <3>2. SubSeq(X, 0 + 1, u) \o SubSeq(X, u + 1, v) = SubSeq(X, 0 + 1, v)
      <4>1. 0 \in Nat
        OBVIOUS
      <4> QED
        BY <1>1, <3>1, <4>1, Joined, Zenon
    <3> QED
      BY <3>1, <3>2 DEF u, v
  <2>10. g = q \o d.rest
    BY <1>4, <1>9, <2>4, <2>8, <2>9
  <2>11. Len(d.rest) <= m
    <3>1. Len(d.rest) = Len(b) - c
      <4>1. Len(b) \in c..Len(b) /\ c \in Nat
        BY <1>2, <2>7
      <4> QED
        BY <2>6, <4>1, Between
    <3> QED
      BY <1>2, <1>11, <2>7, <3>1
  <2>12. Len(Dat(r, i)) <= m
    BY <1>2, <1>5, <1>9, <2>4, <2>5, <2>6
  <2>13. Got(r, m) = Enc(r, i) \o d.rest
    BY <2>10 DEF g, q
  <2> QED
    BY <2>2, <2>3, <2>4, <2>11, <2>12, <2>13
<1>13. ASSUME d.verdict # "more"
       PROVE  /\ d.verdict = IF r.kind = "broken" THEN "400" ELSE "200"
              /\ Dat(r, k) \o d.data = FlattenSeq(r.chunks)
              /\ r.kind # "broken" => m >= Len(Whole(r))
              /\ Dat(r, k) \o d.data \in Seq(Token)
              /\ Len(Dat(r, k) \o d.data) <= m /\ Len(d.rest) <= m
  <2>1. /\ d.verdict = IF r.kind = "broken" THEN "400" ELSE "200"
        /\ d.rest = <<>>
        /\ Dat(r, k) \o d.data = Dat(r, K)
        /\ Len(Enc(r, K)) <= o + Len(b)
        /\ r.kind # "broken" => Len(Content(r)) <= o + Len(b)
    BY <1>8, <1>13, Zenon DEF Parsed
  <2>2. /\ Dat(r, K) = FlattenSeq(r.chunks) /\ Dat(r, K) \in Seq(Token)
        /\ Enc(r, K) \in Seq(Token) /\ Len(Dat(r, K)) <= Len(Enc(r, K))
    BY <1>1, Growth, Longer
  <2>3. Len(Dat(r, K)) \in Nat /\ Len(Enc(r, K)) \in Nat
    BY <2>2
  <2>4. r.kind # "broken" => m >= Len(Whole(r))
    <3> HIDE DEF o
    <3> QED
      BY <1>2, <1>3, <1>5, <1>9, <2>1
  <2>5. Len(Dat(r, K)) <= m
    <3> DEFINE u == Len(Dat(r, K))
               v == Len(Enc(r, K))
    <3>1. u \in Nat /\ v \in Nat /\ u <= v /\ v <= o + Len(b)
      BY <2>1, <2>2, <2>3
    <3> HIDE DEF o, u, v
    <3>2. u <= m
      BY <1>2, <1>5, <1>9, <3>1
    <3> QED
      BY <3>2 DEF u
  <2>6. Len(d.rest) <= m
    <3>1. Len(d.rest) = 0
      BY <2>1
    <3> QED
      BY <1>5, <3>1
  <2> QED
    BY <2>1, <2>2, <2>4, <2>5, <2>6
<1> QED
  BY <1>10, <1>11, <1>12, <1>13, Zenon

\* Once the head is there, what follows it is what was received of the stream.
LEMMA HeadReceived ==
    ASSUME IInv, NEW n \in 1..BufSize, HeadDone(n)
    PROVE  /\ at + n \in (req.head + 1)..Len(Wire(req)) /\ at' = at + n
           /\ req' = req /\ req \in Requests /\ filled' \in BOOLEAN
           /\ at' \in 0..Len(Wire(req)) /\ at' \in Nat
           /\ AfterHead(n) = Got(req, at + n)
           /\ AfterHead(n) \in Seq(Token) /\ Len(AfterHead(n)) <= at'
           /\ Buffer(n) \in Seq(Token) /\ Len(Buffer(n)) <= at'
<1>1. TypeOK /\ Recv(n) /\ status = NoStatus /\ Contains(Buffer(n), "blank")
  BY Zenon DEF HeadDone, IInv
<1>2. /\ n \in Nat /\ at \in Nat /\ at + n \in 0..Len(Wire(req))
      /\ at' = at + n /\ req' = req /\ req \in Requests
      /\ filled' \in BOOLEAN
      /\ Sent \o Segment(n) = SubSeq(Wire(req), 1, at + n)
  BY <1>1, Received
<1>3. Buffer(n) = SubSeq(Wire(req), 1, at + n)
  BY <1>1, <1>2, Zenon DEF IInv, NothingLost, Buffer
<1>4. /\ at + n \in (req.head + 1)..Len(Wire(req))
      /\ AfterHead(n) = Got(req, at + n)
  BY <1>1, <1>2, <1>3, HeadFacts, Zenon DEF AfterHead
<1>5. /\ Got(req, at + n) \in Seq(Token)
      /\ Len(Got(req, at + n)) = (at + n) - (req.head + 1)
  BY <1>2, <1>4, GotFacts, Zenon
<1>6. Len(Got(req, at + n)) <= at + n
  <2>1. \A a \in Nat, b, c \in Int : c = a - (b + 1) /\ b \in Nat => c <= a
    OBVIOUS
  <2>2. req.head \in Nat /\ at + n \in Nat
    BY <1>2, RequestFacts
  <2>3. Len(Got(req, at + n)) \in Int
    BY <1>5
  <2> QED
    BY <1>5, <2>1, <2>2, <2>3
<1>7. at + n \in Nat /\ at + n <= at + n
  BY <1>2
<1>8. Buffer(n) \in Seq(Token) /\ Len(Buffer(n)) = at + n
  BY <1>2, <1>3, HeadFacts
<1> QED
  BY <1>2, <1>4, <1>5, <1>6, <1>7, <1>8, Zenon


\* Where a connection, or the next request on it, begins.
Fresh ==
    /\ req \in Requests /\ at = 0 /\ filled = FALSE /\ readBuf = <<>>
    /\ body = <<>> /\ status = NoStatus /\ handed = FALSE

LEMMA Begins == Fresh => IInv
<1> SUFFICES ASSUME Fresh PROVE IInv
  OBVIOUS
<1>1. /\ req \in Requests /\ at = 0 /\ filled = FALSE /\ readBuf = <<>>
      /\ body = <<>> /\ status = NoStatus /\ handed = FALSE
  BY Zenon DEF Fresh
<1>2. /\ Wire(req) \in Seq(Token) /\ Len(Whole(req)) = req.head + 1 + Len(Content(req))
  BY <1>1, WireFacts
<1>3. Len(Wire(req)) \in Nat /\ req.head \in Nat /\ Len(Content(req)) \in Nat
  <2>1. Content(req) \in Seq(Token)
    BY <1>1, StreamFacts
  <2>2. req.head \in Nat
    BY <1>1, RequestFacts
  <2> QED
    BY <1>2, <2>1, <2>2
<1>4. at \in 0..Len(Wire(req)) /\ ~(at >= Len(Whole(req)))
  <2>1. \A a, b \in Nat : ~(0 >= a + 1 + b)
    OBVIOUS
  <2> QED
    BY <1>1, <1>2, <1>3, <2>1
<1>5. readBuf \in Seq(Token) /\ body \in Seq(Token)
      /\ Len(readBuf) <= at /\ Len(body) <= at
  BY <1>1
<1>6. /\ status # "LENGTHLESS" /\ status # "CHUNKED"
      /\ status # "200" /\ status # "400"
  BY <1>1, StatusFacts
<1>7. TypeOK
  BY <1>1, <1>4, <1>5, <1>6, Zenon DEF TypeOK
<1>8. BodyExact /\ NotEarly
  BY <1>1 DEF BodyExact, NotEarly
<1>9. Prompt
  BY <1>4, Zenon DEF Prompt, Arrived
<1>10. NothingLost
  <2>1. Sent = <<>>
    <3>1. SubSeq(Wire(req), 1, 0) = <<>>
      BY <1>2
    <3> QED
      BY <1>1, <3>1, Zenon DEF Sent
  <2> QED
    BY <1>1, <1>6, <2>1, Zenon DEF NothingLost
<1> QED
  BY <1>7, <1>8, <1>9, <1>10, Zenon DEF IInv

LEMMA BeginsAgain == Fresh' => IInv'
BY Begins, PTL

LEMMA HeadMoreStep ==
    ASSUME IInv, NEW n \in 1..BufSize, HeadMore(n)
    PROVE  IInv'
<1>1. /\ TypeOK /\ NothingLost
      /\ status = NoStatus /\ Recv(n)
      /\ n = BufSize \/ ~Contains(Buffer(n), "blank")
      /\ readBuf' = Buffer(n)
      /\ body' = body /\ status' = status /\ handed' = handed
  BY Zenon DEF HeadMore, IInv
<1>2. /\ n \in Nat /\ at \in Nat /\ at + n \in 0..Len(Wire(req))
      /\ at' = at + n /\ req' = req /\ req \in Requests
      /\ filled' \in BOOLEAN
      /\ Segment(n) \in Seq(Token) /\ Len(Segment(n)) = n
      /\ Sent \o Segment(n) = SubSeq(Wire(req), 1, at + n)
  BY <1>1, Received
<1>3. /\ status' = NoStatus /\ status # "200" /\ status # "400"
      /\ status' # "LENGTHLESS" /\ status' # "CHUNKED"
  BY <1>1, StatusFacts
<1>4. handed' = FALSE
  BY <1>1, <1>3, Zenon DEF TypeOK
<1>5. readBuf' = SubSeq(Wire(req), 1, at + n) /\ body' = <<>>
  BY <1>1, <1>2, Zenon DEF NothingLost, Buffer
<1>6. readBuf' \in Seq(Token) /\ Len(readBuf') = at + n
      /\ (~Contains(readBuf', "blank") => at + n <= req.head)
  BY <1>2, <1>5, HeadFacts
<1>7. at' \in 0..Len(Wire(req)) /\ at' \in Nat /\ Len(readBuf') <= at'
  BY <1>2, <1>6
<1>8. body' \in Seq(Token) /\ Len(body') <= at'
  BY <1>5, <1>7
<1>9. ~(at' >= Len(Whole(req))) \/ (status' = NoStatus /\ filled')
  <2>1. CASE n = BufSize
    BY <1>1, <1>3, <2>1 DEF Recv
  <2>2. CASE ~Contains(Buffer(n), "blank")
    <3>1. at' <= req.head
      BY <1>1, <1>2, <1>6, <2>2, Zenon
    <3>2. Len(Whole(req)) = req.head + 1 + Len(Content(req))
      BY <1>2, WireFacts
    <3>3. Content(req) \in Seq(Token) /\ req.head \in Nat
      <4>1. Content(req) \in Seq(Token)
        BY <1>2, StreamFacts
      <4> QED
        BY <1>2, <4>1, RequestFacts
    <3>4. Len(Content(req)) \in Nat
      BY <3>3
    <3>5. \A a, h, c \in Nat : a <= h => ~(a >= h + 1 + c)
      OBVIOUS
    <3> QED
      BY <1>7, <3>1, <3>2, <3>3, <3>4, <3>5
  <2> QED
    BY <1>1, <2>1, <2>2, Zenon
<1>10. NothingLost'
  <2>1. readBuf' = Sent'
    BY <1>2, <1>5, Zenon DEF Sent
  <2> QED
    BY <1>3, <1>5, <2>1, Zenon DEF NothingLost
<1> QED
  BY <1>2, <1>3, <1>4, <1>6, <1>7, <1>8, <1>9, <1>10, GoesOn, Zenon

\* A request that ends with its head.
LEMMA HeadOnly ==
    ASSUME IInv, NEW n \in 1..BufSize, HeadDone(n),
           req.kind \in {"plain", "bare"}
    PROVE  Arrived' /\ SentContent' = AfterHead(n)
<1>1. /\ at + n \in (req.head + 1)..Len(Wire(req)) /\ at' = at + n
      /\ req' = req /\ req \in Requests
      /\ AfterHead(n) = Got(req, at + n)
  BY HeadReceived
<1>2. Content(req) = <<>> /\ req.head \in Nat
  <2>1. Content(req) = <<>>
    BY <1>1, LengthFacts
  <2> QED
    BY <1>1, <2>1, RequestFacts
<1>3. Len(Whole(req)) = req.head + 1
  <2>1. Len(Content(req)) = 0
    BY <1>2
  <2>2. Len(Whole(req)) = req.head + 1 + Len(Content(req))
    BY <1>1, WireFacts
  <2> QED
    BY <1>2, <2>1, <2>2
<1>4. at' >= Len(Whole(req))
  BY <1>1, <1>2, <1>3
<1> QED
  BY <1>1, <1>4, Zenon DEF Arrived, SentContent, Got

LEMMA ParsePlainStep ==
    ASSUME IInv, NEW n \in 1..BufSize, ParsePlain(n)
    PROVE  IInv'
<1>1. /\ HeadDone(n) /\ req.kind = "plain"
      /\ body' = <<>> /\ handed' = TRUE
      /\ status' = IF AfterHead(n) = <<>> THEN "200" ELSE "400"
      /\ readBuf' \in {<<>>, Buffer(n)}
  BY Zenon DEF ParsePlain, HandOver
<1>2. /\ req' = req /\ filled' \in BOOLEAN
      /\ at' \in 0..Len(Wire(req)) /\ at' \in Nat
      /\ Buffer(n) \in Seq(Token) /\ Len(Buffer(n)) <= at'
  BY <1>1, HeadReceived
<1>3. Arrived' /\ SentContent' = AfterHead(n)
  BY <1>1, HeadOnly
<1>4. req'.kind = "plain" /\ req'.kind # "broken"
  BY <1>1, <1>2
<1>5. BodyExact' /\ NotEarly'
  <2>1. status' = IF SentContent' = <<>> THEN "200" ELSE "400"
    BY <1>1, <1>3
  <2> HIDE DEF SentContent
  <2> QED
    BY <1>1, <1>3, <1>4, <2>1 DEF BodyExact, NotEarly
<1>6. /\ readBuf' \in Seq(Token) /\ Len(readBuf') <= at'
      /\ body' \in Seq(Token) /\ Len(body') <= at'
      /\ status' \in {"200", "400"}
  <2> HIDE DEF Token
  <2>1. \A e : e = <<>> => e \in Seq(Token) /\ Len(e) = 0
    OBVIOUS
  <2>2. 0 <= at'
    BY <1>2
  <2>3. status' \in {"200", "400"}
    BY <1>1
  <2>4. body' \in Seq(Token) /\ Len(body') <= at'
    BY <1>1, <2>1, <2>2, Zenon
  <2>5. CASE readBuf' = <<>>
    BY <2>1, <2>2, <2>3, <2>4, <2>5, Zenon
  <2>6. CASE readBuf' = Buffer(n)
    BY <1>2, <2>3, <2>4, <2>6, Zenon
  <2> QED
    BY <1>1, <2>5, <2>6
<1> QED
  BY <1>1, <1>2, <1>5, <1>6, Hands, Zenon

LEMMA ParseBareStep ==
    ASSUME IInv, NEW n \in 1..BufSize, ParseBare(n)
    PROVE  IInv'
<1>1. /\ HeadDone(n) /\ req.kind = "bare"
      /\ body' = AfterHead(n) /\ handed' = TRUE /\ status' = "200"
      /\ readBuf' = AfterHead(n)
  BY Zenon DEF ParseBare, HandOver
<1>2. /\ req' = req /\ filled' \in BOOLEAN
      /\ at' \in 0..Len(Wire(req)) /\ at' \in Nat
      /\ AfterHead(n) \in Seq(Token) /\ Len(AfterHead(n)) <= at'
  BY <1>1, HeadReceived
<1>3. Arrived' /\ SentContent' = AfterHead(n)
  BY <1>1, HeadOnly
<1>4. /\ req'.kind = "bare" /\ req'.kind # "broken" /\ req'.kind # "plain"
  BY <1>1, <1>2
<1>5. BodyExact' /\ NotEarly'
  <2>1. body' = SentContent'
    BY <1>1, <1>3
  <2> HIDE DEF SentContent
  <2> QED
    BY <1>1, <1>3, <1>4, <2>1 DEF BodyExact, NotEarly
<1> QED
  BY <1>1, <1>2, <1>5, Hands, Zenon

\* The beginning of a beginning.
LEMMA Within ==
    ASSUME NEW S, NEW s \in Seq(S), NEW n \in 0..Len(s), NEW k \in 0..n
    PROVE  /\ SubSeq(SubSeq(s, 1, n), 1, k) = SubSeq(s, 1, k)
           /\ SubSeq(s, 1, k) \in Seq(S) /\ Len(SubSeq(s, 1, k)) = k
<1> DEFINE u == SubSeq(s, 1, n)
           v == SubSeq(u, 1, k)
           w == SubSeq(s, 1, k)
<1>1. /\ 0 \in Nat /\ n \in 0..Len(s) /\ k \in 0..Len(s) /\ 0 + 1 = 1
      /\ n - 0 = n /\ k - 0 = k /\ Len(s) \in Nat
  OBVIOUS
<1>2. \A i \in Nat : 0 + i = i
  OBVIOUS
<1>3. /\ u \in Seq(S) /\ Len(u) = n /\ \A i \in 1..n : u[i] = s[i]
  <2>1. /\ SubSeq(s, 0 + 1, n) \in Seq(S) /\ Len(SubSeq(s, 0 + 1, n)) = n - 0
        /\ \A i \in 1..(n - 0) : SubSeq(s, 0 + 1, n)[i] = s[0 + i]
    BY <1>1, Between
  <2> QED
    BY <1>1, <1>2, <2>1
<1>4. /\ w \in Seq(S) /\ Len(w) = k /\ \A i \in 1..k : w[i] = s[i]
  <2>1. /\ SubSeq(s, 0 + 1, k) \in Seq(S) /\ Len(SubSeq(s, 0 + 1, k)) = k - 0
        /\ \A i \in 1..(k - 0) : SubSeq(s, 0 + 1, k)[i] = s[0 + i]
    BY <1>1, Between
  <2> QED
    BY <1>1, <1>2, <2>1
<1> HIDE DEF u
<1>5. k \in 0..Len(u)
  BY <1>3
<1>6. /\ v \in Seq(S) /\ Len(v) = k /\ \A i \in 1..k : v[i] = u[i]
  <2>1. /\ SubSeq(u, 0 + 1, k) \in Seq(S) /\ Len(SubSeq(u, 0 + 1, k)) = k - 0
        /\ \A i \in 1..(k - 0) : SubSeq(u, 0 + 1, k)[i] = u[0 + i]
    BY <1>1, <1>3, <1>5, Between
  <2> QED
    BY <1>1, <1>2, <2>1
<1> HIDE DEF v, w
<1>7. \A i \in 1..k : v[i] = w[i]
  BY <1>3, <1>4, <1>6
<1>8. v = w
  BY <1>4, <1>6, <1>7, SeqEqual
<1> QED
  BY <1>4, <1>8 DEF u, v, w

\* A body whose length was given, after b of it: either as much is there as an
\* int says, or all that came is kept.
LEMMA LengthStep ==
    ASSUME IInv, req.kind = "length", req' = req,
           at' \in (req.head + 1)..Len(Wire(req)), filled' \in BOOLEAN,
           NEW b \in Seq(Token), b = SubSeq(Stream(req), 1, Len(b)),
           Len(b) <= Len(Got(req, at')),
           readBuf' \in Seq(Token), Len(readBuf') <= at',
           Len(readBuf') >= Length(req) => Len(b) = Length(req),
           Len(b) < Length(req) => b = Got(req, at'),
           IF Len(b) < Atoi(Length(req)) THEN Wait("LENGTHLESS", b)
                                         ELSE HandOver("200", b)
    PROVE  IInv'
<1> DEFINE L == Length(req)
           G == Got(req, at')
<1>1. req \in Requests
  BY DEF IInv, TypeOK
<1>2. /\ L \in Nat /\ Content(req) = FlattenSeq(req.chunks)
      /\ FlattenSeq(req.chunks) \in Seq(Token)
  BY <1>1, LengthFacts
<1>3. /\ G \in Seq(Token) /\ Len(G) = at' - (req.head + 1)
      /\ Len(G) <= Len(Stream(req))
  BY <1>1, GotFacts
<1>4. /\ Len(Whole(req)) = req.head + 1 + L
      /\ Len(Wire(req)) \in Nat /\ req.head \in Nat
      /\ Len(Stream(req)) \in Nat /\ Stream(req) \in Seq(Token)
  <2>1. Wire(req) \in Seq(Token) /\ Stream(req) \in Seq(Token)
    BY <1>1, WireFacts
  <2>2. req.head \in Nat
    BY <1>1, RequestFacts
  <2>3. Len(Whole(req)) = req.head + 1 + Len(Content(req))
    BY <1>1, WireFacts
  <2> QED
    BY <1>2, <2>1, <2>2, <2>3 DEF Length
<1>5. Len(G) \in Nat /\ Len(b) \in Nat
  BY <1>3
<1>6. Atoi(L) \in Int /\ Atoi(L) <= L /\ (L < IntLimit => Atoi(L) = L)
  BY <1>2, AtoiFacts
<1>7. at' \in Nat /\ at' \in 0..Len(Wire(req)) /\ at' > req.head
      /\ at' = req.head + 1 + Len(G)
  <2> DEFINE h == req.head
             w == Len(Wire(req))
             g == Len(G)
  <2>1. h \in Nat /\ w \in Nat /\ at' \in (h + 1)..w /\ g \in Nat
    BY <1>4, <1>5
  <2>2. g = at' - (h + 1)
    BY <1>3
  <2> HIDE DEF h, w, g
  <2>3. at' \in Nat /\ at' \in 0..w /\ at' > h
    BY <2>1
  <2>4. at' = h + 1 + g
    <3>1. \A x, y, z \in Nat : x = y - (z + 1) => y = z + 1 + x
      OBVIOUS
    <3> QED
      BY <2>1, <2>2, <2>3, <3>1, Zenon
  <2> QED
    BY <2>3, <2>4, Zenon DEF h, w, g
<1>8. Len(b) <= at'
  <2>1. \A l, g, h, a \in Nat : l <= g /\ a = h + 1 + g => l <= a
    OBVIOUS
  <2> QED
    BY <1>4, <1>5, <1>7, <2>1, Zenon
<1>9. CASE Len(b) < Atoi(L)
  <2>1. Len(b) < L
    <3> HIDE DEF L
    <3> QED
      BY <1>2, <1>5, <1>6, <1>9
  <2>2. b = G /\ ~(Len(readBuf') >= L)
    BY <1>2, <1>5, <2>1
  <2>3. Len(readBuf') < L
    BY <1>2, <2>2
  <2>4. status' = "LENGTHLESS" /\ body' = b /\ handed' = FALSE
    BY <1>9, Zenon DEF Wait
  <2>5. ~(at' >= Len(Whole(req)))
    <3>1. Len(G) < L
      BY <2>1, <2>2
    <3>2. \A l, g, h \in Nat : g < l => ~(h + 1 + g >= h + 1 + l)
      OBVIOUS
    <3> QED
      BY <1>2, <1>4, <1>5, <1>7, <3>1, <3>2, Zenon
  <2>6. NothingLost'
    <3>1. status' # NoStatus /\ status' # "CHUNKED"
      BY <2>4, StatusFacts
    <3>2. /\ req'.kind = "length" /\ at' > req'.head
      BY <1>7
    <3>3. body' = SentContent'
      BY <2>2, <2>4, Zenon DEF SentContent, Got
    <3>4. Len(body') < Atoi(Length(req)')
      <4>1. Length(req)' = L
        BY DEF Length
      <4> QED
        BY <1>9, <2>4, <4>1
    <3>5. Len(readBuf') < Length(req)'
      BY <2>3 DEF Length
    <3> HIDE DEF L, G
    <3> QED
      BY <3>1, <3>2, <3>3, <3>4, <3>5 DEF NothingLost
  <2>7. body' \in Seq(Token) /\ Len(body') <= at'
    BY <1>8, <2>4
  <2>8. status' \in {NoStatus, "LENGTHLESS", "CHUNKED"}
    BY <2>4
  <2> QED
    BY <1>7, <2>4, <2>5, <2>6, <2>7, <2>8, GoesOn, Zenon
<1>10. CASE ~(Len(b) < Atoi(L))
  <2>1. status' = "200" /\ body' = b /\ handed' = TRUE
    BY <1>10, Zenon DEF HandOver
  <2>2. Len(b) >= Atoi(L)
    BY <1>5, <1>6, <1>10
  <2>3. L < IntLimit => Len(b) >= L
    BY <1>6, <2>2
  <2>4. IsPrefix(b, FlattenSeq(req.chunks) \o req.more)
    <3>1. Stream(req) = FlattenSeq(req.chunks) \o req.more
      BY <1>2 DEF Stream
    <3> DEFINE l == Len(b)
               X == Stream(req)
    <3>2. l \in 0..Len(X) /\ X \in Seq(Token)
      <4> HIDE DEF G
      <4> QED
        BY <1>3, <1>4, <1>5 DEF G
    <3> HIDE DEF l, X
    <3>3. IsPrefix(SubSeq(X, 1, l), X)
      BY <3>2, PrefixFacts
    <3> QED
      BY <3>1, <3>3 DEF l, X
  <2>5. Length(req)' = L /\ Fits' = Fits
    BY DEF Length, Fits
  <2>6. BodyExact'
    <3>1. /\ req'.kind = "length" /\ req'.kind # "broken"
          /\ req'.kind # "plain" /\ req'.kind # "bare"
          /\ req'.kind # "chunked" /\ req'.kind # "garbled"
      OBVIOUS
    <3>2. IsPrefix(body', FlattenSeq(req'.chunks) \o req'.more)
      BY <2>1, <2>4
    <3>3. Fits' => Len(body') >= Length(req)'
      BY <2>1, <2>3, <2>5 DEF Fits
    <3>4. Len(readBuf') >= Length(req)' => Len(body') = Length(req)'
      BY <2>1, <2>5
    <3> HIDE DEF L, G
    <3> QED
      BY <2>1, <3>1, <3>2, <3>3, <3>4 DEF BodyExact
  <2>7. NotEarly'
    <3>1. Fits => at' >= Len(Whole(req))
      <4>1. Fits => Len(b) >= L
        BY <2>3 DEF Fits
      <4>2. \A l, k, g, h \in Nat :
               k <= g /\ k >= l => h + 1 + g >= h + 1 + l
        OBVIOUS
      <4> QED
        BY <1>2, <1>4, <1>5, <1>7, <4>1, <4>2, Zenon
    <3> QED
      BY <2>5, <3>1 DEF NotEarly, Arrived
  <2>8. body' \in Seq(Token) /\ Len(body') <= at' /\ status' \in {"200", "400"}
    BY <1>8, <2>1
  <2> QED
    BY <1>7, <2>1, <2>6, <2>7, <2>8, Hands, Zenon
<1> QED
  BY <1>9, <1>10

LEMMA ParseLengthStep ==
    ASSUME IInv, NEW n \in 1..BufSize, ParseLength(n)
    PROVE  IInv'
<1> DEFINE A == AfterHead(n)
           b == Pushed(A)
           L == Length(req)
<1>1. /\ HeadDone(n) /\ req.kind = "length" /\ readBuf' = A
      /\ IF Len(b) < Atoi(L) THEN Wait("LENGTHLESS", b) ELSE HandOver("200", b)
  BY Zenon DEF ParseLength
<1>2. /\ at + n \in (req.head + 1)..Len(Wire(req)) /\ at' = at + n
      /\ req' = req /\ req \in Requests /\ filled' \in BOOLEAN
      /\ A = Got(req, at + n) /\ A \in Seq(Token) /\ Len(A) <= at'
  BY <1>1, HeadReceived
<1> DEFINE X == Stream(req)
           a == Len(A)
<1>3. /\ a <= Len(X) /\ A = SubSeq(X, 1, a)
  <2>1. /\ Got(req, at + n) = SubSeq(X, 1, (at + n) - (req.head + 1))
        /\ Len(Got(req, at + n)) = (at + n) - (req.head + 1)
        /\ Len(Got(req, at + n)) <= Len(X)
    BY <1>2, GotFacts
  <2> QED
    BY <1>2, <2>1
<1>4. X \in Seq(Token) /\ L \in Nat /\ a \in Nat
  BY <1>2, StreamFacts, LengthFacts
<1>5. a \in 0..Len(X)
  BY <1>3, <1>4
<1> HIDE DEF X
<1>6. /\ b \in Seq(Token) /\ b = SubSeq(X, 1, Len(b)) /\ Len(b) <= a
      /\ (a >= L => Len(b) = L) /\ (Len(b) < L => b = A)
  <2>1. CASE a > L
    <3>1. b = SubSeq(A, 1, L) /\ L \in 0..a
      BY <1>4, <2>1 DEF Pushed
    <3> HIDE DEF L, A, a, b
    <3>2. /\ SubSeq(SubSeq(X, 1, a), 1, L) = SubSeq(X, 1, L)
          /\ SubSeq(X, 1, L) \in Seq(Token) /\ Len(SubSeq(X, 1, L)) = L
      BY <1>4, <1>5, <3>1, Within
    <3>3. b = SubSeq(X, 1, L) /\ Len(b) = L /\ b \in Seq(Token)
      BY <1>3, <3>1, <3>2
    <3> QED
      BY <1>4, <2>1, <3>3
  <2>2. CASE ~(a > L)
    <3>1. b = A
      BY <2>2, Zenon DEF Pushed
    <3>2. Len(b) = a
      BY <3>1
    <3> HIDE DEF L, b, a
    <3> QED
      BY <1>2, <1>3, <1>4, <2>2, <3>1, <3>2
  <2> QED
    BY <2>1, <2>2
<1>7. /\ Len(b) <= Len(Got(req, at')) /\ readBuf' \in Seq(Token)
      /\ Len(readBuf') <= at' /\ at' \in (req.head + 1)..Len(Wire(req))
      /\ (Len(readBuf') >= L => Len(b) = L)
      /\ (Len(b) < L => b = Got(req, at'))
  BY <1>1, <1>2, <1>6
<1>8. b = SubSeq(Stream(req), 1, Len(b)) /\ b \in Seq(Token)
  BY <1>6 DEF X
<1> HIDE DEF b
<1> QED
  BY <1>1, <1>2, <1>7, <1>8, LengthStep, Zenon

LEMMA MoreLengthStep ==
    ASSUME IInv, NEW n \in 1..BufSize, MoreLength(n)
    PROVE  IInv'
<1> DEFINE b == body \o Segment(n)
           L == Length(req)
<1>1. /\ TypeOK /\ NothingLost /\ status = "LENGTHLESS" /\ Recv(n)
      /\ readBuf' = readBuf
      /\ IF LengthReached(b) THEN HandOver("200", b) ELSE Wait("LENGTHLESS", b)
  BY Zenon DEF MoreLength, IInv
<1>2. /\ req.kind = "length" /\ at > req.head /\ body = SentContent
      /\ Len(readBuf) < L
  BY <1>1 DEF NothingLost
<1>3. /\ n \in Nat /\ at \in Nat
      /\ at' = at + n /\ req' = req /\ req \in Requests
      /\ filled' \in BOOLEAN
      /\ b = Got(req, at') /\ at' \in (req.head + 1)..Len(Wire(req))
  BY <1>1, <1>2, Received
<1>4. /\ Got(req, at') \in Seq(Token)
      /\ Got(req, at') = SubSeq(Stream(req), 1, Len(Got(req, at')))
  <2>1. /\ Got(req, at') \in Seq(Token)
        /\ Len(Got(req, at')) = at' - (req.head + 1)
        /\ Got(req, at') = SubSeq(Stream(req), 1, at' - (req.head + 1))
    BY <1>3, GotFacts
  <2> QED
    BY <2>1
<1>5. b \in Seq(Token) /\ b = SubSeq(Stream(req), 1, Len(b))
  BY <1>3, <1>4
<1>6. Len(b) \in Nat /\ L \in Nat /\ Atoi(L) \in Int
  <2>1. L \in Nat
    BY <1>3, LengthFacts
  <2> QED
    BY <1>5, <2>1, AtoiFacts
<1>7. IF Len(b) < Atoi(L) THEN Wait("LENGTHLESS", b) ELSE HandOver("200", b)
  <2>1. LengthReached(b) <=> ~(Len(b) < Atoi(L))
    BY <1>6 DEF LengthReached
  <2> QED
    BY <1>1, <2>1, Zenon
<1>8. Len(b) <= Len(Got(req, at'))
  BY <1>3, <1>6
<1>9. readBuf' \in Seq(Token) /\ Len(readBuf') <= at'
  <2>1. readBuf \in Seq(Token) /\ Len(readBuf) <= at
    BY <1>1 DEF TypeOK
  <2>2. Len(readBuf) \in Nat
    BY <2>1
  <2> QED
    BY <1>1, <1>3, <2>1, <2>2
<1>10. ~(Len(readBuf') >= L)
  <2>1. Len(readBuf') \in Nat
    BY <1>9
  <2> QED
    BY <1>1, <1>2, <1>6, <2>1
<1> HIDE DEF b
<1> QED
  BY <1>2, <1>3, <1>5, <1>7, <1>8, <1>9, <1>10, LengthStep, Zenon

\* The chunks that came with the head, or with a later segment, when k chunks
\* are decoded already and b is there.
LEMMA ChunksGoOn ==
    ASSUME IInv, req.kind \in InChunks, req' = req,
           at' \in (req.head + 1)..Len(Wire(req)), filled' \in BOOLEAN,
           NEW k \in 0..Len(req.chunks), NEW b \in Seq(Token),
           Got(req, at') = Enc(req, k) \o b,
           Chunks(b).verdict = "more", readBuf' = Chunks(b).rest,
           Wait("CHUNKED", Dat(req, k) \o Chunks(b).data)
    PROVE  IInv'
<1>1. req \in Requests
  BY DEF IInv, TypeOK
<1> DEFINE d == Chunks(b)
           m == at'
           e == Dat(req, k) \o d.data
<1>2. /\ d.rest \in Seq(Token) /\ e \in Seq(Token)
      /\ Len(e) <= m /\ Len(d.rest) <= m
      /\ m < Len(Whole(req))
      /\ \E i \in 0..Len(req.chunks) :
           /\ e = Dat(req, i)
           /\ Got(req, m) = Enc(req, i) \o d.rest
  <2> DEFINE r == req
  <2>1. /\ r \in Requests /\ r.kind \in InChunks
        /\ m \in (r.head + 1)..Len(Wire(r)) /\ k \in 0..Len(r.chunks)
        /\ b \in Seq(Token) /\ Got(r, m) = Enc(r, k) \o b /\ d = Chunks(b)
        /\ d.verdict = "more"
    BY <1>1
  <2> HIDE DEF m, d
  <2> QED
    BY <2>1, ChunkStep, Zenon
<1>3. body' = e /\ status' = "CHUNKED" /\ handed' = FALSE
  BY Zenon DEF Wait
<1>4. at' \in Nat /\ at' \in 0..Len(Wire(req)) /\ at' > req.head
  <2>1. req.head \in Nat /\ Wire(req) \in Seq(Token)
    BY <1>1, RequestFacts, WireFacts
  <2>2. Len(Wire(req)) \in Nat
    BY <2>1
  <2> QED
    BY <2>1, <2>2
<1>5. ~(at' >= Len(Whole(req)))
  <2>1. Len(Whole(req)) \in Int
    <3>1. Len(Whole(req)) = req.head + 1 + Len(Content(req))
      BY <1>1, WireFacts
    <3>2. Content(req) \in Seq(Token) /\ req.head \in Nat
      BY <1>1, StreamFacts, RequestFacts
    <3> QED
      BY <3>1, <3>2
  <2> QED
    BY <1>2, <1>4, <2>1
<1>6. NothingLost'
  <2>1. PICK i \in 0..Len(req.chunks) : /\ e = Dat(req, i)
                                        /\ Got(req, m) = Enc(req, i) \o d.rest
    BY <1>2
  <2>2. /\ status' # NoStatus /\ status' # "LENGTHLESS"
    BY <1>3, StatusFacts
  <2>3. /\ i \in 0..Len(req'.chunks) /\ req'.kind \in InChunks
        /\ at' > req'.head
    BY <1>4
  <2>4. body' = FlattenSeq(SubSeq(req'.chunks, 1, i))
    BY <1>3, <2>1 DEF Dat
  <2>5. SentContent' = EncodedAll(SubSeq(req'.chunks, 1, i)) \o readBuf'
    <3>1. SentContent' = Got(req, m)
      BY Zenon DEF SentContent, Got
    <3> QED
      BY <2>1, <3>1 DEF Enc
  <2> HIDE DEF m, d, e
  <2> QED
    BY <2>2, <2>3, <2>4, <2>5, Zenon DEF NothingLost, First
<1>7. /\ body' \in Seq(Token) /\ Len(body') <= at'
      /\ readBuf' \in Seq(Token) /\ Len(readBuf') <= at'
  BY <1>2, <1>3
<1>8. status' \in {NoStatus, "LENGTHLESS", "CHUNKED"}
  BY <1>3
<1> HIDE DEF m, d, e
<1> QED
  BY <1>3, <1>4, <1>5, <1>6, <1>7, <1>8, GoesOn, Zenon

LEMMA ChunksEnd ==
    ASSUME IInv, req.kind \in InChunks, req' = req,
           at' \in (req.head + 1)..Len(Wire(req)), filled' \in BOOLEAN,
           NEW k \in 0..Len(req.chunks), NEW b \in Seq(Token),
           Got(req, at') = Enc(req, k) \o b,
           Chunks(b).verdict # "more", readBuf' \in {b, Chunks(b).rest},
           status' = Chunks(b).verdict, handed' = TRUE,
           \/ body' = Dat(req, k) \o Chunks(b).data
           \/ body' = <<>> /\ status' = "400"
    PROVE  IInv'
<1>1. req \in Requests
  BY DEF IInv, TypeOK
<1> DEFINE d == Chunks(b)
           m == at'
           e == Dat(req, k) \o d.data
<1>2. /\ d.rest \in Seq(Token) /\ e \in Seq(Token)
      /\ Len(e) <= m /\ Len(d.rest) <= m /\ Len(b) <= m
      /\ d.verdict = IF req.kind = "broken" THEN "400" ELSE "200"
      /\ e = FlattenSeq(req.chunks)
      /\ req.kind # "broken" => m >= Len(Whole(req))
  <2> DEFINE r == req
  <2>1. /\ r \in Requests /\ r.kind \in InChunks
        /\ m \in (r.head + 1)..Len(Wire(r)) /\ k \in 0..Len(r.chunks)
        /\ b \in Seq(Token) /\ Got(r, m) = Enc(r, k) \o b /\ d = Chunks(b)
        /\ d.verdict # "more"
    BY <1>1
  <2> HIDE DEF m, d, r
  <2>2. /\ d.rest \in Seq(Token) /\ Dat(r, k) \o d.data \in Seq(Token)
        /\ Len(Dat(r, k) \o d.data) <= m /\ Len(d.rest) <= m /\ Len(b) <= m
        /\ d.verdict # "more" =>
              /\ d.verdict = IF r.kind = "broken" THEN "400" ELSE "200"
              /\ Dat(r, k) \o d.data = FlattenSeq(r.chunks)
              /\ r.kind # "broken" => m >= Len(Whole(r))
    BY <2>1, ChunkStep
  <2> QED
    BY <2>1, <2>2, Zenon DEF r
<1>3. at' \in Nat /\ at' \in 0..Len(Wire(req))
  <2>1. req.head \in Nat /\ Wire(req) \in Seq(Token)
    BY <1>1, RequestFacts, WireFacts
  <2>2. Len(Wire(req)) \in Nat
    BY <2>1
  <2> QED
    BY <2>1, <2>2
<1>4. /\ body' \in Seq(Token) /\ Len(body') <= at'
      /\ readBuf' \in Seq(Token) /\ Len(readBuf') <= at'
  <2>1. Len(<<>>) = 0 /\ <<>> \in Seq(Token)
    OBVIOUS
  <2>2. CASE body' = e
    BY <1>2, <2>2
  <2>3. CASE body' = <<>>
    BY <1>2, <1>3, <2>1, <2>3
  <2> QED
    BY <2>2, <2>3
<1>5. status' \in {"200", "400"} /\ status' = IF req.kind = "broken" THEN "400" ELSE "200"
  BY <1>2
<1>6. BodyExact'
  <2>1. req'.kind = req.kind /\ req'.chunks = req.chunks
    OBVIOUS
  <2>2. CASE req.kind = "broken"
    <3>1. status' = "400"
      BY <1>5, <2>2
    <3> QED
      BY <2>1, <2>2, <3>1 DEF BodyExact
  <2>3. CASE req.kind # "broken"
    <3> req.kind \in {"chunked", "garbled"}
      BY <2>3 DEF InChunks
    <3>1. status' = "200"
      BY <1>5, <2>3
    <3>2. body' = FlattenSeq(req.chunks)
      BY <1>2, <3>1
    <3> QED
      BY <2>1, <2>3, <3>1, <3>2 DEF BodyExact
  <2> QED
    BY <2>2, <2>3
<1>7. NotEarly'
  <2>1. req'.kind # "broken" => at' >= Len(Whole(req'))
    BY <1>2
  <2> QED
    BY <2>1, Zenon DEF NotEarly, Arrived
<1> HIDE DEF m, d, e
<1> QED
  BY <1>3, <1>4, <1>5, <1>6, <1>7, Hands, Zenon

LEMMA ParseChunkedStep ==
    ASSUME IInv, NEW n \in 1..BufSize, ParseChunked(n)
    PROVE  IInv'
<1> DEFINE b == AfterHead(n)
           d == Chunks(b)
<1>1. /\ HeadDone(n) /\ req.kind \in InChunks /\ StartChunks(b)
  BY Zenon DEF ParseChunked
<1>2. /\ at + n \in (req.head + 1)..Len(Wire(req)) /\ at' = at + n
      /\ req' = req /\ req \in Requests /\ filled' \in BOOLEAN
      /\ b = Got(req, at + n) /\ b \in Seq(Token)
  BY <1>1, HeadReceived
<1>3. /\ 0 \in 0..Len(req.chunks) /\ Enc(req, 0) = <<>> /\ Dat(req, 0) = <<>>
  <2>1. 0 \in 0..Len(req.chunks)
    BY <1>2, RequestFacts
  <2>2. Enc(req, 0) = <<>> /\ Dat(req, 0) = <<>>
    BY <1>2, Growth
  <2> QED
    BY <2>1, <2>2
<1>4. /\ at' \in (req.head + 1)..Len(Wire(req))
      /\ Got(req, at') = Enc(req, 0) \o b
  <2>1. b = <<>> \o b
    <3> HIDE DEF b
    <3> QED
      BY <1>2
  <2> HIDE DEF b
  <2> QED
    BY <1>2, <1>3, <2>1
<1> HIDE DEF b
<1>5. d.data \in Seq(Token) /\ d.verdict \in {"more", "200", "400"}
  <2> DEFINE r == req
             m == at'
             k == 0
  <2>1. /\ r \in Requests /\ r.kind \in InChunks
        /\ m \in (r.head + 1)..Len(Wire(r)) /\ k \in 0..Len(r.chunks)
        /\ b \in Seq(Token) /\ Got(r, m) = Enc(r, k) \o b /\ d = Chunks(b)
    BY <1>1, <1>2, <1>3, <1>4
  <2> HIDE DEF m, d, k
  <2> QED
    BY <2>1, ChunkStep
<1>6. Dat(req, 0) \o d.data = d.data
  <2> HIDE DEF d
  <2> QED
    BY <1>3, <1>5
<1>7. CASE d.verdict = "more"
  <2>1. Wait("CHUNKED", d.data) /\ readBuf' = d.rest
    BY <1>1, <1>7 DEF StartChunks
  <2> QED
    BY <1>1, <1>2, <1>3, <1>4, <1>6, <1>7, <2>1, ChunksGoOn, Zenon
<1>8. CASE d.verdict = "200"
  <2>1. status' = "200" /\ body' = d.data /\ handed' = TRUE /\ readBuf' = b
    BY <1>1, <1>8 DEF StartChunks, HandOver
  <2>2. d.verdict # "more" /\ readBuf' \in {b, d.rest}
    BY <1>8, <2>1
  <2> QED
    BY <1>1, <1>2, <1>3, <1>4, <1>6, <1>8, <2>1, <2>2, ChunksEnd, Zenon
<1>9. CASE d.verdict = "400"
  <2>1. status' = "400" /\ body' = <<>> /\ handed' = TRUE /\ readBuf' = b
    BY <1>1, <1>9 DEF StartChunks, HandOver
  <2>2. d.verdict # "more" /\ readBuf' \in {b, d.rest}
    BY <1>9, <2>1
  <2> QED
    BY <1>1, <1>2, <1>3, <1>4, <1>9, <2>1, <2>2, ChunksEnd, Zenon
<1> QED
  BY <1>5, <1>7, <1>8, <1>9

LEMMA MoreChunkedStep ==
    ASSUME IInv, NEW n \in 1..BufSize, MoreChunked(n)
    PROVE  IInv'
<1> DEFINE b == Buffer(n)
           d == Chunks(b)
<1>1. /\ TypeOK /\ NothingLost /\ status = "CHUNKED" /\ Recv(n)
      /\ readBuf' = d.rest
      /\ IF d.verdict = "more" THEN Wait("CHUNKED", body \o d.data)
                               ELSE HandOver(d.verdict, body \o d.data)
  BY Zenon DEF MoreChunked, IInv
<1>2. req.kind \in InChunks /\ at > req.head
  BY <1>1, Zenon DEF NothingLost
<1>3. PICK k \in 0..Len(req.chunks) :
          /\ body = Dat(req, k) /\ SentContent = Enc(req, k) \o readBuf
  BY <1>1, Zenon DEF NothingLost, First, Dat, Enc
<1>4. /\ n \in Nat /\ at \in Nat
      /\ at' = at + n /\ req' = req /\ req \in Requests
      /\ filled' \in BOOLEAN /\ Segment(n) \in Seq(Token)
      /\ SentContent \o Segment(n) = Got(req, at')
      /\ at' \in (req.head + 1)..Len(Wire(req))
  BY <1>1, <1>2, Received
<1>5. readBuf \in Seq(Token)
  BY <1>1 DEF TypeOK
<1>6. Enc(req, k) \in Seq(Token)
  BY <1>3, <1>4, Growth
<1>7. b \in Seq(Token)
  BY <1>4, <1>5 DEF Buffer
<1>8. Got(req, at') = Enc(req, k) \o b
  <2>1. (Enc(req, k) \o readBuf) \o Segment(n)
          = Enc(req, k) \o (readBuf \o Segment(n))
    BY <1>4, <1>5, <1>6, Regroup, Zenon
  <2> QED
    BY <1>3, <1>4, <2>1, Zenon DEF Buffer
<1> HIDE DEF b
<1>9. CASE d.verdict = "more"
  <2>1. Wait("CHUNKED", Dat(req, k) \o d.data)
    BY <1>1, <1>3, <1>9, Zenon
  <2> QED
    BY <1>1, <1>2, <1>3, <1>4, <1>7, <1>8, <1>9, <2>1, ChunksGoOn, Zenon
<1>10. CASE d.verdict # "more"
  <2>1. /\ status' = d.verdict /\ handed' = TRUE
        /\ body' = Dat(req, k) \o d.data
    BY <1>1, <1>3, <1>10, Zenon DEF HandOver
  <2>2. readBuf' \in {b, d.rest}
    BY <1>1
  <2> QED
    BY <1>2, <1>3, <1>4, <1>7, <1>8, <1>10, <2>1, <2>2, ChunksEnd, Zenon
<1> QED
  BY <1>9, <1>10, Zenon

\* Every step.
LEMMA Inductive == IInv /\ [Next]_vars => IInv'
<1> SUFFICES ASSUME IInv, [Next]_vars PROVE IInv'
  OBVIOUS
<1>1. ASSUME NEW n \in 1..BufSize, Receive(n) PROVE IInv'
  <2>1. CASE HeadMore(n)
    BY <2>1, HeadMoreStep
  <2>2. CASE ParsePlain(n)
    BY <2>2, ParsePlainStep
  <2>7. CASE ParseBare(n)
    BY <2>7, ParseBareStep
  <2>3. CASE ParseLength(n)
    BY <2>3, ParseLengthStep
  <2>4. CASE ParseChunked(n)
    BY <2>4, ParseChunkedStep
  <2>5. CASE MoreLength(n)
    BY <2>5, MoreLengthStep
  <2>6. CASE MoreChunked(n)
    BY <2>6, MoreChunkedStep
  <2> QED
    BY <1>1, <2>1, <2>2, <2>3, <2>4, <2>5, <2>6, <2>7, Zenon DEF Receive
<1>2. ASSUME Restart PROVE IInv'
  <2>1. Fresh'
    BY <1>2, Zenon DEF Restart, Fresh
  <2> QED
    BY <2>1, BeginsAgain
<1>3. ASSUME UNCHANGED vars PROVE IInv'
  <2>1. /\ req' = req /\ at' = at /\ filled' = filled /\ readBuf' = readBuf
        /\ body' = body /\ status' = status /\ handed' = handed
    BY <1>3 DEF vars
  <2>2. TypeOK' /\ NotEarly' /\ Prompt'
    BY <2>1, Zenon DEF IInv, TypeOK, NotEarly, Prompt, Arrived, Fits, Length
  <2>3. BodyExact'
    <3>1. BodyExact
      BY Zenon DEF IInv
    <3>2. BodyExact' = BodyExact
      BY <2>1 DEF BodyExact, SentContent, Fits, Length
    <3> QED
      BY <3>1, <3>2
  <2>4. NothingLost'
    <3>1. NothingLost
      BY Zenon DEF IInv
    <3>2. NothingLost' = NothingLost
      BY <2>1 DEF NothingLost, Sent, SentContent, First, Length
    <3> QED
      BY <3>1, <3>2
  <2> QED
    BY <2>2, <2>3, <2>4, Zenon DEF IInv
<1> QED
  BY <1>1, <1>2, <1>3, Zenon DEF Next, Answered, Reconnect

LEMMA Invariant == Spec => []IInv
<1>1. Init => IInv
  BY Begins, Zenon DEF Init, Fresh
<1> QED
  BY <1>1, Inductive, PTL DEF Spec

-----------------------------------------------------------------------------
(***************************************************************************)
(* What the runs check                                                     *)
(***************************************************************************)

\* What is received, read_buf, the body, and the status always fit together.
THEOREM TypeOKHolds == Spec => []TypeOK
<1>1. IInv => TypeOK
  BY DEF IInv
<1> QED
  BY <1>1, Invariant, PTL

\* For every request, every buffer size and every way recv() may cut what was
\* sent, check_chunked, check_bodysize and recv_data hand over the body that was
\* sent and refuse exactly what is malformed.
THEOREM BodyExactHolds == Spec => []BodyExact
<1>1. IInv => BodyExact
  BY DEF IInv
<1> QED
  BY <1>1, Invariant, PTL

\* No request whose length is an int is handed over before all of it is there.
THEOREM NotEarlyHolds == Spec => []NotEarly
<1>1. IInv => NotEarly
  BY DEF IInv
<1> QED
  BY <1>1, Invariant, PTL

\* The recv() that completes a request hands it over, but for a head whose last
\* segment filled the buffer.
THEOREM PromptHolds == Spec => []Prompt
<1>1. IInv => Prompt
  BY DEF IInv
<1> QED
  BY <1>1, Invariant, PTL

\* Between two segments, what was received is in read_buf or in the body, and a
\* chunked body is cut between two chunks.
THEOREM NothingLostHolds == Spec => []NothingLost
<1>1. IInv => NothingLost
  BY DEF IInv
<1> QED
  BY <1>1, Invariant, PTL

=============================================================================
