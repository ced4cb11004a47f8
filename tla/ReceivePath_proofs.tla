------------------------- MODULE ReceivePath_proofs -------------------------
(***************************************************************************)
(* The receive path for every encoder, batch of touches and cut of the     *)
(* stream: until a receiver gives up, what it holds and what is on the wire *)
(* are the bytes of the messages it has not handled (Aligned).             *)
(*                                                                         *)
(* That a message in front is taken whole or waited for (FrontMessage) is  *)
(* arithmetic, four bytes holding a length (BigEndianInverse), and a matter *)
(* of places in sequences put together (Join, Overlap).  What FlattenSeq    *)
(* and the loops of the conversions compute comes from induction over      *)
(* numbers, by least elements (UpTo, Downward).                             *)
(*                                                                         *)
(* What the decoder finds in a message are the units of one sample          *)
(* (SampleNormalized): where the units lie (Laid) tells what to_annex_b     *)
(* and splitAnnexB find there.  The parameter sets follow from the newest   *)
(* keyframe decoded (Decoder).                                             *)
(***************************************************************************)
EXTENDS ReceivePath, WellFoundedInduction, TLAPS

-----------------------------------------------------------------------------
(* Induction *)

LessThan == {p \in Nat \X Nat : p[1] < p[2]}

\* A set of natural numbers has a least element.
LEMMA LeastElement ==
  ASSUME NEW T \in SUBSET Nat, T # {}
  PROVE  \E x \in T : \A y \in T : x <= y
<1>1. IsWellFoundedOn(LessThan, Nat)
  <2>1. IsWellFoundedOn(OpToRel(<, Nat), Nat)
    BY NatLessThanWellFounded, Zenon
  <2>2. OpToRel(<, Nat) = LessThan
    BY DEF OpToRel, LessThan
  <2> QED
    BY <2>1, <2>2
<1>2. PICK x \in T : \A y \in T : ~ (<<y, x>> \in LessThan)
  BY <1>1, WFMin
<1>3. \A y \in T : x <= y
  <2> SUFFICES ASSUME NEW y \in T, y < x PROVE FALSE
    OBVIOUS
  <2>1. <<y, x>> \in LessThan
    BY DEF LessThan
  <2> QED
    BY <1>2, <2>1
<1> QED
  BY <1>3

\* Induction up to a number, over a set.
LEMMA UpTo ==
  ASSUME NEW n \in Nat, NEW S, 0 \in S, \A k \in 0 .. n - 1 : k \in S => k + 1 \in S
  PROVE  \A k \in 0 .. n : k \in S
<1> DEFINE T == {k \in 0 .. n : k \notin S}
<1> SUFFICES ASSUME T # {} PROVE FALSE
  OBVIOUS
<1>1. PICK x \in T : \A y \in T : x <= y
  <2>1. T \in SUBSET Nat
    OBVIOUS
  <2> HIDE DEF T
  <2> QED
    BY <2>1, LeastElement
<1>2. x # 0 /\ x - 1 \in 0 .. n - 1 /\ x - 1 \notin T
  BY <1>1
<1> QED
  BY <1>1, <1>2

\* The values after each turn of a loop that begins with b and whose k-th turn
\* is the function G[k].
LoopValues(f, V, b, n, G) ==
  f \in [0 .. n -> V] /\ f[0] = b /\ \A k \in 1 .. n : f[k] = G[k][f[k - 1]]

\* A loop of n turns has a value after each of them.
LEMMA LoopExists ==
  ASSUME NEW V, NEW b \in V, NEW n \in Nat, NEW G \in [1 .. n -> [V -> V]]
  PROVE  \E f : LoopValues(f, V, b, n, G)
<1> DEFINE Run(f, j) == f[0] = b /\ \A k \in 1 .. j : f[k] = G[k][f[k - 1]]
           S == {j \in 0 .. n : \E f \in [0 .. j -> V] : Run(f, j)}
<1>1. 0 \in S
  <2> DEFINE g == [k \in 0 .. 0 |-> b]
  <2>1. g \in [0 .. 0 -> V] /\ Run(g, 0)
    OBVIOUS
  <2>2. 0 \in 0 .. n
    OBVIOUS
  <2> HIDE DEF g, Run
  <2> QED
    BY <2>1, <2>2
<1>2. ASSUME NEW j \in 0 .. n - 1, j \in S PROVE j + 1 \in S
  <2>1. PICK f \in [0 .. j -> V] : Run(f, j)
    BY <1>2
  <2> DEFINE g == [k \in 0 .. j + 1 |-> IF k = j + 1 THEN G[j + 1][f[j]] ELSE f[k]]
  <2>2. j + 1 \in 1 .. n /\ f[j] \in V /\ G[j + 1][f[j]] \in V
    OBVIOUS
  <2>3. g \in [0 .. j + 1 -> V]
    BY <2>2
  <2>4. g[0] = b
    BY <2>1
  <2>5. ASSUME NEW k \in 1 .. j + 1 PROVE g[k] = G[k][g[k - 1]]
    BY <2>1
  <2>6. Run(g, j + 1)
    BY <2>4, <2>5
  <2> HIDE DEF g, Run
  <2> QED
    BY <2>2, <2>3, <2>6
<1> HIDE DEF S
<1>3. \A k \in 0 .. n : k \in S
  <2>1. \A j \in 0 .. n - 1 : j \in S => j + 1 \in S
    BY <1>2
  <2> QED
    BY <1>1, <2>1, UpTo
<1>4. n \in S
  BY <1>3
<1> QED
  BY <1>4 DEF S, LoopValues

-----------------------------------------------------------------------------
(* Division *)

\* Division with the remainder as the difference.
LEMMA Split ==
  ASSUME NEW k \in Nat, NEW w \in Nat, w > 0
  PROVE  /\ k \div w \in Nat /\ k - (k \div w) * w \in 0 .. w - 1
         /\ k % w = k - (k \div w) * w
<1>1. k - (k \div w) * w \in 0 .. w - 1
  BY SMTT(30)
<1>2. k - (k \div w) * w = k % w
  BY SMTT(30)
<1> QED
  BY <1>1, <1>2

\* The number with this quotient and this remainder.
Whole(w, q, r) == q * w + r

\* It has no other quotient or remainder.
LEMMA WholeUnique ==
  ASSUME NEW w \in Nat, NEW q \in Nat, NEW s \in Nat,
         NEW r \in 0 .. w - 1, NEW t \in 0 .. w - 1, Whole(w, q, r) = Whole(w, s, t)
  PROVE  q = s /\ r = t
<1>0. q * w + r = s * w + t
  BY DEF Whole
<1>1. ASSUME q < s PROVE FALSE
  <2>1. s * w >= (q + 1) * w
    BY <1>1
  <2>2. (q + 1) * w = q * w + w
    OBVIOUS
  <2> QED
    BY <1>0, <2>1, <2>2
<1>2. ASSUME s < q PROVE FALSE
  <2>1. q * w >= (s + 1) * w
    BY <1>2
  <2>2. (s + 1) * w = s * w + w
    OBVIOUS
  <2> QED
    BY <1>0, <2>1, <2>2
<1>3. q = s
  BY <1>1, <1>2
<1>4. q * w \in Int
  OBVIOUS
<1> QED
  BY <1>0, <1>3, <1>4

\* So the division finds them.
LEMMA DivUnique ==
  ASSUME NEW w \in Nat, NEW q \in Nat, NEW r \in 0 .. w - 1
  PROVE  Whole(w, q, r) \in Nat /\ Whole(w, q, r) \div w = q /\ Whole(w, q, r) % w = r
<1> DEFINE k == Whole(w, q, r)
<1>0. w > 0
  OBVIOUS
<1>1. k \in Nat
  BY DEF Whole
<1> HIDE DEF k
<1> DEFINE s == k \div w
           t == k - s * w
<1>2. s \in Nat /\ t \in 0 .. w - 1 /\ k % w = t
  BY <1>0, <1>1, Split
<1> HIDE DEF s
<1>3. s * w \in Int
  BY <1>2
<1>4. k = s * w + t
  BY <1>1, <1>3
<1> HIDE DEF t
<1>5. Whole(w, q, r) = Whole(w, s, t)
  BY <1>4 DEF Whole, k
<1>6. q = s /\ r = t
  BY <1>2, <1>5, WholeUnique
<1> QED
  BY <1>1, <1>2, <1>6 DEF k, s

\* A remainder put behind a quotient's digit stays below the product.
LEMMA WholeBelow ==
  ASSUME NEW w \in Nat, NEW h \in Nat, NEW q \in 0 .. h - 1, NEW r \in 0 .. w - 1
  PROVE  Whole(w, q, r) \in 0 .. h * w - 1
<1>1. (q + 1) * w = q * w + w
  OBVIOUS
<1>2. (q + 1) * w <= h * w
  OBVIOUS
<1>3. q * w \in Nat /\ h * w \in Nat
  OBVIOUS
<1> QED
  BY <1>1, <1>2, <1>3 DEF Whole

\* A number is the whole of its division.
LEMMA Divided ==
  ASSUME NEW k \in Nat, NEW w \in Nat, w > 0
  PROVE  /\ k \div w \in Nat /\ k % w \in 0 .. w - 1
         /\ k = Whole(w, k \div w, k % w)
<1> DEFINE q == k \div w
           r == k % w
<1>1. q \in Nat /\ r \in 0 .. w - 1 /\ r = k - q * w
  BY Split
<1> HIDE DEF q, r
<1>2. q * w \in Int
  BY <1>1
<1>3. k = q * w + r
  BY <1>1, <1>2
<1> QED
  BY <1>1, <1>3 DEF Whole, q, r

\* Two divisions are one by the product.
LEMMA Twice ==
  ASSUME NEW k \in Nat, NEW w \in Nat, NEW v \in Nat, w > 0, v > 0
  PROVE  (k \div w) \div v = k \div (v * w)
<1> DEFINE q == k \div w
           r == k % w
           s == q \div v
           t == q % v
<1>1. q \in Nat /\ r \in 0 .. w - 1 /\ k = Whole(w, q, r)
  BY Divided
<1>2. s \in Nat /\ t \in 0 .. v - 1 /\ q = Whole(v, s, t)
  BY <1>1, Divided
<1> HIDE DEF q, r, s, t
<1>3. v * w \in Nat /\ Whole(w, t, r) \in 0 .. v * w - 1
  BY <1>1, <1>2, WholeBelow
<1>4. k = Whole(v * w, s, Whole(w, t, r))
  <2>1. k = (s * v + t) * w + r
    BY <1>1, <1>2 DEF Whole
  <2>2. (s * v + t) * w = s * (v * w) + t * w
    BY <1>2
  <2>3. s * (v * w) \in Int /\ t * w \in Int
    BY <1>2
  <2> QED
    BY <2>1, <2>2, <2>3, <1>1 DEF Whole
<1>5. k \div (v * w) = s
  BY <1>2, <1>3, <1>4, DivUnique
<1> QED
  BY <1>5 DEF s, q

\* A quotient is below what the number is below, divided.
LEMMA QuotientBelow ==
  ASSUME NEW k \in Nat, NEW w \in Nat, w > 0, NEW h \in Nat, k < h * w
  PROVE  k \div w < h
<1> DEFINE q == k \div w
           r == k % w
<1>1. q \in Nat /\ r \in 0 .. w - 1 /\ k = Whole(w, q, r)
  BY Divided
<1> HIDE DEF q, r
<1>2. SUFFICES ASSUME q >= h PROVE FALSE
  BY <1>1 DEF q
<1>3. q * w >= h * w /\ q * w \in Int
  BY <1>1, <1>2
<1> QED
  BY <1>1, <1>3 DEF Whole

\* A digit below the base is its own remainder.
LEMMA OwnRemainder ==
  ASSUME NEW d \in Nat, NEW w \in Nat, d < w
  PROVE  d % w = d
<1>1. d = Whole(w, 0, d) /\ d \in 0 .. w - 1 /\ 0 \in Nat
  BY DEF Whole
<1>2. Whole(w, 0, d) % w = d
  BY <1>1, DivUnique
<1> QED
  BY <1>1, <1>2

-----------------------------------------------------------------------------
(* Lengths *)

\* A number of four digits survives its four bytes.
LEMMA BigEndianInverse ==
  ASSUME NEW n \in Nat, InFourBytes(n)
  PROVE  /\ BigEndian(n) \in Seq(Bytes) /\ Len(BigEndian(n)) = 4
         /\ FromBigEndian(BigEndian(n)) = n
<1> DEFINE q1 == n \div Base
           q2 == q1 \div Base
           q3 == q2 \div Base
           d0 == n % Base
           d1 == q1 % Base
           d2 == q2 % Base
<1>0. Base \in Nat /\ Base > 0
  BY BitstreamAssumption
<1>1. q1 \in Nat /\ d0 \in 0 .. Base - 1 /\ n = q1 * Base + d0
  BY <1>0, Divided DEF Whole
<1>2. q2 \in Nat /\ d1 \in 0 .. Base - 1 /\ q1 = q2 * Base + d1
  BY <1>0, <1>1, Divided DEF Whole
<1>3. q3 \in Nat /\ d2 \in 0 .. Base - 1 /\ q2 = q3 * Base + d2
  BY <1>0, <1>2, Divided DEF Whole
<1>4. q2 = n \div (Base * Base)
  BY <1>0, Twice
<1>5. q3 = n \div (Base * Base * Base)
  <2>1. Base * Base \in Nat /\ Base * Base > 0 /\ Base * (Base * Base) = Base * Base * Base
    BY <1>0
  <2>2. (n \div (Base * Base)) \div Base = n \div (Base * (Base * Base))
    BY <1>0, <2>1, Twice
  <2> QED
    BY <1>4, <2>1, <2>2
<1>6. q3 < Base
  <2>1. Base * Base * Base \in Nat /\ Base * Base * Base > 0
    BY <1>0
  <2>2. n < Base * (Base * Base * Base)
    BY <1>0 DEF InFourBytes
  <2> QED
    BY <1>0, <1>5, <2>1, <2>2, QuotientBelow
<1>7. BigEndian(n) = <<q3, d2, d1, d0>>
  <2>1. q3 % Base = q3
    BY <1>0, <1>3, <1>6, OwnRemainder
  <2> QED
    BY <1>4, <1>5, <2>1 DEF BigEndian
<1> HIDE DEF q1, q2, q3, d0, d1, d2
<1>8. FromBigEndian(BigEndian(n)) = n
  BY <1>1, <1>2, <1>3, <1>7 DEF FromBigEndian
<1>9. q3 \in Bytes /\ d2 \in Bytes /\ d1 \in Bytes /\ d0 \in Bytes
  BY <1>0, <1>1, <1>2, <1>3, <1>6 DEF Bytes
<1> QED
  BY <1>7, <1>8, <1>9

\* The elements of a sequence of four.
LEMMA FourElements ==
  ASSUME NEW S, NEW b \in Seq(S), Len(b) = 4
  PROVE  /\ b[1] \in S /\ b[2] \in S /\ b[3] \in S /\ b[4] \in S
         /\ <<b[4], b[3], b[2], b[1]>> \in Seq(S)
  OBVIOUS

\* The same with the bytes turned round.
LEMMA LittleEndianInverse ==
  ASSUME NEW n \in Nat, InFourBytes(n)
  PROVE  /\ LittleEndian(n) \in Seq(Bytes) /\ Len(LittleEndian(n)) = 4
         /\ FromLittleEndian(LittleEndian(n)) = n
<1>1. /\ BigEndian(n) \in Seq(Bytes) /\ Len(BigEndian(n)) = 4
      /\ FromBigEndian(BigEndian(n)) = n
  BY BigEndianInverse
<1> DEFINE b == BigEndian(n)
<1> HIDE DEF b
<1>2. LittleEndian(n) = <<b[4], b[3], b[2], b[1]>>
  BY <1>1 DEF LittleEndian, Reverse, b
<1>3. LittleEndian(n) \in Seq(Bytes) /\ Len(LittleEndian(n)) = 4
  <2>1. <<b[4], b[3], b[2], b[1]>> \in Seq(Bytes)
    BY <1>1, FourElements DEF b
  <2> QED
    BY <1>2, <2>1
<1>4. FromLittleEndian(LittleEndian(n)) = FromBigEndian(b)
  <2>1. Reverse(<<b[4], b[3], b[2], b[1]>>) = [i \in 1 .. 4 |-> <<b[4], b[3], b[2], b[1]>>[5 - i]]
    BY DEF Reverse
  <2>2. /\ Reverse(<<b[4], b[3], b[2], b[1]>>)[1] = b[1]
        /\ Reverse(<<b[4], b[3], b[2], b[1]>>)[2] = b[2]
        /\ Reverse(<<b[4], b[3], b[2], b[1]>>)[3] = b[3]
        /\ Reverse(<<b[4], b[3], b[2], b[1]>>)[4] = b[4]
    BY <2>1
  <2> QED
    BY <1>2, <2>2 DEF FromLittleEndian, FromBigEndian
<1> QED
  BY <1>1, <1>3, <1>4 DEF b

-----------------------------------------------------------------------------
(* Messages *)

\* Sequences with the same elements are the same.
LEMMA SameElements ==
  ASSUME NEW S, NEW s \in Seq(S), NEW t \in Seq(S), Len(s) = Len(t),
         \A i \in 1 .. Len(s) : s[i] = t[i]
  PROVE  s = t
  OBVIOUS

\* A piece of a sequence.
LEMMA Piece ==
  ASSUME NEW S, NEW s \in Seq(S), NEW a \in 1 .. Len(s) + 1, NEW b \in a - 1 .. Len(s)
  PROVE  /\ SubSeq(s, a, b) \in Seq(S) /\ Len(SubSeq(s, a, b)) = b - a + 1
         /\ \A i \in 1 .. b - a + 1 : SubSeq(s, a, b)[i] = s[a + i - 1]
  OBVIOUS

LEMMA EmptyType ==
  ASSUME NEW S
  PROVE  <<>> \in Seq(S)
  OBVIOUS

\* Two sequences put together.
LEMMA Joined ==
  ASSUME NEW S, NEW s \in Seq(S), NEW t \in Seq(S)
  PROVE  /\ s \o t \in Seq(S) /\ Len(s \o t) = Len(s) + Len(t)
         /\ \A i \in 1 .. Len(s) : (s \o t)[i] = s[i]
         /\ \A i \in 1 .. Len(t) : (s \o t)[Len(s) + i] = t[i]
  OBVIOUS

\* The same as a predicate.
Join(S, s, t, c) ==
  /\ c \in Seq(S) /\ Len(c) = Len(s) + Len(t)
  /\ \A i \in 1 .. Len(s) : c[i] = s[i]
  /\ \A i \in 1 .. Len(t) : c[Len(s) + i] = t[i]

LEMMA JoinOf ==
  ASSUME NEW S, NEW s \in Seq(S), NEW t \in Seq(S)
  PROVE  Join(S, s, t, s \o t)
<1>1. /\ s \o t \in Seq(S) /\ Len(s \o t) = Len(s) + Len(t)
      /\ \A i \in 1 .. Len(s) : (s \o t)[i] = s[i]
      /\ \A i \in 1 .. Len(t) : (s \o t)[Len(s) + i] = t[i]
  BY Joined
<1> DEFINE c == s \o t
<1> HIDE DEF c
<1>2. /\ c \in Seq(S) /\ Len(c) = Len(s) + Len(t)
      /\ \A i \in 1 .. Len(s) : c[i] = s[i]
      /\ \A i \in 1 .. Len(t) : c[Len(s) + i] = t[i]
  BY <1>1, Zenon DEF c
<1>3. Join(S, s, t, c)
  BY <1>2 DEF Join
<1> QED
  BY <1>3 DEF c

\* What is put behind a sequence is its last element.
LEMMA LastOfJoined ==
  ASSUME NEW S, NEW s \in Seq(S), NEW x \in S
  PROVE  (s \o <<x>>)[Len(s) + 1] = x
  OBVIOUS

\* The length and the type.
LEMMA Header ==
  ASSUME NEW S, NEW L \in Seq(S), Len(L) = 4, NEW type \in S
  PROVE  /\ L \o <<type>> \in Seq(S) /\ Len(L \o <<type>>) = 5
         /\ (L \o <<type>>)[5] = type /\ SubSeq(L \o <<type>>, 1, 4) = L
<1> DEFINE h == L \o <<type>>
<1>1. h \in Seq(S) /\ Len(h) = 5 /\ \A i \in 1 .. 4 : h[i] = L[i]
  <2>1. <<type>> \in Seq(S) /\ Len(<<type>>) = 1
    OBVIOUS
  <2>2. h \in Seq(S) /\ Len(h) = Len(L) + Len(<<type>>) /\ \A i \in 1 .. Len(L) : h[i] = L[i]
    BY <2>1, Joined
  <2> HIDE DEF h
  <2> QED
    BY <2>1, <2>2
<1>5. h[5] = type
  <2>1. h[Len(L) + 1] = type
    BY LastOfJoined
  <2> HIDE DEF h
  <2> QED
    BY <2>1
<1> HIDE DEF h
<1>2. /\ SubSeq(h, 1, 4) \in Seq(S) /\ Len(SubSeq(h, 1, 4)) = 4
      /\ \A i \in 1 .. 4 : SubSeq(h, 1, 4)[i] = h[i]
  BY <1>1, Piece
<1>3. SubSeq(h, 1, 4) = L
  BY <1>1, <1>2, SameElements
<1> QED
  BY <1>1, <1>3, <1>5 DEF h

\* A part that lies in the first of two sequences.
LEMMA PieceOfFirst ==
  ASSUME NEW S, NEW s \in Seq(S), NEW t \in Seq(S),
         NEW a \in 1 .. Len(s) + 1, NEW b \in a - 1 .. Len(s)
  PROVE  SubSeq(s \o t, a, b) = SubSeq(s, a, b)
<1> DEFINE c == s \o t
<1>1. /\ c \in Seq(S) /\ Len(c) = Len(s) + Len(t)
      /\ \A i \in 1 .. Len(s) : c[i] = s[i]
  BY Joined
<1> HIDE DEF c
<1>2. /\ SubSeq(c, a, b) \in Seq(S) /\ Len(SubSeq(c, a, b)) = b - a + 1
      /\ \A i \in 1 .. b - a + 1 : SubSeq(c, a, b)[i] = c[a + i - 1]
  <2>1. a \in 1 .. Len(c) + 1 /\ b \in a - 1 .. Len(c)
    BY <1>1
  <2> QED
    BY <1>1, <2>1, Piece
<1>3. /\ SubSeq(s, a, b) \in Seq(S) /\ Len(SubSeq(s, a, b)) = b - a + 1
      /\ \A i \in 1 .. b - a + 1 : SubSeq(s, a, b)[i] = s[a + i - 1]
  BY Piece
<1>4. \A i \in 1 .. b - a + 1 : SubSeq(c, a, b)[i] = SubSeq(s, a, b)[i]
  BY <1>1, <1>2, <1>3
<1>5. SubSeq(c, a, b) = SubSeq(s, a, b)
  BY <1>2, <1>3, <1>4, SameElements
<1> QED
  BY <1>5 DEF c

\* What follows the first of two sequences is the second.
LEMMA PieceBehind ==
  ASSUME NEW S, NEW s \in Seq(S), NEW t \in Seq(S)
  PROVE  SubSeq(s \o t, Len(s) + 1, Len(s \o t)) = t
<1> DEFINE c == s \o t
           d == SubSeq(c, Len(s) + 1, Len(c))
<1>1. /\ c \in Seq(S) /\ Len(c) = Len(s) + Len(t)
      /\ \A i \in 1 .. Len(t) : c[Len(s) + i] = t[i]
  BY Joined
<1> HIDE DEF c
<1>2. /\ d \in Seq(S) /\ Len(d) = Len(t)
      /\ \A i \in 1 .. Len(t) : d[i] = c[Len(s) + i]
  BY <1>1, Piece
<1> HIDE DEF d
<1>3. d = t
  BY <1>1, <1>2, SameElements
<1> QED
  BY <1>3 DEF c, d

\* From the last element of the first of two sequences: that element, and
\* behind it the second.
LEMMA HeadAndTail ==
  ASSUME NEW S, NEW s \in Seq(S), NEW t \in Seq(S), s # <<>>
  PROVE  /\ Head(SubSeq(s \o t, Len(s), Len(s \o t))) = s[Len(s)]
         /\ Tail(SubSeq(s \o t, Len(s), Len(s \o t))) = t
<1> DEFINE c == s \o t
           l == Len(s)
           body == SubSeq(c, l, Len(c))
<1>0. l \in Nat /\ l > 0 /\ Len(t) \in Nat
  OBVIOUS
<1>1. /\ c \in Seq(S) /\ Len(c) = l + Len(t)
      /\ \A i \in 1 .. l : c[i] = s[i]
      /\ \A i \in 1 .. Len(t) : c[l + i] = t[i]
  BY Joined
<1> HIDE DEF c, l
<1>2. /\ body \in Seq(S) /\ Len(body) = Len(t) + 1
      /\ \A i \in 1 .. Len(t) + 1 : body[i] = c[l + i - 1]
  BY <1>0, <1>1, Piece
<1> HIDE DEF body
<1>3. Head(body) = s[l]
  BY <1>0, <1>1, <1>2
<1>4. /\ Tail(body) \in Seq(S) /\ Len(Tail(body)) = Len(t)
      /\ \A i \in 1 .. Len(t) : Tail(body)[i] = body[i + 1]
  BY <1>0, <1>2
<1>5. \A i \in 1 .. Len(t) : body[i + 1] = t[i]
  <2> SUFFICES ASSUME NEW i \in 1 .. Len(t) PROVE body[i + 1] = t[i]
    OBVIOUS
  <2>1. i + 1 \in 1 .. Len(t) + 1 /\ l + (i + 1) - 1 = l + i
    BY <1>0
  <2>2. body[i + 1] = c[l + (i + 1) - 1]
    BY <1>2, <2>1
  <2> QED
    BY <1>1, <2>1, <2>2
<1>6. Tail(body) = t
  BY <1>4, <1>5, SameElements
<1> QED
  BY <1>3, <1>6 DEF body, c, l

\* Where popMessage looks for the parts of a message and for what follows it.
InPlace(S, L, type, payload, rest, n, buffer) ==
  /\ buffer \in Seq(S) /\ Len(buffer) = n + 4 + Len(rest)
  /\ SubSeq(buffer, 1, 4) = L
  /\ Head(SubSeq(buffer, 5, n + 4)) = type
  /\ Tail(SubSeq(buffer, 5, n + 4)) = payload
  /\ SubSeq(buffer, n + 5, Len(buffer)) = rest

\* A length, a type and a payload, with something behind them: each is found
\* where popMessage looks for it.
LEMMA FoundInPlace ==
  ASSUME NEW S, NEW L \in Seq(S), Len(L) = 4, NEW type \in S,
         NEW payload \in Seq(S), NEW rest \in Seq(S)
  PROVE  InPlace(S, L, type, payload, rest,
                 Len(payload) + 1, L \o <<type>> \o payload \o rest)
<1> DEFINE n == Len(payload) + 1
           h == L \o <<type>>
           m == h \o payload
           buffer == m \o rest
<1>0. n \in Nat /\ n >= 1 /\ Len(payload) = n - 1 /\ Len(rest) \in Nat
  OBVIOUS
<1>1. h \in Seq(S) /\ Len(h) = 5 /\ h[5] = type /\ SubSeq(h, 1, 4) = L
  BY Header
<1> HIDE DEF h, n
<1>2. m \in Seq(S) /\ Len(m) = Len(h) + Len(payload)
  BY <1>1, Joined
<1>3. SubSeq(m, 1, 4) = L
  <2>0. 1 \in 1 .. Len(h) + 1 /\ 4 \in 1 - 1 .. Len(h)
    BY <1>1
  <2>1. SubSeq(m, 1, 4) = SubSeq(h, 1, 4)
    BY <1>1, <2>0, PieceOfFirst
  <2> QED
    BY <1>1, <2>1
<1>4. Head(SubSeq(m, 5, Len(m))) = type /\ Tail(SubSeq(m, 5, Len(m))) = payload
  <2>1. h # <<>>
    <3>1. Len(<<>>) = 0 /\ Len(h) # 0
      BY <1>1
    <3> QED
      BY <3>1, Zenon
  <2>2. /\ Head(SubSeq(h \o payload, Len(h), Len(h \o payload))) = h[Len(h)]
        /\ Tail(SubSeq(h \o payload, Len(h), Len(h \o payload))) = payload
    BY <1>1, <2>1, HeadAndTail
  <2> QED
    BY <1>1, <2>2
<1>5. Len(m) = n + 4
  BY <1>0, <1>1, <1>2
<1> HIDE DEF m
<1>6. buffer \in Seq(S) /\ Len(buffer) = Len(m) + Len(rest)
  BY <1>2, Joined
<1>7. SubSeq(buffer, 1, 4) = SubSeq(m, 1, 4)
  BY <1>0, <1>2, <1>5, PieceOfFirst
<1>8. SubSeq(buffer, 5, n + 4) = SubSeq(m, 5, n + 4)
  BY <1>0, <1>2, <1>5, PieceOfFirst
<1>9. SubSeq(buffer, Len(m) + 1, Len(buffer)) = rest
  BY <1>2, PieceBehind
<1>10. Len(m) + 1 = n + 5 /\ Len(buffer) = n + 4 + Len(rest)
  BY <1>0, <1>5, <1>6
<1>11. /\ SubSeq(buffer, 1, 4) = L
       /\ Head(SubSeq(buffer, 5, n + 4)) = type
       /\ Tail(SubSeq(buffer, 5, n + 4)) = payload
       /\ SubSeq(buffer, n + 5, Len(buffer)) = rest
  BY <1>3, <1>4, <1>5, <1>7, <1>8, <1>9, <1>10, Zenon
<1> QED
  BY <1>6, <1>10, <1>11 DEF m, h, n, InPlace

\* A part that holds the length holds the same length.
LEMMA SameStart ==
  ASSUME NEW S, NEW s \in Seq(S), NEW k \in 4 .. Len(s)
  PROVE  SubSeq(SubSeq(s, 1, k), 1, 4) = SubSeq(s, 1, 4)
<1> DEFINE part == SubSeq(s, 1, k)
<1>1. part \in Seq(S) /\ Len(part) = k /\ \A i \in 1 .. k : part[i] = s[i]
  BY Piece
<1> HIDE DEF part
<1>2. /\ SubSeq(part, 1, 4) \in Seq(S) /\ Len(SubSeq(part, 1, 4)) = 4
      /\ \A i \in 1 .. 4 : SubSeq(part, 1, 4)[i] = part[i]
  BY <1>1, Piece
<1>3. /\ SubSeq(s, 1, 4) \in Seq(S) /\ Len(SubSeq(s, 1, 4)) = 4
      /\ \A i \in 1 .. 4 : SubSeq(s, 1, 4)[i] = s[i]
  BY Piece
<1>4. SubSeq(part, 1, 4) = SubSeq(s, 1, 4)
  BY <1>1, <1>2, <1>3, SameElements
<1> QED
  BY <1>4 DEF part

\* popMessage takes a written message whole, its type and payload unchanged, and
\* leaves what follows it in the buffer, whatever the lengths: the receiver never
\* loses its place in the stream.
THEOREM MessageTaken ==
  ASSUME NEW type \in MSG_HELLO .. MSG_PING, NEW payload \in Seq(Bytes),
         NEW rest \in Seq(Bytes), Len(payload) + 1 <= MaxMessage,
         InFourBytes(Len(payload) + 1)
  PROVE  popMessage(write_message(type, payload) \o rest) =
           [kind |-> "message", type |-> type, payload |-> payload, rest |-> rest]
<1> DEFINE n == Len(payload) + 1
           L == LittleEndian(n)
           buffer == L \o <<type>> \o payload \o rest
<1>1. n \in 1 .. MaxMessage /\ n \in Nat /\ Len(rest) \in Nat /\ InFourBytes(n)
  BY BitstreamAssumption DEF InFourBytes
<1>2. L \in Seq(Bytes) /\ Len(L) = 4 /\ FromLittleEndian(L) = n
  BY <1>1, LittleEndianInverse
<1>3. type \in Bytes
  BY BitstreamAssumption DEF MSG_HELLO, MSG_PING, Bytes
<1> HIDE DEF L
<1>4. /\ Len(buffer) = n + 4 + Len(rest)
      /\ SubSeq(buffer, 1, 4) = L
      /\ Head(SubSeq(buffer, 5, n + 4)) = type
      /\ Tail(SubSeq(buffer, 5, n + 4)) = payload
      /\ SubSeq(buffer, n + 5, Len(buffer)) = rest
  <2>1. InPlace(Bytes, L, type, payload, rest, n, buffer)
    BY <1>2, <1>3, FoundInPlace, Zenon
  <2> QED
    BY <2>1 DEF InPlace
<1> HIDE DEF n, buffer
<1>5. /\ ~ (Len(buffer) < 5) /\ ~ (n < 1) /\ ~ (n > MaxMessage)
      /\ ~ (Len(buffer) < n + 4)
  BY <1>1, <1>4, BitstreamAssumption
<1>6. FromLittleEndian(SubSeq(buffer, 1, 4)) = n
  BY <1>2, <1>4
<1>7. popMessage(buffer) =
        [kind |-> "message", type |-> type, payload |-> payload, rest |-> rest]
  BY <1>4, <1>5, <1>6 DEF popMessage
<1>8. write_message(type, payload) \o rest = buffer
  BY DEF write_message, buffer, L, n
<1> QED
  BY <1>7, <1>8

\* The first k bytes of a message and of what follows it: from the fifth on they
\* begin with the length.
LEMMA PartSeen ==
  ASSUME NEW type \in MSG_HELLO .. MSG_PING, NEW payload \in Seq(Bytes),
         NEW rest \in Seq(Bytes), InFourBytes(Len(payload) + 1),
         NEW k \in 0 .. Len(payload) + 5 + Len(rest)
  PROVE  LET part == SubSeq(write_message(type, payload) \o rest, 1, k)
         IN /\ Len(part) = k
            /\ k >= 5 => FromLittleEndian(SubSeq(part, 1, 4)) = Len(payload) + 1
<1> DEFINE n == Len(payload) + 1
           L == LittleEndian(n)
           whole == L \o <<type>> \o payload \o rest
           part == SubSeq(whole, 1, k)
<1>1. n \in Nat /\ n >= 1 /\ InFourBytes(n)
  OBVIOUS
<1>2. L \in Seq(Bytes) /\ Len(L) = 4 /\ FromLittleEndian(L) = n
  BY <1>1, LittleEndianInverse
<1>3. type \in Bytes
  BY BitstreamAssumption DEF MSG_HELLO, MSG_PING, Bytes
<1>4. k \in 0 .. n + 4 + Len(rest)
  OBVIOUS
<1> HIDE DEF L
<1>5. /\ whole \in Seq(Bytes) /\ Len(whole) = n + 4 + Len(rest)
      /\ SubSeq(whole, 1, 4) = L
  <2>1. InPlace(Bytes, L, type, payload, rest, n, whole)
    BY <1>2, <1>3, FoundInPlace, Zenon
  <2> QED
    BY <2>1 DEF InPlace
<1> HIDE DEF n, whole
<1>6. Len(rest) \in Nat /\ Len(whole) = n + 4 + Len(rest)
  BY <1>1, <1>5
<1>7. 1 \in 1 .. Len(whole) + 1 /\ k \in 1 - 1 .. Len(whole)
  BY <1>1, <1>4, <1>6
<1>8. Len(part) = k
  BY <1>5, <1>7, Piece
<1>9. k >= 5 => SubSeq(part, 1, 4) = L
  <2>1. k >= 5 => k \in 4 .. Len(whole)
    BY <1>1, <1>4, <1>6
  <2> QED
    BY <1>5, <2>1, SameStart
<1>10. write_message(type, payload) \o rest = whole
  BY DEF write_message, whole, L, n
<1> HIDE DEF part
<1>11. Len(part) = k /\ (k >= 5 => FromLittleEndian(SubSeq(part, 1, 4)) = n)
  BY <1>2, <1>8, <1>9
<1> QED
  BY <1>10, <1>11 DEF part, n

\* Of a message that has not come whole popMessage takes nothing, and does not
\* refuse it either: the receiver waits for the rest.
THEOREM PartWaits ==
  ASSUME NEW type \in MSG_HELLO .. MSG_PING, NEW payload \in Seq(Bytes),
         NEW rest \in Seq(Bytes), InFourBytes(Len(payload) + 1),
         NEW k \in 0 .. Len(payload) + 4, k < 5 \/ Len(payload) + 1 <= MaxMessage
  PROVE  popMessage(SubSeq(write_message(type, payload) \o rest, 1, k)) = [kind |-> "wait"]
<1> DEFINE n == Len(payload) + 1
           part == SubSeq(write_message(type, payload) \o rest, 1, k)
<1>1. k \in 0 .. Len(payload) + 5 + Len(rest) /\ n \in Nat /\ n >= 1 /\ k < n + 4
  OBVIOUS
<1>2. Len(part) = k /\ (k >= 5 => FromLittleEndian(SubSeq(part, 1, 4)) = n)
  BY <1>1, PartSeen
<1> HIDE DEF part
<1>3. ASSUME k < 5 PROVE popMessage(part) = [kind |-> "wait"]
  BY <1>2, <1>3 DEF popMessage
<1>4. ASSUME k >= 5 PROVE popMessage(part) = [kind |-> "wait"]
  <2>1. MaxMessage \in Nat
    BY BitstreamAssumption
  <2>2. FromLittleEndian(SubSeq(part, 1, 4)) = n
    BY <1>2, <1>4
  <2> HIDE DEF n
  <2>3. ~ (Len(part) < 5) /\ ~ (n < 1) /\ ~ (n > MaxMessage) /\ n \in 1 .. MaxMessage
        /\ Len(part) < n + 4
    BY <1>1, <1>2, <1>4, <2>1 DEF n
  <2> QED
    BY <2>2, <2>3 DEF popMessage
<1> QED
  BY <1>3, <1>4 DEF part

\* A message that is too long is refused as soon as its header has come, and
\* only then: the receiver gives the connection up at no other message.
THEOREM OversizeRefused ==
  ASSUME NEW type \in MSG_HELLO .. MSG_PING, NEW payload \in Seq(Bytes),
         NEW rest \in Seq(Bytes), InFourBytes(Len(payload) + 1),
         Len(payload) + 1 > MaxMessage, NEW k \in 5 .. Len(payload) + 5 + Len(rest)
  PROVE  popMessage(SubSeq(write_message(type, payload) \o rest, 1, k)) = [kind |-> "bad"]
<1> DEFINE n == Len(payload) + 1
           part == SubSeq(write_message(type, payload) \o rest, 1, k)
<1>1. k \in 0 .. Len(payload) + 5 + Len(rest) /\ k >= 5
  OBVIOUS
<1>2. Len(part) = k /\ (k >= 5 => FromLittleEndian(SubSeq(part, 1, 4)) = n)
  BY <1>1, PartSeen
<1> HIDE DEF part
<1>3. FromLittleEndian(SubSeq(part, 1, 4)) = n /\ ~ (Len(part) < 5) /\ n > MaxMessage
       /\ n \notin 1 .. MaxMessage
  BY <1>1, <1>2, BitstreamAssumption
<1> HIDE DEF n
<1>4. popMessage(part) = [kind |-> "bad"]
  BY <1>3 DEF popMessage
<1> QED
  BY <1>4 DEF part
-----------------------------------------------------------------------------
(* Sequences put together *)

\* The sequences of ss put together, up to each of them.
Sums(f, S, ss) ==
  /\ f \in [0 .. Len(ss) -> Seq(S)] /\ f[0] = <<>>
  /\ \A k \in 1 .. Len(ss) : f[k] = f[k - 1] \o ss[k]

LEMMA SumsExist ==
  ASSUME NEW S, NEW ss \in Seq(Seq(S))
  PROVE  \E f : Sums(f, S, ss)
<1> DEFINE n == Len(ss)
           V == Seq(S)
           G == [k \in 1 .. n |-> [v \in V |-> v \o ss[k]]]
<1>0. n \in Nat /\ <<>> \in V
  OBVIOUS
<1>1. \A k \in 1 .. n : \A v \in V : v \o ss[k] \in V
  OBVIOUS
<1> HIDE DEF n, V
<1>2. G \in [1 .. n -> [V -> V]]
  BY <1>1
<1> HIDE DEF G
<1>3. PICK f : LoopValues(f, V, <<>>, n, G)
  <2>1. n \in Nat
    BY <1>0
  <2> QED
    BY <1>0, <1>2, <2>1, LoopExists
<1>4. ASSUME NEW k \in 1 .. n PROVE f[k] = f[k - 1] \o ss[k]
  <2>1. k - 1 \in 0 .. n /\ f[k - 1] \in V
    BY <1>0, <1>3 DEF LoopValues
  <2>2. G[k][f[k - 1]] = f[k - 1] \o ss[k]
    BY <2>1 DEF G
  <2> QED
    BY <1>3, <2>2 DEF LoopValues
<1>5. f \in [0 .. n -> V] /\ f[0] = <<>>
  BY <1>3 DEF LoopValues
<1> QED
  BY <1>4, <1>5 DEF Sums, n, V

\* There is one way to put them together.
Adds(f, ss, n) == f[0] = <<>> /\ \A k \in 1 .. n : f[k] = f[k - 1] \o ss[k]

LEMMA SumsUnique ==
  ASSUME NEW ss, NEW n \in Nat, NEW f, NEW g, Adds(f, ss, n), Adds(g, ss, n)
  PROVE  \A k \in 0 .. n : f[k] = g[k]
<1> DEFINE T == {k \in 0 .. n : f[k] = g[k]}
<1>1. 0 \in T
  BY DEF Adds
<1>2. ASSUME NEW k \in 0 .. n - 1, k \in T PROVE k + 1 \in T
  <2>1. k + 1 \in 1 .. n /\ (k + 1) - 1 = k /\ k + 1 \in 0 .. n
    OBVIOUS
  <2>2. f[k + 1] = f[k] \o ss[k + 1] /\ g[k + 1] = g[k] \o ss[k + 1]
    BY <2>1 DEF Adds
  <2> QED
    BY <1>2, <2>1, <2>2
<1> HIDE DEF T
<1>3. \A k \in 0 .. n : k \in T
  BY <1>1, <1>2, UpTo
<1> QED
  BY <1>3 DEF T

\* FlattenSeq puts all of them together.
LEMMA FlattenIsSum ==
  ASSUME NEW S, NEW ss \in Seq(Seq(S)), NEW f, Sums(f, S, ss)
  PROVE  FlattenSeq(ss) = f[Len(ss)]
<1> DEFINE n == Len(ss)
           Loop(h) == [i \in 1 .. n |-> IF i = 1 THEN ss[i] ELSE h[i - 1] \o ss[i]]
           flatten == CHOOSE h : h = Loop(h)
           g == [i \in 1 .. n |-> f[i]]
<1>0. n \in Nat /\ \A k \in 1 .. n : ss[k] \in Seq(S)
  OBVIOUS
<1>1. CASE n = 0
  <2>1. ss = <<>>
    BY <1>1
  <2> QED
    BY <1>1, <2>1 DEF Sums, FlattenSeq
<1>2. CASE n # 0
  <2> HIDE DEF n
  <2>1. f[0] = <<>> /\ \A k \in 1 .. n : f[k] = f[k - 1] \o ss[k]
    BY DEF Sums, n
  <2>2. ASSUME NEW i \in 1 .. n PROVE g[i] = Loop(g)[i]
    <3>1. CASE i = 1
      <4>0. 1 \in 1 .. n /\ 1 - 1 = 0
        BY <1>0, <1>2
      <4>1. f[1] = <<>> \o ss[1]
        BY <2>1, <4>0
      <4>2. <<>> \o ss[1] = ss[1]
        BY <1>0, <1>2
      <4> QED
        BY <3>1, <4>1, <4>2
    <3>2. CASE i # 1
      <4>1. i - 1 \in 1 .. n
        BY <1>0, <3>2
      <4> QED
        BY <2>1, <3>2, <4>1
    <3> QED
      BY <3>1, <3>2
  <2>3. g = Loop(g)
    BY <2>2
  <2>4. flatten = Loop(flatten)
    <3> HIDE DEF Loop
    <3> QED
      BY <2>3
  <2> HIDE DEF flatten
  <2>5. /\ flatten[1] = ss[1]
        /\ \A i \in 2 .. n : flatten[i] = flatten[i - 1] \o ss[i]
    <3>1. \A i \in 1 .. n : flatten[i] = IF i = 1 THEN ss[i] ELSE flatten[i - 1] \o ss[i]
      BY <2>4
    <3>2. 1 \in 1 .. n /\ \A i \in 2 .. n : i \in 1 .. n /\ i # 1
      BY <1>0, <1>2
    <3> QED
      BY <3>1, <3>2
  <2> DEFINE h == [i \in 0 .. n |-> IF i = 0 THEN <<>> ELSE flatten[i]]
  <2>6. ASSUME NEW k \in 1 .. n PROVE h[k] = h[k - 1] \o ss[k]
    <3>1. CASE k = 1
      <4>1. <<>> \o ss[1] = ss[1]
        BY <1>0, <1>2
      <4>2. h[k] = ss[1] /\ h[k - 1] = <<>>
        BY <1>0, <2>5, <3>1
      <4> QED
        BY <3>1, <4>1, <4>2
    <3>2. CASE k # 1
      <4>1. k \in 2 .. n /\ k - 1 \in 1 .. n /\ k \in 0 .. n /\ k # 0
            /\ k - 1 \in 0 .. n /\ k - 1 # 0
        BY <1>0, <3>2
      <4>2. h[k] = flatten[k] /\ h[k - 1] = flatten[k - 1]
        BY <4>1
      <4>3. flatten[k] = flatten[k - 1] \o ss[k]
        BY <2>5, <4>1
      <4> QED
        BY <4>2, <4>3
    <3> QED
      BY <3>1, <3>2
  <2>7. h[0] = <<>> /\ h[n] = flatten[n]
    BY <1>0, <1>2
  <2> HIDE DEF h
  <2>8. Adds(f, ss, n) /\ Adds(h, ss, n)
    BY <2>1, <2>6, <2>7 DEF Adds
  <2>9. \A k \in 0 .. n : f[k] = h[k]
    BY <1>0, <2>8, SumsUnique
  <2>10. f[n] = flatten[n]
    BY <1>0, <2>7, <2>9
  <2>11. FlattenSeq(ss) = flatten[n]
    BY <1>2 DEF FlattenSeq, flatten, n
  <2> QED
    BY <2>10, <2>11 DEF n
<1> QED
  BY <1>1, <1>2

\* Nothing, put together.
LEMMA FlattenEmpty == FlattenSeq(<<>>) = <<>>
  BY DEF FlattenSeq

LEMMA FlattenType ==
  ASSUME NEW S, NEW ss \in Seq(Seq(S))
  PROVE  FlattenSeq(ss) \in Seq(S)
<1>1. PICK f : Sums(f, S, ss)
  BY SumsExist
<1>2. FlattenSeq(ss) = f[Len(ss)]
  BY <1>1, FlattenIsSum
<1>3. Len(ss) \in 0 .. Len(ss)
  OBVIOUS
<1> QED
  BY <1>1, <1>2, <1>3 DEF Sums

\* Putting together is associative.
LEMMA JoinedTwice ==
  ASSUME NEW S, NEW s \in Seq(S), NEW t \in Seq(S), NEW u \in Seq(S)
  PROVE  (s \o t) \o u = s \o (t \o u)
  OBVIOUS

\* One sequence more behind the others.
LEMMA FlattenAppend ==
  ASSUME NEW S, NEW ss \in Seq(Seq(S)), NEW s \in Seq(S)
  PROVE  FlattenSeq(Append(ss, s)) = FlattenSeq(ss) \o s
<1> DEFINE n == Len(ss)
           tt == Append(ss, s)
<1>0. /\ n \in Nat /\ tt \in Seq(Seq(S)) /\ Len(tt) = n + 1
      /\ \A k \in 1 .. n : tt[k] = ss[k]
      /\ tt[n + 1] = s
  OBVIOUS
<1> HIDE DEF tt
<1>1. PICK f : Sums(f, S, ss)
  BY SumsExist
<1>2. PICK g : Sums(g, S, tt)
  BY <1>0, SumsExist
<1>3. FlattenSeq(ss) = f[n] /\ FlattenSeq(tt) = g[n + 1]
  BY <1>0, <1>1, <1>2, FlattenIsSum
<1>4. f[0] = <<>> /\ \A k \in 1 .. n : f[k] = f[k - 1] \o ss[k]
  BY <1>1 DEF Sums
<1>5. g[0] = <<>> /\ \A k \in 1 .. n + 1 : g[k] = g[k - 1] \o tt[k]
  BY <1>0, <1>2 DEF Sums
<1>6. \A k \in 0 .. n : f[k] = g[k]
  <2>0. \A k \in 1 .. n : g[k] = g[k - 1] \o ss[k]
    <3> SUFFICES ASSUME NEW k \in 1 .. n PROVE g[k] = g[k - 1] \o ss[k]
      OBVIOUS
    <3>1. k \in 1 .. n + 1 /\ tt[k] = ss[k]
      BY <1>0
    <3> QED
      BY <1>5, <3>1
  <2>1. n \in Nat
    BY <1>0
  <2> HIDE DEF n
  <2>2. Adds(f, ss, n) /\ Adds(g, ss, n)
    BY <1>4, <1>5, <2>0 DEF Adds
  <2> QED
    BY <2>1, <2>2, SumsUnique
<1>7. g[n + 1] = g[n] \o s
  <2>1. n + 1 \in 1 .. n + 1 /\ (n + 1) - 1 = n
    BY <1>0
  <2> QED
    BY <1>0, <1>5, <2>1
<1>8. f[n] = g[n]
  BY <1>0, <1>6
<1> QED
  BY <1>3, <1>7, <1>8 DEF tt

\* The first of several sequences.
LEMMA FlattenCons ==
  ASSUME NEW S, NEW s \in Seq(S), NEW ss \in Seq(Seq(S))
  PROVE  FlattenSeq(<<s>> \o ss) = s \o FlattenSeq(ss)
<1> DEFINE n == Len(ss)
           tt == <<s>> \o ss
<1>0. /\ n \in Nat /\ tt \in Seq(Seq(S)) /\ Len(tt) = n + 1
      /\ tt[1] = s /\ \A k \in 1 .. n : tt[k + 1] = ss[k] /\ ss[k] \in Seq(S)
  OBVIOUS
<1> HIDE DEF tt
<1>1. PICK f : Sums(f, S, ss)
  BY SumsExist
<1>2. PICK g : Sums(g, S, tt)
  BY <1>0, SumsExist
<1>3. FlattenSeq(ss) = f[n] /\ FlattenSeq(tt) = g[n + 1]
  BY <1>0, <1>1, <1>2, FlattenIsSum
<1>4. /\ f \in [0 .. n -> Seq(S)] /\ f[0] = <<>>
      /\ \A k \in 1 .. n : f[k] = f[k - 1] \o ss[k]
  BY <1>1 DEF Sums
<1>5. g[0] = <<>> /\ \A k \in 1 .. n + 1 : g[k] = g[k - 1] \o tt[k]
  BY <1>0, <1>2 DEF Sums
<1> HIDE DEF n
<1> DEFINE T == {k \in 0 .. n : g[k + 1] = s \o f[k]}
<1>6. 0 \in T
  <2>0. 1 \in 1 .. n + 1 /\ 1 - 1 = 0
    BY <1>0
  <2>1. g[1] = <<>> \o s
    BY <1>0, <1>5, <2>0
  <2>2. <<>> \o s = s /\ s \o <<>> = s
    OBVIOUS
  <2> QED
    BY <1>0, <1>4, <2>1, <2>2
<1>7. ASSUME NEW k \in 0 .. n - 1, k \in T PROVE k + 1 \in T
  <2>1. k + 1 \in 1 .. n /\ (k + 1) - 1 = k /\ k + 2 \in 1 .. n + 1
        /\ (k + 2) - 1 = k + 1 /\ k + 1 \in 0 .. n /\ k \in 0 .. n
    BY <1>0
  <2>2. f[k + 1] = f[k] \o ss[k + 1] /\ f[k] \in Seq(S) /\ ss[k + 1] \in Seq(S)
    BY <1>0, <1>4, <2>1
  <2>3. g[k + 2] = g[k + 1] \o ss[k + 1]
    <3>1. g[k + 2] = g[(k + 2) - 1] \o tt[k + 2]
      BY <1>5, <2>1
    <3>2. tt[(k + 1) + 1] = ss[k + 1] /\ (k + 1) + 1 = k + 2
      BY <1>0, <2>1
    <3> QED
      BY <2>1, <3>1, <3>2
  <2>4. g[k + 1] = s \o f[k]
    BY <1>7
  <2>5. (s \o f[k]) \o ss[k + 1] = s \o (f[k] \o ss[k + 1])
    <3>1. \A t \in Seq(S) : \A u \in Seq(S) : (s \o t) \o u = s \o (t \o u)
      BY JoinedTwice
    <3> QED
      BY <2>2, <3>1
  <2>6. g[k + 2] = s \o f[k + 1]
    BY <2>2, <2>3, <2>4, <2>5, Zenon
  <2>7. (k + 1) + 1 = k + 2
    BY <2>1
  <2> QED
    BY <2>1, <2>6, <2>7
<1> HIDE DEF T
<1>8. \A k \in 0 .. n : k \in T
  BY <1>0, <1>6, <1>7, UpTo
<1>9. g[n + 1] = s \o f[n]
  <2>1. n \in 0 .. n
    BY <1>0
  <2> QED
    BY <1>8, <2>1 DEF T
<1> QED
  BY <1>3, <1>9 DEF tt
\* Where each of several sequences is once they are put together: pos[k] is
\* where the k-th ends.
Pieces(pos, ss, all) ==
  LET n == Len(ss)
  IN /\ pos \in [0 .. n -> Nat] /\ pos[0] = 0 /\ pos[n] = Len(all)
     /\ \A k \in 1 .. n : pos[k] = pos[k - 1] + Len(ss[k])
     /\ \A k \in 0 .. n : pos[k] <= pos[n]
     /\ \A k \in 1 .. n : \A j \in 1 .. Len(ss[k]) : all[pos[k - 1] + j] = ss[k][j]

LEMMA PiecesInPlace ==
  ASSUME NEW S, NEW ss \in Seq(Seq(S))
  PROVE  \E pos : Pieces(pos, ss, FlattenSeq(ss))
<1> DEFINE n == Len(ss)
<1>0. n \in Nat /\ \A k \in 1 .. n : ss[k] \in Seq(S)
  OBVIOUS
<1>1. PICK f : Sums(f, S, ss)
  BY SumsExist
<1>2. FlattenSeq(ss) = f[n]
  BY <1>1, FlattenIsSum
<1>3. /\ f \in [0 .. n -> Seq(S)] /\ f[0] = <<>>
      /\ \A k \in 1 .. n : f[k] = f[k - 1] \o ss[k]
  BY <1>1 DEF Sums
<1> HIDE DEF n
<1> DEFINE pos == [k \in 0 .. n |-> Len(f[k])]
           InPiece(m) == \A k \in 1 .. m : \A j \in 1 .. Len(ss[k]) : f[m][pos[k - 1] + j] = ss[k][j]
           Below(m) == \A k \in 0 .. m : pos[k] <= pos[m]
           T == {m \in 0 .. n : InPiece(m) /\ Below(m)}
<1>4. pos \in [0 .. n -> Nat] /\ pos[0] = 0 /\ pos[n] = Len(f[n])
  BY <1>0, <1>3
<1>5. ASSUME NEW k \in 1 .. n
      PROVE  /\ k - 1 \in 0 .. n /\ f[k - 1] \in Seq(S) /\ ss[k] \in Seq(S)
             /\ pos[k] = pos[k - 1] + Len(ss[k])
             /\ pos[k - 1] = Len(f[k - 1])
             /\ \A i \in 1 .. Len(f[k - 1]) : f[k][i] = f[k - 1][i]
             /\ \A i \in 1 .. Len(ss[k]) : f[k][Len(f[k - 1]) + i] = ss[k][i]
  <2>1. k - 1 \in 0 .. n /\ k \in 0 .. n
    BY <1>0
  <2>2. f[k - 1] \in Seq(S) /\ ss[k] \in Seq(S) /\ f[k] = f[k - 1] \o ss[k]
    BY <1>0, <1>3, <2>1
  <2>3. pos[k] = Len(f[k]) /\ pos[k - 1] = Len(f[k - 1])
    BY <2>1
  <2> HIDE DEF pos
  <2>4. /\ Len(f[k]) = Len(f[k - 1]) + Len(ss[k])
        /\ \A i \in 1 .. Len(f[k - 1]) : f[k][i] = f[k - 1][i]
        /\ \A i \in 1 .. Len(ss[k]) : f[k][Len(f[k - 1]) + i] = ss[k][i]
    <3> DEFINE a == f[k - 1]
               b == ss[k]
    <3>1. a \in Seq(S) /\ b \in Seq(S) /\ f[k] = a \o b
      BY <2>2
    <3> HIDE DEF a, b
    <3>2. /\ Len(a \o b) = Len(a) + Len(b)
          /\ \A i \in 1 .. Len(a) : (a \o b)[i] = a[i]
          /\ \A i \in 1 .. Len(b) : (a \o b)[Len(a) + i] = b[i]
      BY <3>1, Joined
    <3> QED
      BY <3>1, <3>2 DEF a, b
  <2> QED
    BY <2>1, <2>2, <2>3, <2>4
<1> HIDE DEF pos
<1>6. 0 \in T
  BY <1>0, <1>4
<1>7. ASSUME NEW m \in 0 .. n - 1, m \in T PROVE m + 1 \in T
  <2>1. m + 1 \in 1 .. n /\ (m + 1) - 1 = m /\ m \in 0 .. n /\ m + 1 \in 0 .. n
    BY <1>0
  <2>2. InPiece(m) /\ Below(m)
    BY <1>7
  <2>3. /\ f[m] \in Seq(S) /\ ss[m + 1] \in Seq(S)
        /\ pos[m + 1] = pos[m] + Len(ss[m + 1]) /\ pos[m] = Len(f[m])
        /\ \A i \in 1 .. Len(f[m]) : f[m + 1][i] = f[m][i]
        /\ \A i \in 1 .. Len(ss[m + 1]) : f[m + 1][Len(f[m]) + i] = ss[m + 1][i]
    BY <1>5, <2>1
  <2>4. pos[m] \in Nat /\ pos[m + 1] \in Nat /\ Len(ss[m + 1]) \in Nat /\ pos[m] <= pos[m + 1]
    <3>1. pos[m] \in Nat /\ pos[m + 1] \in Nat
      BY <1>4, <2>1
    <3>2. Len(ss[m + 1]) \in Nat
      BY <2>3
    <3>3. pos[m + 1] = pos[m] + Len(ss[m + 1])
      BY <2>3
    <3> QED
      BY <3>1, <3>2, <3>3
  <2>5. Below(m + 1)
    <3> SUFFICES ASSUME NEW k \in 0 .. m + 1 PROVE pos[k] <= pos[m + 1]
      OBVIOUS
    <3>1. CASE k = m + 1
      BY <1>4, <2>1, <3>1
    <3>2. CASE k # m + 1
      <4>0. k \in 0 .. m /\ k \in 0 .. n
        BY <1>0, <3>2
      <4>1. k \in 0 .. m /\ pos[k] \in Nat /\ pos[m + 1] \in Nat
        BY <1>4, <2>4, <4>0
      <4>2. pos[k] <= pos[m]
        BY <2>2, <4>1
      <4> QED
        BY <2>4, <4>1, <4>2
    <3> QED
      BY <3>1, <3>2
  <2>6. InPiece(m + 1)
    <3> SUFFICES ASSUME NEW k \in 1 .. m + 1, NEW j \in 1 .. Len(ss[k])
                 PROVE  f[m + 1][pos[k - 1] + j] = ss[k][j]
      OBVIOUS
    <3>1. CASE k = m + 1
      <4>1. k - 1 = m /\ j \in 1 .. Len(ss[m + 1])
        BY <2>1, <3>1
      <4> QED
        BY <2>3, <3>1, <4>1
    <3>2. CASE k # m + 1
      <4>1. k \in 1 .. m /\ k \in 1 .. n /\ k - 1 \in 0 .. n
        BY <1>0, <3>2
      <4>2. pos[k] = pos[k - 1] + Len(ss[k]) /\ ss[k] \in Seq(S)
        BY <1>5, <4>1
      <4>3. pos[k] <= pos[m]
        BY <2>2, <4>1
      <4>4. pos[k - 1] \in Nat /\ pos[k] \in Nat /\ Len(ss[k]) \in Nat
        <5>1. k \in 0 .. n
          BY <1>0, <4>1
        <5>2. pos[k - 1] \in Nat /\ pos[k] \in Nat
          BY <1>4, <4>1, <5>1
        <5>3. Len(ss[k]) \in Nat
          BY <4>2
        <5> QED
          BY <5>2, <5>3
      <4>5. pos[k - 1] + j \in 1 .. Len(f[m])
        <5>1. pos[m] = Len(f[m]) /\ pos[m] \in Nat /\ pos[k] = pos[k - 1] + Len(ss[k])
          BY <2>3, <2>4, <4>2
        <5> QED
          BY <4>3, <4>4, <5>1
      <4>6. f[m][pos[k - 1] + j] = ss[k][j]
        BY <2>2, <4>1
      <4> QED
        BY <2>3, <4>5, <4>6
    <3> QED
      BY <3>1, <3>2
  <2> QED
    BY <2>1, <2>5, <2>6
<1> HIDE DEF T
<1>8. \A m \in 0 .. n : m \in T
  BY <1>0, <1>6, <1>7, UpTo
<1>9. InPiece(n) /\ Below(n)
  <2>1. n \in 0 .. n
    BY <1>0
  <2> QED
    BY <1>8, <2>1 DEF T
<1>10. \A k \in 1 .. n : pos[k] = pos[k - 1] + Len(ss[k])
  BY <1>5
<1>11. Pieces(pos, ss, f[n])
  BY <1>4, <1>9, <1>10 DEF Pieces, n
<1> QED
  BY <1>2, <1>11
-----------------------------------------------------------------------------
(* Functions of a position that look at later positions only *)

\* Induction from n down, over a set.
LEMMA Downward ==
  ASSUME NEW n \in Nat, NEW S,
         \A p \in 0 .. n : (\A q \in p + 1 .. n : q \in S) => p \in S
  PROVE  \A p \in 0 .. n : p \in S
<1> DEFINE T == {k \in Nat : k <= n /\ n - k \notin S}
<1> SUFFICES ASSUME NEW p \in 0 .. n, p \notin S PROVE FALSE
  OBVIOUS
<1>1. n - p \in T
  <2>1. n - p \in Nat /\ n - p <= n /\ n - (n - p) = p
    OBVIOUS
  <2> QED
    BY <2>1
<1>2. PICK x \in T : \A y \in T : x <= y
  <2>1. T \in SUBSET Nat /\ T # {}
    BY <1>1
  <2> HIDE DEF T
  <2> QED
    BY <2>1, LeastElement
<1>3. x \in Nat /\ n - x \in 0 .. n /\ n - x \notin S
  OBVIOUS
<1>4. ASSUME NEW q \in n - x + 1 .. n PROVE q \in S
  <2>1. n - q \in Nat /\ n - q <= n /\ n - q < x /\ n - (n - q) = q
    BY <1>3
  <2>2. n - q \notin T
    BY <1>2, <1>3, <2>1
  <2> QED
    BY <2>1, <2>2
<1> QED
  BY <1>3, <1>4

\* G[p] looks at values behind p only.
LooksBehind(G, V, n) ==
  /\ G \in [0 .. n -> [[0 .. n -> V] -> V]]
  /\ \A p \in 0 .. n : \A c, d \in [0 .. n -> V] :
       (\A q \in p + 1 .. n : c[q] = d[q]) => G[p][c] = G[p][d]

\* Then there is a function that it describes.
LEMMA DownExists ==
  ASSUME NEW V, NEW v \in V, NEW n \in Nat, NEW G, LooksBehind(G, V, n)
  PROVE  \E c \in [0 .. n -> V] : \A p \in 0 .. n : c[p] = G[p][c]
<1> DEFINE F == [0 .. n -> V]
           From(c, k) == \A p \in 0 .. n : p > n - k => c[p] = G[p][c]
           S == {k \in 0 .. n + 1 : \E c \in F : From(c, k)}
<1>0. n + 1 \in Nat
  OBVIOUS
<1>1. 0 \in S
  <2>1. [p \in 0 .. n |-> v] \in F
    OBVIOUS
  <2>2. \A c \in F : From(c, 0)
    OBVIOUS
  <2>3. 0 \in 0 .. n + 1
    OBVIOUS
  <2> HIDE DEF F, From
  <2> QED
    BY <2>1, <2>2, <2>3
<1>2. ASSUME NEW k \in 0 .. (n + 1) - 1, k \in S PROVE k + 1 \in S
  <2>1. PICK c \in F : From(c, k)
    BY <1>2
  <2> DEFINE m == n - k
             d == [c EXCEPT ![m] = G[m][c]]
  <2>2. m \in 0 .. n /\ k + 1 \in 0 .. n + 1 /\ m + 1 > m /\ n - (k + 1) = m - 1
    OBVIOUS
  <2>3. G[m] \in [F -> V] /\ G[m][c] \in V
    BY <2>2 DEF LooksBehind
  <2>4. d \in F /\ d[m] = G[m][c] /\ \A p \in 0 .. n : p # m => d[p] = c[p]
    BY <2>2, <2>3
  <2> HIDE DEF d
  <2>5. ASSUME NEW p \in 0 .. n, p >= m PROVE G[p][d] = G[p][c]
    <3>1. \A q \in p + 1 .. n : d[q] = c[q]
      <4> SUFFICES ASSUME NEW q \in p + 1 .. n PROVE d[q] = c[q]
        OBVIOUS
      <4>1. q \in 0 .. n /\ q # m
        BY <2>2, <2>5
      <4> QED
        BY <2>4, <4>1
    <3> QED
      BY <2>4, <3>1 DEF LooksBehind
  <2>6. ASSUME NEW p \in 0 .. n, p > n - (k + 1) PROVE d[p] = G[p][d]
    <3>1. CASE p = m
      BY <2>2, <2>4, <2>5, <3>1
    <3>2. CASE p # m
      <4>1. p > n - k /\ p >= m
        BY <2>2, <2>6, <3>2
      <4>2. c[p] = G[p][c]
        BY <2>1, <4>1
      <4> QED
        BY <2>4, <2>5, <3>2, <4>1, <4>2
    <3> QED
      BY <3>1, <3>2
  <2>7. From(d, k + 1)
    BY <2>6
  <2> HIDE DEF F, From
  <2> QED
    BY <2>2, <2>4, <2>7
<1> HIDE DEF S
<1>3. \A k \in 0 .. n + 1 : k \in S
  BY <1>0, <1>1, <1>2, UpTo
<1>4. n + 1 \in S
  BY <1>0, <1>3
<1>5. PICK c \in F : From(c, n + 1)
  BY <1>4 DEF S
<1>6. \A p \in 0 .. n : p > n - (n + 1)
  OBVIOUS
<1> QED
  BY <1>5, <1>6
-----------------------------------------------------------------------------
(* to_annex_b *)

\* Four bytes are a length.
LEMMA LengthOfBytes ==
  ASSUME NEW s \in Seq(Bytes), NEW p \in 0 .. Len(s), p + 4 <= Len(s)
  PROVE  FromBigEndian(SubSeq(s, p + 1, p + 4)) \in Nat
<1> DEFINE b == SubSeq(s, p + 1, p + 4)
<1>1. b \in Seq(Bytes) /\ Len(b) = 4
  <2>1. p + 1 \in 1 .. Len(s) + 1 /\ p + 4 \in (p + 1) - 1 .. Len(s)
    OBVIOUS
  <2>2. b \in Seq(Bytes) /\ Len(b) = (p + 4) - (p + 1) + 1
    BY <2>1, Piece
  <2> QED
    BY <2>2
<1> HIDE DEF b
<1>2. b[1] \in Bytes /\ b[2] \in Bytes /\ b[3] \in Bytes /\ b[4] \in Bytes
  BY <1>1, FourElements
<1>3. b[1] \in Nat /\ b[2] \in Nat /\ b[3] \in Nat /\ b[4] \in Nat /\ Base \in Nat
  BY <1>2, BitstreamAssumption DEF Bytes
<1>4. \A x, y \in Nat : x * Base + y \in Nat
  BY <1>3
<1>5. b[1] * Base + b[2] \in Nat
  BY <1>3, <1>4
<1>6. (b[1] * Base + b[2]) * Base + b[3] \in Nat
  BY <1>3, <1>4, <1>5
<1>7. FromBigEndian(b) \in Nat
  BY <1>3, <1>4, <1>6 DEF FromBigEndian
<1> QED
  BY <1>7 DEF b

\* What the units from a position on become: nothing, or bytes.
Conversions == {<<>>} \cup {<<[bytes |-> b]>> : b \in Seq(Bytes)}

UnitEnd(data, pos) == pos + 4 + FromBigEndian(SubSeq(data, pos + 1, pos + 4))

\* One turn of the conversion.
Convert(data, pos, c) ==
  IF pos = Len(data)
  THEN <<[bytes |-> <<>>]>>
  ELSE IF pos + 4 > Len(data) \/ FromBigEndian(SubSeq(data, pos + 1, pos + 4)) = 0
            \/ UnitEnd(data, pos) > Len(data) \/ c[UnitEnd(data, pos)] = <<>>
       THEN <<>>
       ELSE <<[bytes |-> <<0, 0, 0, 1>> \o SubSeq(data, pos + 5, UnitEnd(data, pos))
                           \o c[UnitEnd(data, pos)][1].bytes]>>

LEMMA ConvertTurn ==
  ASSUME NEW data \in Seq(Bytes), NEW pos \in 0 .. Len(data),
         NEW c \in [0 .. Len(data) -> Conversions]
  PROVE  Convert(data, pos, c) \in Conversions
<1> DEFINE n == Len(data)
           end == UnitEnd(data, pos)
<1>0. n \in Nat /\ <<>> \in Seq(Bytes)
  OBVIOUS
<1>1. CASE pos = n
  <2>1. Convert(data, pos, c) = <<[bytes |-> <<>>]>>
    BY <1>1 DEF Convert
  <2> QED
    BY <1>0, <2>1 DEF Conversions
<1>2. CASE pos # n /\ pos + 4 > n
  <2>1. Convert(data, pos, c) = <<>>
    BY <1>0, <1>2 DEF Convert
  <2> QED
    BY <2>1 DEF Conversions
<1>3. CASE pos # n /\ pos + 4 <= n
  <2>1. pos < n
    BY <1>0, <1>3
  <2>2. FromBigEndian(SubSeq(data, pos + 1, pos + 4)) \in Nat
    BY <1>3, LengthOfBytes
  <2>3. end \in Nat /\ end >= pos + 4
    BY <2>2 DEF UnitEnd
  <2>4. CASE \/ FromBigEndian(SubSeq(data, pos + 1, pos + 4)) = 0
             \/ end > n \/ c[end] = <<>>
    <3>1. Convert(data, pos, c) = <<>>
      BY <1>3, <2>1, <2>4 DEF Convert
    <3> QED
      BY <3>1 DEF Conversions
  <2>5. CASE ~ (\/ FromBigEndian(SubSeq(data, pos + 1, pos + 4)) = 0
                \/ end > n \/ c[end] = <<>>)
    <3> DEFINE unit == SubSeq(data, pos + 5, end)
               behind == c[end][1].bytes
               code == <<0, 0, 0, 1>>
    <3>1. Convert(data, pos, c) = <<[bytes |-> code \o unit \o behind]>>
      <4>1. /\ pos # n /\ ~ (pos + 4 > n)
            /\ ~ (FromBigEndian(SubSeq(data, pos + 1, pos + 4)) = 0)
            /\ ~ (end > n) /\ ~ (c[end] = <<>>)
        BY <1>0, <1>3, <2>5
      <4> HIDE DEF end, n
      <4> QED
        BY <4>1, Zenon DEF Convert, end, n
    <3>2. end \in 0 .. n
      BY <1>0, <2>3, <2>5
    <3> HIDE DEF end
    <3>3. unit \in Seq(Bytes)
      <4>1. pos + 5 \in 1 .. n + 1 /\ end \in (pos + 5) - 1 .. n
        BY <1>3, <2>3, <3>2
      <4> QED
        BY <4>1, Piece
    <3>4. behind \in Seq(Bytes)
      <4>1. c[end] \in Conversions /\ c[end] # <<>>
        BY <2>5, <3>2
      <4>2. PICK b \in Seq(Bytes) : c[end] = <<[bytes |-> b]>>
        BY <4>1 DEF Conversions
      <4> QED
        BY <4>2
    <3>5. code \in Seq(Bytes)
      <4>1. 0 \in Bytes /\ 1 \in Bytes
        BY BitstreamAssumption DEF Bytes
      <4> QED
        BY <4>1
    <3> HIDE DEF unit, behind, code
    <3>6. code \o unit \o behind \in Seq(Bytes)
      BY <3>3, <3>4, <3>5
    <3> QED
      BY <3>1, <3>6 DEF Conversions
  <2> QED
    BY <2>4, <2>5
<1> QED
  BY <1>0, <1>1, <1>2, <1>3

\* A turn looks at what is behind its unit only.
LEMMA ConvertLooksBehind ==
  ASSUME NEW data \in Seq(Bytes), NEW pos \in 0 .. Len(data), NEW c, NEW d,
         \A q \in pos + 1 .. Len(data) : c[q] = d[q]
  PROVE  Convert(data, pos, c) = Convert(data, pos, d)
<1> DEFINE n == Len(data)
           end == UnitEnd(data, pos)
<1>0. n \in Nat
  OBVIOUS
<1>1. CASE pos = n \/ pos + 4 > n \/ end > n
  <2>1. CASE pos = n
    BY <2>1 DEF Convert
  <2>2. CASE pos + 4 > n
    BY <1>0, <2>2 DEF Convert
  <2>3. CASE end > n
    BY <1>0, <2>3 DEF Convert
  <2> QED
    BY <1>1, <2>1, <2>2, <2>3
<1>2. CASE ~ (pos = n \/ pos + 4 > n \/ end > n)
  <2>1. pos + 4 <= n
    BY <1>0, <1>2
  <2>2. FromBigEndian(SubSeq(data, pos + 1, pos + 4)) \in Nat
    BY <2>1, LengthOfBytes
  <2>3. end \in Nat /\ end >= pos + 4
    BY <2>2 DEF UnitEnd
  <2> HIDE DEF end
  <2>4. end \in pos + 1 .. n
    BY <1>0, <1>2, <2>3
  <2>5. c[end] = d[end]
    BY <2>4
  <2> QED
    BY <2>5 DEF Convert, end
<1> QED
  BY <1>1, <1>2

\* to_annex_b with the values of its conversion.
Converted(data, c) ==
  /\ c \in [0 .. Len(data) -> Conversions]
  /\ \A pos \in 0 .. Len(data) : c[pos] = Convert(data, pos, c)
  /\ to_annex_b(data) =
       IF HasStartCode(data) \/ c[0] = <<>> THEN data ELSE c[0][1].bytes

LEMMA ConversionExists ==
  ASSUME NEW data \in Seq(Bytes)
  PROVE  \E c : Converted(data, c)
<1> DEFINE n == Len(data)
           F == [0 .. n -> Conversions]
           G == [pos \in 0 .. n |-> [c \in F |-> Convert(data, pos, c)]]
           Loop(c) == [pos \in 0 .. n |-> Convert(data, pos, c)]
           converted == CHOOSE c : c = Loop(c)
<1>0. n \in Nat /\ <<>> \in Conversions
  BY DEF Conversions
<1>1. \A pos \in 0 .. n : \A c \in F : Convert(data, pos, c) \in Conversions
  BY ConvertTurn
<1>3. LooksBehind(G, Conversions, n)
  <2>1. G \in [0 .. n -> [F -> Conversions]]
    BY <1>1
  <2>2. \A pos \in 0 .. n : \A c \in F : G[pos][c] = Convert(data, pos, c)
    OBVIOUS
  <2>3. ASSUME NEW pos \in 0 .. n, NEW c \in F, NEW d \in F,
               \A q \in pos + 1 .. n : c[q] = d[q]
        PROVE  G[pos][c] = G[pos][d]
    <3>1. Convert(data, pos, c) = Convert(data, pos, d)
      BY <2>3, ConvertLooksBehind
    <3> HIDE DEF G, F
    <3> QED
      BY <2>2, <3>1
  <2> HIDE DEF G, n
  <2> QED
    BY <2>1, <2>3 DEF LooksBehind
<1> HIDE DEF n
<1>4. PICK g \in F : \A pos \in 0 .. n : g[pos] = G[pos][g]
  <2> HIDE DEF G
  <2> QED
    BY <1>0, <1>3, DownExists
<1>5. g = Loop(g)
  <2>1. \A pos \in 0 .. n : g[pos] = Convert(data, pos, g)
    BY <1>4
  <2> QED
    BY <2>1
<1>6. converted = Loop(converted)
  <2> HIDE DEF Loop
  <2> QED
    BY <1>5
<1>7. to_annex_b(data) = IF HasStartCode(data) \/ converted[0] = <<>> THEN data
                         ELSE converted[0][1].bytes
  BY DEF to_annex_b, Convert, UnitEnd, converted, n
<1> HIDE DEF converted
<1>8. \A pos \in 0 .. n : converted[pos] = g[pos]
  <2> DEFINE S == {pos \in 0 .. n : converted[pos] = g[pos]}
  <2>1. ASSUME NEW pos \in 0 .. n, \A q \in pos + 1 .. n : q \in S PROVE pos \in S
    <3>1. \A q \in pos + 1 .. n : converted[q] = g[q]
      BY <2>1
    <3>2. Convert(data, pos, converted) = Convert(data, pos, g)
      BY <3>1, ConvertLooksBehind DEF n
    <3>3. converted[pos] = Convert(data, pos, converted) /\ g[pos] = Convert(data, pos, g)
      BY <1>5, <1>6
    <3> QED
      BY <3>2, <3>3
  <2> HIDE DEF S
  <2>2. \A pos \in 0 .. n : pos \in S
    BY <1>0, <2>1, Downward
  <2> QED
    BY <2>2 DEF S
<1>9. converted = g
  BY <1>6, <1>8
<1>10. Converted(data, g)
  <2>1. \A pos \in 0 .. n : g[pos] = Convert(data, pos, g)
    BY <1>5
  <2> QED
    BY <1>7, <1>9, <2>1 DEF Converted, n
<1> QED
  BY <1>10

\* to_annex_b returns bytes.
LEMMA ConversionType ==
  ASSUME NEW data \in Seq(Bytes)
  PROVE  to_annex_b(data) \in Seq(Bytes)
<1>1. PICK c : Converted(data, c)
  BY ConversionExists
<1>2. c[0] \in Conversions
  <2>1. 0 \in 0 .. Len(data)
    OBVIOUS
  <2> QED
    BY <1>1, <2>1 DEF Converted
<1>3. CASE HasStartCode(data) \/ c[0] = <<>>
  BY <1>1, <1>3 DEF Converted
<1>4. CASE ~ (HasStartCode(data) \/ c[0] = <<>>)
  <2>1. PICK b \in Seq(Bytes) : c[0] = <<[bytes |-> b]>>
    BY <1>2, <1>4 DEF Conversions
  <2> QED
    BY <1>1, <1>4, <2>1 DEF Converted
<1> QED
  BY <1>3, <1>4
-----------------------------------------------------------------------------
(* The payloads *)

SmallBytes == {0, 1} \cup {MSG_HELLO, MSG_VIDEO, MSG_INFO, MSG_TOUCH, MSG_PING}

\* Small numbers are bytes, and fit in four of them.
LEMMA Small ==
  /\ SmallBytes \subseteq Bytes /\ \A n \in 0 .. 8 : InFourBytes(n)
  /\ Base \in Nat /\ Base > 8
  /\ \A n \in Nat : n <= 10 * Base => InFourBytes(n)
<1>1. Base \in Nat /\ Base > 8
  BY BitstreamAssumption
<1>2. Base * Base \in Nat /\ Base * Base >= 9 * Base
  BY <1>1
<1>3. Base * Base * Base \in Nat /\ Base * Base * Base >= 9 * (Base * Base)
  <2> DEFINE h == Base * Base
  <2>1. h \in Nat
    BY <1>2
  <2> HIDE DEF h
  <2>2. h * Base \in Nat /\ h * Base >= 9 * h
    BY <1>1, <2>1
  <2> QED
    BY <2>2 DEF h
<1>4. Base * Base * Base * Base \in Nat /\ Base * Base * Base * Base >= 9 * (Base * Base * Base)
  <2> DEFINE h == Base * Base * Base
  <2>1. h \in Nat
    BY <1>3
  <2> HIDE DEF h
  <2>2. h * Base \in Nat /\ h * Base >= 9 * h
    BY <1>1, <2>1
  <2> QED
    BY <2>2 DEF h
<1>5. 10 * Base < Base * Base * Base * Base
  <2> DEFINE a == Base * Base
             b == Base * Base * Base
             c == Base * Base * Base * Base
  <2>1. /\ a \in Nat /\ b \in Nat /\ c \in Nat
        /\ a >= 9 * Base /\ b >= 9 * a /\ c >= 9 * b
    BY <1>2, <1>3, <1>4
  <2> HIDE DEF a, b, c
  <2>2. 10 * Base < c
    BY <1>1, <2>1
  <2> QED
    BY <2>2 DEF c
<1>6. ASSUME NEW n \in Nat, n <= 10 * Base PROVE InFourBytes(n)
  <2> DEFINE c == Base * Base * Base * Base
  <2>1. c \in Nat /\ 10 * Base < c
    BY <1>4, <1>5
  <2> HIDE DEF c
  <2>2. n < c
    BY <1>1, <1>6, <2>1
  <2> QED
    BY <2>2 DEF c, InFourBytes
<1>7. \A n \in 0 .. 8 : InFourBytes(n)
  <2>1. \A n \in 0 .. 8 : n \in Nat /\ n <= 10 * Base
    BY <1>1
  <2> QED
    BY <1>6, <2>1
<1>8. SmallBytes \subseteq Bytes
  BY <1>1 DEF SmallBytes, Bytes, MSG_HELLO, MSG_VIDEO, MSG_INFO, MSG_TOUCH, MSG_PING
<1> QED
  BY <1>1, <1>6, <1>7, <1>8

\* The client finds in a video payload the access unit that was put there.
LEMMA VideoPayload ==
  ASSUME NEW keyframe, NEW h264 \in Seq(Bytes)
  PROVE  LET payload == make_video_payload(keyframe, 2, 2, h264)
         IN /\ payload \in Seq(Bytes) /\ Len(payload) = 9 + Len(h264)
            /\ parseVideoPayload(payload) = <<h264>>
<1> DEFINE flag == IF keyframe THEN 1 ELSE 0
           w == LittleEndian(2)
           head == <<flag>> \o w \o w
           payload == head \o h264
<1>1. w \in Seq(Bytes) /\ Len(w) = 4
  <2>1. 2 \in Nat /\ InFourBytes(2)
    BY Small
  <2> QED
    BY <2>1, LittleEndianInverse
<1>2. flag \in Bytes
  BY Small DEF SmallBytes
<1> HIDE DEF w, flag
<1>3. head \in Seq(Bytes) /\ Len(head) = 9
  <2> DEFINE f == <<flag>>
             fw == f \o w
  <2>1. f \in Seq(Bytes) /\ Len(f) = 1
    BY <1>2
  <2> HIDE DEF f
  <2>2. Join(Bytes, f, w, fw)
    BY <1>1, <2>1, JoinOf, Zenon
  <2> HIDE DEF fw
  <2>3. Join(Bytes, fw, w, fw \o w)
    <3>1. fw \in Seq(Bytes)
      BY <2>2 DEF Join
    <3> QED
      BY <1>1, <3>1, JoinOf, Zenon
  <2>4. fw \o w \in Seq(Bytes) /\ Len(fw \o w) = 9
    BY <1>1, <2>1, <2>2, <2>3 DEF Join
  <2> QED
    BY <2>4 DEF fw, f
<1>4. make_video_payload(keyframe, 2, 2, h264) = payload
  BY DEF make_video_payload, flag, w
<1> HIDE DEF head
<1>5. payload \in Seq(Bytes) /\ Len(payload) = 9 + Len(h264)
  <2>1. payload \in Seq(Bytes) /\ Len(payload) = Len(head) + Len(h264)
    BY <1>3, JoinOf, Zenon DEF Join
  <2> QED
    BY <1>3, <2>1
<1>6. SubSeq(payload, Len(head) + 1, Len(payload)) = h264
  BY <1>3, PieceBehind
<1> HIDE DEF payload
<1>7. parseVideoPayload(payload) = <<h264>>
  <2>1. ~ (Len(payload) < 9) /\ Len(head) + 1 = 10
    BY <1>3, <1>5
  <2> QED
    BY <1>6, <2>1 DEF parseVideoPayload
<1> QED
  BY <1>4, <1>5, <1>7

\* The ten bytes of an event.
EventBytes(e) ==
  <<e.id, IF e.active THEN 1 ELSE 0>> \o LittleEndian(e.x) \o LittleEndian(e.y)

Events == {e \in [id : Bytes, active : BOOLEAN, x : Nat, y : Nat] :
             InFourBytes(e.x) /\ InFourBytes(e.y)}

LEMMA EventInPlace ==
  ASSUME NEW e \in Events
  PROVE  LET b == EventBytes(e)
         IN /\ b \in Seq(Bytes) /\ Len(b) = 10
            /\ b[1] = e.id /\ b[2] = (IF e.active THEN 1 ELSE 0)
            /\ \A j \in 1 .. 4 : b[2 + j] = LittleEndian(e.x)[j]
            /\ \A j \in 1 .. 4 : b[6 + j] = LittleEndian(e.y)[j]
<1> DEFINE flag == IF e.active THEN 1 ELSE 0
           x == LittleEndian(e.x)
           y == LittleEndian(e.y)
<1>1. e.id \in Bytes /\ e.x \in Nat /\ e.y \in Nat /\ InFourBytes(e.x) /\ InFourBytes(e.y)
  BY DEF Events
<1>2. flag \in Bytes
  BY Small DEF SmallBytes
<1>3. x \in Seq(Bytes) /\ Len(x) = 4 /\ y \in Seq(Bytes) /\ Len(y) = 4
  BY <1>1, LittleEndianInverse
<1>4. EventBytes(e) = <<e.id, flag>> \o x \o y
  BY DEF EventBytes
<1> HIDE DEF flag, x, y
<1> DEFINE h == <<e.id, flag>>
           hx == h \o x
<1>5. h \in Seq(Bytes) /\ Len(h) = 2 /\ h[1] = e.id /\ h[2] = flag
  BY <1>1, <1>2
<1> HIDE DEF h
<1>6. Join(Bytes, h, x, hx)
  BY <1>3, <1>5, JoinOf, Zenon
<1> HIDE DEF hx
<1> DEFINE b == hx \o y
<1>7. Join(Bytes, hx, y, b)
  <2>1. hx \in Seq(Bytes)
    BY <1>6 DEF Join
  <2> QED
    BY <1>3, <2>1, JoinOf, Zenon
<1> HIDE DEF b
<1>8. Len(hx) = 6 /\ Len(b) = 10
  BY <1>3, <1>5, <1>6, <1>7 DEF Join
<1>9. b[1] = e.id /\ b[2] = flag
  BY <1>5, <1>6, <1>7, <1>8 DEF Join
<1>10. \A j \in 1 .. 4 : b[2 + j] = x[j]
  BY <1>3, <1>5, <1>6, <1>7, <1>8 DEF Join
<1>11. \A j \in 1 .. 4 : b[6 + j] = y[j]
  BY <1>3, <1>7, <1>8 DEF Join
<1>12. EventBytes(e) = b
  BY <1>4 DEF b, hx, h
<1> QED
  BY <1>7, <1>8, <1>9, <1>10, <1>11, <1>12 DEF flag, x, y, Join

\* Four bytes found together are the number that was put there.
LEMMA NumberInPlace ==
  ASSUME NEW s \in Seq(Bytes), NEW a \in Nat, a + 4 <= Len(s), NEW x \in Nat, InFourBytes(x),
         \A j \in 1 .. 4 : s[a + j] = LittleEndian(x)[j]
  PROVE  FromLittleEndian(SubSeq(s, a + 1, a + 4)) = x
<1> PICK S : S = Bytes
  OBVIOUS
<1> DEFINE w == LittleEndian(x)
           b == SubSeq(s, a + 1, a + 4)
<1>1. w \in Seq(S) /\ Len(w) = 4 /\ FromLittleEndian(w) = x
  BY LittleEndianInverse
<1> HIDE DEF w
<1>2. b \in Seq(S) /\ Len(b) = 4 /\ \A j \in 1 .. 4 : b[j] = s[a + j]
  <2>1. s \in Seq(S) /\ a + 1 \in 1 .. Len(s) + 1 /\ a + 4 \in (a + 1) - 1 .. Len(s)
    OBVIOUS
  <2>2. /\ b \in Seq(S) /\ Len(b) = (a + 4) - (a + 1) + 1
        /\ \A i \in 1 .. (a + 4) - (a + 1) + 1 : b[i] = s[(a + 1) + i - 1]
    BY <2>1, Piece
  <2> HIDE DEF b
  <2>3. ASSUME NEW j \in 1 .. 4 PROVE b[j] = s[a + j]
    <3>1. (a + 1) + j - 1 = a + j /\ j \in 1 .. (a + 4) - (a + 1) + 1
      OBVIOUS
    <3> QED
      BY <2>2, <3>1
  <2> QED
    BY <2>2, <2>3
<1> HIDE DEF b
<1>3. \A j \in 1 .. 4 : b[j] = w[j]
  BY <1>2 DEF w
<1>4. b = w
  BY <1>1, <1>2, <1>3, SameElements
<1> QED
  BY <1>1, <1>4 DEF b

\* Ten bytes for each event, one behind the other.
LEMMA EventsInPlace ==
  ASSUME NEW events \in Seq(Events), Len(events) \in Bytes
  PROVE  LET payload == makeTouchPayload(events)
         IN /\ payload \in Seq(Bytes) /\ Len(payload) = 1 + 10 * Len(events)
            /\ payload[1] = Len(events)
            /\ \A i \in 1 .. Len(events) : \A j \in 1 .. 10 :
                 payload[1 + (i - 1) * 10 + j] = EventBytes(events[i])[j]
<1> DEFINE n == Len(events)
           ss == [i \in DOMAIN events |-> EventBytes(events[i])]
           F == FlattenSeq(ss)
           payload == <<n>> \o F
<1>0. n \in Nat /\ DOMAIN events = 1 .. n /\ \A i \in 1 .. n : events[i] \in Events
  OBVIOUS
<1>1. \A i \in 1 .. n : EventBytes(events[i]) \in Seq(Bytes) /\ Len(EventBytes(events[i])) = 10
  BY <1>0, EventInPlace
<1> HIDE DEF n
<1>2. /\ ss \in Seq(Seq(Bytes)) /\ Len(ss) = n
      /\ \A i \in 1 .. n : ss[i] = EventBytes(events[i]) /\ Len(ss[i]) = 10
  BY <1>0, <1>1
<1>3. makeTouchPayload(events) = payload
  BY DEF makeTouchPayload, EventBytes, n
<1> HIDE DEF ss
<1>4. F \in Seq(Bytes)
  BY <1>2, FlattenType, Zenon
<1>5. PICK pos : Pieces(pos, ss, F)
  BY <1>2, PiecesInPlace, Zenon
<1> HIDE DEF F
<1>6. /\ pos[0] = 0 /\ pos[n] = Len(F)
      /\ \A k \in 1 .. n : pos[k] = pos[k - 1] + 10
      /\ \A k \in 1 .. n : \A j \in 1 .. 10 : F[pos[k - 1] + j] = EventBytes(events[k])[j]
  <2>1. /\ pos[0] = 0 /\ pos[n] = Len(F)
        /\ \A k \in 1 .. n : pos[k] = pos[k - 1] + Len(ss[k])
        /\ \A k \in 1 .. n : \A j \in 1 .. Len(ss[k]) : F[pos[k - 1] + j] = ss[k][j]
    BY <1>2, <1>5, Zenon DEF Pieces
  <2>2. \A k \in 1 .. n : pos[k] = pos[k - 1] + 10
    <3> SUFFICES ASSUME NEW k \in 1 .. n PROVE pos[k] = pos[k - 1] + 10
      OBVIOUS
    <3>1. pos[k] = pos[k - 1] + Len(ss[k]) /\ Len(ss[k]) = 10
      BY <1>2, <2>1, Zenon
    <3> QED
      BY <3>1
  <2>3. \A k \in 1 .. n : \A j \in 1 .. 10 : F[pos[k - 1] + j] = EventBytes(events[k])[j]
    <3> SUFFICES ASSUME NEW k \in 1 .. n
                 PROVE  \A j \in 1 .. 10 : F[pos[k - 1] + j] = EventBytes(events[k])[j]
      OBVIOUS
    <3>1. /\ \A j \in 1 .. Len(ss[k]) : F[pos[k - 1] + j] = ss[k][j]
          /\ Len(ss[k]) = 10 /\ ss[k] = EventBytes(events[k])
      BY <1>2, <2>1, Zenon
    <3> QED
      BY <3>1, Zenon
  <2> QED
    BY <2>1, <2>2, <2>3, Zenon
<1>7. \A k \in 0 .. n : pos[k] = 10 * k
  <2> DEFINE T == {k \in 0 .. n : pos[k] = 10 * k}
  <2>1. 0 \in T
    BY <1>0, <1>6
  <2>2. ASSUME NEW k \in 0 .. n - 1, k \in T PROVE k + 1 \in T
    <3>1. k + 1 \in 1 .. n /\ (k + 1) - 1 = k /\ k + 1 \in 0 .. n
      BY <1>0
    <3>2. pos[k + 1] = pos[k] + 10 /\ pos[k] = 10 * k
      BY <1>6, <2>2, <3>1
    <3> QED
      BY <3>1, <3>2
  <2> HIDE DEF T
  <2>3. \A k \in 0 .. n : k \in T
    BY <1>0, <2>1, <2>2, UpTo
  <2> QED
    BY <2>3 DEF T
<1>8. Len(F) = 10 * n
  BY <1>0, <1>6, <1>7
<1>9. <<n>> \in Seq(Bytes) /\ Len(<<n>>) = 1 /\ <<n>>[1] = n
  BY DEF n
<1> DEFINE one == <<n>>
<1>10. one \in Seq(Bytes) /\ Len(one) = 1 /\ one[1] = n
  BY <1>9
<1> HIDE DEF one
<1>11. Join(Bytes, one, F, one \o F)
  BY <1>4, <1>10, JoinOf, Zenon
<1>12. payload = one \o F
  BY DEF one
<1> HIDE DEF payload
<1>13. /\ payload \in Seq(Bytes) /\ Len(payload) = 1 + Len(F) /\ payload[1] = n
       /\ \A i \in 1 .. Len(F) : payload[1 + i] = F[i]
  BY <1>10, <1>11, <1>12 DEF Join
<1>14. ASSUME NEW i \in 1 .. n, NEW j \in 1 .. 10
       PROVE  payload[1 + (i - 1) * 10 + j] = EventBytes(events[i])[j]
  <2>1. i - 1 \in 0 .. n
    BY <1>0
  <2>2. pos[i - 1] = 10 * (i - 1)
    BY <1>7, <2>1
  <2>3. /\ pos[i - 1] + j = (i - 1) * 10 + j /\ 1 + ((i - 1) * 10 + j) = 1 + (i - 1) * 10 + j
        /\ (i - 1) * 10 + j \in 1 .. Len(F)
    BY <1>0, <1>8, <2>2
  <2>4. F[(i - 1) * 10 + j] = EventBytes(events[i])[j]
    BY <1>6, <2>3
  <2>5. payload[1 + ((i - 1) * 10 + j)] = F[(i - 1) * 10 + j]
    BY <1>13, <2>3
  <2> QED
    BY <2>3, <2>4, <2>5
<1>15. /\ payload \in Seq(Bytes) /\ Len(payload) = 1 + 10 * n /\ payload[1] = n
       /\ \A i \in 1 .. n : \A j \in 1 .. 10 :
            payload[1 + (i - 1) * 10 + j] = EventBytes(events[i])[j]
  BY <1>8, <1>13, <1>14
<1> QED
  BY <1>3, <1>15 DEF n

\* decode_touch returns the events that the client packed.
LEMMA TouchesDecoded ==
  ASSUME NEW events \in Seq(Events), Len(events) \in Bytes
  PROVE  decode_touch(makeTouchPayload(events)) = <<events>>
<1> DEFINE n == Len(events)
           payload == makeTouchPayload(events)
           Decoded(i) == LET base == 2 + (i - 1) * 10
                         IN [id |-> payload[base], active |-> payload[base + 1] # 0,
                             x |-> FromLittleEndian(SubSeq(payload, base + 2, base + 5)),
                             y |-> FromLittleEndian(SubSeq(payload, base + 6, base + 9))]
<1>0. n \in Nat /\ DOMAIN events = 1 .. n /\ \A i \in 1 .. n : events[i] \in Events
  OBVIOUS
<1>1. /\ payload \in Seq(Bytes) /\ Len(payload) = 1 + 10 * n
      /\ payload[1] = n
      /\ \A i \in 1 .. n : \A j \in 1 .. 10 :
           payload[1 + (i - 1) * 10 + j] = EventBytes(events[i])[j]
  BY EventsInPlace
<1> HIDE DEF payload, n
<1>2. ASSUME NEW i \in 1 .. n PROVE Decoded(i) = events[i]
  <2> DEFINE a == 1 + (i - 1) * 10
             e == events[i]
             b == EventBytes(e)
  <2>0. e \in Events
    BY <1>0
  <2>1. /\ a \in Nat /\ a + 10 <= Len(payload) /\ 2 + (i - 1) * 10 = a + 1
    BY <1>0, <1>1
  <2>2. \A j \in 1 .. 10 : payload[a + j] = b[j]
    BY <1>1
  <2> HIDE DEF a, e
  <2>3. /\ b[1] = e.id /\ b[2] = (IF e.active THEN 1 ELSE 0)
        /\ \A j \in 1 .. 4 : b[2 + j] = LittleEndian(e.x)[j]
        /\ \A j \in 1 .. 4 : b[6 + j] = LittleEndian(e.y)[j]
    BY <2>0, EventInPlace
  <2> HIDE DEF b
  <2>4. payload[a + 1] = e.id /\ payload[a + 2] = (IF e.active THEN 1 ELSE 0)
    BY <2>2, <2>3
  <2>5. FromLittleEndian(SubSeq(payload, a + 3, a + 6)) = e.x
    <3>1. \A j \in 1 .. 4 : payload[(a + 2) + j] = LittleEndian(e.x)[j]
      <4> SUFFICES ASSUME NEW j \in 1 .. 4 PROVE payload[(a + 2) + j] = LittleEndian(e.x)[j]
        OBVIOUS
      <4>1. (a + 2) + j = a + (2 + j) /\ 2 + j \in 1 .. 10
        BY <2>1
      <4> QED
        BY <2>2, <2>3, <4>1
    <3>2. a + 2 \in Nat /\ (a + 2) + 4 <= Len(payload) /\ (a + 2) + 1 = a + 3 /\ (a + 2) + 4 = a + 6
      BY <1>0, <1>1, <2>1
    <3>3. e.x \in Nat /\ InFourBytes(e.x)
      BY <2>0 DEF Events
    <3> DEFINE q == a + 2
               v == e.x
    <3>4. /\ q \in Nat /\ q + 4 <= Len(payload) /\ v \in Nat /\ InFourBytes(v)
          /\ \A j \in 1 .. 4 : payload[q + j] = LittleEndian(v)[j]
          /\ q + 1 = a + 3 /\ q + 4 = a + 6
      BY <3>1, <3>2, <3>3
    <3> HIDE DEF q, v
    <3>5. FromLittleEndian(SubSeq(payload, q + 1, q + 4)) = v
      BY <1>1, <3>4, NumberInPlace, Zenon
    <3>6. FromLittleEndian(SubSeq(payload, a + 3, a + 6)) = v
      BY <3>4, <3>5, Zenon
    <3> QED
      BY <3>6 DEF v
  <2>6. FromLittleEndian(SubSeq(payload, a + 7, a + 10)) = e.y
    <3>1. \A j \in 1 .. 4 : payload[(a + 6) + j] = LittleEndian(e.y)[j]
      <4> SUFFICES ASSUME NEW j \in 1 .. 4 PROVE payload[(a + 6) + j] = LittleEndian(e.y)[j]
        OBVIOUS
      <4>1. (a + 6) + j = a + (6 + j) /\ 6 + j \in 1 .. 10
        BY <2>1
      <4> QED
        BY <2>2, <2>3, <4>1
    <3>2. a + 6 \in Nat /\ (a + 6) + 4 <= Len(payload) /\ (a + 6) + 1 = a + 7 /\ (a + 6) + 4 = a + 10
      BY <1>0, <1>1, <2>1
    <3>3. e.y \in Nat /\ InFourBytes(e.y)
      BY <2>0 DEF Events
    <3> DEFINE q == a + 6
               v == e.y
    <3>4. /\ q \in Nat /\ q + 4 <= Len(payload) /\ v \in Nat /\ InFourBytes(v)
          /\ \A j \in 1 .. 4 : payload[q + j] = LittleEndian(v)[j]
          /\ q + 1 = a + 7 /\ q + 4 = a + 10
      BY <3>1, <3>2, <3>3
    <3> HIDE DEF q, v
    <3>5. FromLittleEndian(SubSeq(payload, q + 1, q + 4)) = v
      BY <1>1, <3>4, NumberInPlace, Zenon
    <3>6. FromLittleEndian(SubSeq(payload, a + 7, a + 10)) = v
      BY <3>4, <3>5, Zenon
    <3> QED
      BY <3>6 DEF v
  <2>7. (payload[a + 2] # 0) = e.active
    <3>1. e.active \in BOOLEAN
      BY <2>0 DEF Events
    <3>2. CASE e.active
      <4>1. payload[a + 2] = 1
        BY <2>4, <3>2, Zenon
      <4>2. payload[a + 2] # 0
        BY <4>1
      <4> QED
        BY <3>1, <3>2, <4>2, Zenon
    <3>3. CASE ~ e.active
      <4>1. payload[a + 2] = 0
        BY <2>4, <3>3, Zenon
      <4> QED
        BY <3>1, <3>3, <4>1, Zenon
    <3> QED
      BY <3>2, <3>3
  <2>8. Decoded(i) = [id |-> e.id, active |-> e.active, x |-> e.x, y |-> e.y]
    <3>1. /\ (a + 1) + 1 = a + 2 /\ (a + 1) + 2 = a + 3 /\ (a + 1) + 5 = a + 6
          /\ (a + 1) + 6 = a + 7 /\ (a + 1) + 9 = a + 10
      BY <2>1
    <3>2. Decoded(i) = [id |-> payload[a + 1], active |-> payload[a + 2] # 0,
                        x |-> FromLittleEndian(SubSeq(payload, a + 3, a + 6)),
                        y |-> FromLittleEndian(SubSeq(payload, a + 7, a + 10))]
      BY <2>1, <3>1
    <3> HIDE DEF Decoded
    <3> QED
      BY <2>4, <2>5, <2>6, <2>7, <3>2
  <2>9. e = [id |-> e.id, active |-> e.active, x |-> e.x, y |-> e.y]
    BY <2>0 DEF Events
  <2> HIDE DEF Decoded
  <2> QED
    BY <2>8, <2>9 DEF e
<1>3. payload # <<>> /\ ~ (Len(payload) < 1 + Head(payload) * 10) /\ Head(payload) = n
  <2>1. payload # <<>> /\ Head(payload) = payload[1]
    BY <1>0, <1>1
  <2> QED
    BY <1>0, <1>1, <2>1
<1>4. decode_touch(payload) = <<[i \in 1 .. n |-> Decoded(i)]>>
  BY <1>3 DEF decode_touch
<1> HIDE DEF Decoded
<1>5. [i \in 1 .. n |-> Decoded(i)] = events
  <2>1. events = [i \in 1 .. n |-> events[i]]
    BY <1>0
  <2> QED
    BY <1>2, <2>1
<1> QED
  BY <1>4, <1>5 DEF payload
-----------------------------------------------------------------------------
(* The messages of a connection *)

IpadMessages ==
  {[kind |-> "hello"]} \cup
  {[kind |-> "video", nals |-> nals, h264 |-> to_annex_b(Serialize(form, nals))] :
     nals \in Keyframes \cup Pframes}

PcMessages == {[kind |-> "ping"]} \cup {[kind |-> "touch", events |-> events] : events \in Touches}

Messages == IF side = "ipad" THEN IpadMessages ELSE PcMessages

TypeOf(m) ==
  CASE m.kind = "hello" -> MSG_HELLO
    [] m.kind = "video" -> MSG_VIDEO
    [] m.kind = "touch" -> MSG_TOUCH
    [] m.kind = "ping"  -> MSG_PING

PayloadOf(m) ==
  CASE m.kind = "hello" -> SubSeq(LittleEndian(0), 1, 2)
    [] m.kind = "video" -> make_video_payload(m.nals \in Keyframes, 2, 2, m.h264)
    [] m.kind = "touch" -> makeTouchPayload(m.events)
    [] m.kind = "ping"  -> <<>>

\* What the length of the message says.
SizeOf(m) == Len(PayloadOf(m)) + 1

-----------------------------------------------------------------------------
(* The inductive invariant *)

\* The bytes of several messages.
Stream(ms) == FlattenSeq([k \in DOMAIN ms |-> Framed(ms[k])])

\* Messages written and not handled.
Coming == SubSeq(written, Len(handled) + 1, Len(written))

\* The length that read_message has taken out of the stream.
Begun == IF length = 0 THEN <<>> ELSE LittleEndian(length)

\* Until the receiver gives up, the bytes it has and those on the way are
\* exactly the messages it has not handled.
Aligned ==
  ~ stopped =>
    /\ Begun \o readBuffer \o wire = Stream(Coming)
    /\ length # 0 => Coming # <<>> /\ length = SizeOf(Coming[1])

\* What was handled is what was written first.
HandledIsWritten ==
  /\ written \in Seq(Messages)
  /\ handled \in Seq({Meaning(m) : m \in Messages})
  /\ Len(handled) <= Len(written)
  /\ \A i \in 1 .. Len(handled) : handled[i] = Meaning(written[i])

\* Each side has its own state, and the PC never holds as much as it wants.
Sides ==
  /\ side \in {"ipad", "pc"} /\ form \in Forms
  /\ side = "ipad" => length = 0
  /\ side = "pc" =>
       /\ ~ draining /\ pending = 0
       /\ ~ stopped => Len(readBuffer) < IF length = 0 THEN 4 ELSE length
  /\ draining => ~ stopped

IInv ==
  TypeOK /\ Sides /\ HandledIsWritten /\ Aligned /\ OnlyOversizeStops
-----------------------------------------------------------------------------
(* Messages and their bytes *)

\* An encoder's sample is a sequence of bytes.
LEMMA SerializeType ==
  ASSUME NEW f \in Forms, NEW nals \in Keyframes \cup Pframes
  PROVE  Serialize(f, nals) \in Seq(Bytes)
<1> DEFINE Code(i) == CASE f = "annexb4" -> <<0, 0, 0, 1>>
                        [] f = "annexb3" -> <<0, 0, 1>>
                        [] f = "avc" -> BigEndian(Len(nals[i]))
           ss == [i \in DOMAIN nals |-> Code(i) \o nals[i]]
<1>1. /\ nals \in Seq(Seq(Bytes) \ {<<>>})
      /\ \A i \in DOMAIN nals : InFourBytes(Len(nals[i]))
  BY EncoderAssumption
<1>2. ASSUME NEW i \in DOMAIN nals PROVE Code(i) \o nals[i] \in Seq(Bytes)
  <2>1. nals[i] \in Seq(Bytes) /\ Len(nals[i]) \in Nat /\ InFourBytes(Len(nals[i]))
    BY <1>1
  <2>2. Code(i) \in Seq(Bytes)
    <3>1. CASE f = "annexb4"
      BY <3>1, Small DEF SmallBytes
    <3>2. CASE f = "annexb3"
      BY <3>2, Small DEF SmallBytes
    <3>3. CASE f = "avc"
      BY <2>1, <3>3, BigEndianInverse
    <3> QED
      BY <3>1, <3>2, <3>3, PathAssumption
  <2> HIDE DEF Code
  <2>3. Join(Bytes, Code(i), nals[i], Code(i) \o nals[i])
    BY <2>1, <2>2, JoinOf, Zenon
  <2> QED
    BY <2>3 DEF Join
<1>3. Serialize(f, nals) = FlattenSeq(ss)
  BY DEF Serialize
<1> HIDE DEF Code
<1>4. ss \in Seq(Seq(Bytes))
  <2>1. DOMAIN nals = 1 .. Len(nals) /\ Len(nals) \in Nat
    BY <1>1
  <2> QED
    BY <1>2, <2>1
<1> HIDE DEF ss
<1> QED
  BY <1>3, <1>4, FlattenType, Zenon

\* A message has a type and a payload, and fits in four bytes.
Fits(m) ==
  /\ TypeOf(m) \in MSG_HELLO .. MSG_PING
  /\ PayloadOf(m) \in Seq(Bytes)
  /\ InFourBytes(SizeOf(m))
  /\ Framed(m) = write_message(TypeOf(m), PayloadOf(m))

LEMMA HelloFits ==
  ASSUME NEW m, m = [kind |-> "hello"]
  PROVE  Fits(m)
<1>1. 0 \in Nat /\ InFourBytes(0)
  BY Small
<1> DEFINE L == LittleEndian(0)
<1>2. L \in Seq(Bytes) /\ Len(L) = 4
  BY <1>1, LittleEndianInverse
<1> HIDE DEF L
<1> DEFINE p == SubSeq(L, 1, 2)
<1>3. p \in Seq(Bytes) /\ Len(p) = 2
  <2>1. 1 \in 1 .. Len(L) + 1 /\ 2 \in 1 - 1 .. Len(L)
    BY <1>2
  <2>2. p \in Seq(Bytes) /\ Len(p) = 2 - 1 + 1
    BY <1>2, <2>1, Piece, Zenon
  <2> HIDE DEF p
  <2> QED
    BY <2>2
<1>4. PayloadOf(m) = p /\ TypeOf(m) = MSG_HELLO
  BY DEF PayloadOf, TypeOf, L
<1>5. Framed(m) = write_message(MSG_HELLO, p)
  BY DEF Framed, make_hello, L
<1> HIDE DEF p
<1>6. InFourBytes(SizeOf(m))
  <2>1. SizeOf(m) = 2 + 1
    BY <1>3, <1>4, Zenon DEF SizeOf
  <2> QED
    BY <2>1, Small
<1>7. TypeOf(m) \in MSG_HELLO .. MSG_PING
  BY <1>4 DEF MSG_HELLO, MSG_PING
<1> QED
  BY <1>3, <1>4, <1>5, <1>6, <1>7 DEF Fits

LEMMA PingFits ==
  ASSUME NEW m, m = [kind |-> "ping"]
  PROVE  Fits(m)
<1>1. PayloadOf(m) = <<>> /\ TypeOf(m) = MSG_PING /\ Framed(m) = write_message(MSG_PING, <<>>)
  BY DEF PayloadOf, TypeOf, Framed
<1>2. InFourBytes(SizeOf(m))
  <2>1. SizeOf(m) = 1
    BY <1>1 DEF SizeOf
  <2> QED
    BY <2>1, Small
<1>3. TypeOf(m) \in MSG_HELLO .. MSG_PING
  BY <1>1 DEF MSG_HELLO, MSG_PING
<1> QED
  BY <1>1, <1>2, <1>3 DEF Fits

\* What an access unit is on the wire: the bytes the client finds again.
LEMMA VideoFits ==
  ASSUME form \in Forms, NEW nals \in Keyframes \cup Pframes, NEW m,
         m = [kind |-> "video", nals |-> nals, h264 |-> to_annex_b(Serialize(form, nals))]
  PROVE  Fits(m) /\ parseVideoPayload(PayloadOf(m)) = <<m.h264>>
<1> DEFINE data == Serialize(form, nals)
           h264 == to_annex_b(data)
           keyframe == nals \in Keyframes
           payload == make_video_payload(keyframe, 2, 2, h264)
<1>1. InFourBytes(Len(h264) + 10)
  BY EncoderAssumption
<1>2. data \in Seq(Bytes)
  BY SerializeType
<1> HIDE DEF data
<1>3. h264 \in Seq(Bytes)
  BY <1>2, ConversionType
<1>4. m.kind = "video" /\ m.nals = nals /\ m.h264 = h264
  BY DEF data
<1> HIDE DEF h264, keyframe
<1>5. /\ payload \in Seq(Bytes) /\ Len(payload) = 9 + Len(h264)
      /\ parseVideoPayload(payload) = <<h264>>
  BY <1>3, VideoPayload
<1> HIDE DEF payload
<1>6. /\ PayloadOf(m) = payload /\ TypeOf(m) = MSG_VIDEO
      /\ Framed(m) = write_message(MSG_VIDEO, payload)
  BY <1>4 DEF PayloadOf, TypeOf, Framed, payload, keyframe
<1>7. InFourBytes(SizeOf(m))
  <2>1. SizeOf(m) = Len(h264) + 10
    <3>1. Len(h264) \in Nat
      BY <1>3
    <3> QED
      BY <1>5, <1>6, <3>1 DEF SizeOf
  <2> QED
    BY <1>1, <2>1
<1>8. TypeOf(m) \in MSG_HELLO .. MSG_PING
  BY <1>6 DEF MSG_HELLO, MSG_VIDEO, MSG_PING
<1> QED
  BY <1>4, <1>5, <1>6, <1>7, <1>8 DEF Fits

LEMMA NarrowerType ==
  ASSUME NEW S, NEW T, NEW s \in Seq(S), \A i \in 1 .. Len(s) : s[i] \in T
  PROVE  s \in Seq(T)
  OBVIOUS

LEMMA WiderType ==
  ASSUME NEW S, NEW s \in Seq(S), NEW i \in DOMAIN s
  PROVE  s[i] \in S /\ i \in 1 .. Len(s)
  OBVIOUS

\* What a batch of touches is on the wire: the events the PC finds again.
LEMMA TouchFits ==
  ASSUME NEW events \in Touches, NEW m, m = [kind |-> "touch", events |-> events]
  PROVE  Fits(m) /\ decode_touch(PayloadOf(m)) = <<m.events>>
<1> DEFINE payload == makeTouchPayload(events)
           n == Len(events)
<1>1. events \in Seq(Events) /\ n \in Bytes /\ n \in Nat /\ n <= Base - 1
  <2> DEFINE Raw == [id : Bytes, active : BOOLEAN, x : Nat, y : Nat]
  <2>1. /\ events \in Seq(Raw)
        /\ Len(events) \in Bytes
        /\ \A i \in DOMAIN events : InFourBytes(events[i].x) /\ InFourBytes(events[i].y)
    BY TouchAssumption
  <2>2. \A e \in Raw : InFourBytes(e.x) /\ InFourBytes(e.y) => e \in Events
    BY DEF Events
  <2> HIDE DEF Raw
  <2>3. DOMAIN events = 1 .. Len(events) /\ \A i \in 1 .. Len(events) : events[i] \in Raw
    BY <2>1
  <2>4. \A i \in 1 .. Len(events) : events[i] \in Events
    BY <2>1, <2>2, <2>3, Zenon
  <2>5. events \in Seq(Events)
    BY <2>1, <2>4, NarrowerType, Zenon
  <2> QED
    BY <2>1, <2>5, BitstreamAssumption DEF Bytes
<1>2. payload \in Seq(Bytes) /\ Len(payload) = 1 + 10 * n
  BY <1>1, EventsInPlace
<1>3. decode_touch(payload) = <<events>>
  BY <1>1, TouchesDecoded
<1> HIDE DEF payload, n
<1>4. /\ PayloadOf(m) = payload /\ TypeOf(m) = MSG_TOUCH
      /\ Framed(m) = write_message(MSG_TOUCH, payload) /\ m.events = events
  BY DEF PayloadOf, TypeOf, Framed, payload
<1>5. InFourBytes(SizeOf(m))
  <2>1. SizeOf(m) \in Nat /\ SizeOf(m) <= 10 * Base
    BY <1>1, <1>2, <1>4, BitstreamAssumption DEF SizeOf
  <2> QED
    BY <2>1, Small
<1>6. TypeOf(m) \in MSG_HELLO .. MSG_PING
  BY <1>4 DEF MSG_HELLO, MSG_TOUCH, MSG_PING
<1> QED
  BY <1>2, <1>3, <1>4, <1>5, <1>6 DEF Fits
-----------------------------------------------------------------------------
(* The front of the stream *)

\* The same bytes, cut at two places: with the first cut behind the second one,
\* what lies between them is left of the one and comes in front of the other.
Between(S, s, t, u, v) == \E r \in Seq(S) : s = u \o r /\ r \o t = v

LEMMA Overlap ==
  ASSUME NEW S, NEW s \in Seq(S), NEW t \in Seq(S), NEW u \in Seq(S), NEW v \in Seq(S),
         s \o t = u \o v, Len(u) <= Len(s)
  PROVE  Between(S, s, t, u, v)
<1> DEFINE r == SubSeq(s, Len(u) + 1, Len(s))
           c == s \o t
<1>0. Len(s) \in Nat /\ Len(t) \in Nat /\ Len(u) \in Nat /\ Len(v) \in Nat
  OBVIOUS
<1>1. Join(S, s, t, c) /\ Join(S, u, v, c)
  BY JoinOf, Zenon
<1> HIDE DEF c
<1>2. /\ r \in Seq(S) /\ Len(r) = Len(s) - Len(u)
      /\ \A i \in 1 .. Len(r) : r[i] = s[Len(u) + i]
  <2>1. Len(u) + 1 \in 1 .. Len(s) + 1 /\ Len(s) \in (Len(u) + 1) - 1 .. Len(s)
    BY <1>0
  <2>2. /\ r \in Seq(S) /\ Len(r) = Len(s) - (Len(u) + 1) + 1
        /\ \A i \in 1 .. Len(s) - (Len(u) + 1) + 1 : r[i] = s[(Len(u) + 1) + i - 1]
    BY <2>1, Piece
  <2> HIDE DEF r
  <2>3. ASSUME NEW i \in 1 .. Len(r) PROVE r[i] = s[Len(u) + i]
    <3>1. (Len(u) + 1) + i - 1 = Len(u) + i /\ i \in 1 .. Len(s) - (Len(u) + 1) + 1
      BY <1>0, <2>2
    <3> QED
      BY <2>2, <3>1
  <2> QED
    BY <1>0, <2>2, <2>3
<1> HIDE DEF r
<1>3. s = u \o r
  <2> DEFINE d == u \o r
  <2>1. Join(S, u, r, d)
    BY <1>2, JoinOf, Zenon
  <2> HIDE DEF d
  <2>2. d \in Seq(S) /\ Len(d) = Len(s)
    BY <1>0, <1>2, <2>1 DEF Join
  <2>3. ASSUME NEW i \in 1 .. Len(s) PROVE s[i] = d[i]
    <3>1. CASE i <= Len(u)
      <4>1. i \in 1 .. Len(u)
        BY <1>0, <3>1
      <4>2. c[i] = s[i] /\ c[i] = u[i] /\ d[i] = u[i]
        BY <1>1, <2>1, <4>1 DEF Join
      <4> QED
        BY <4>2
    <3>2. CASE i > Len(u)
      <4>1. i - Len(u) \in 1 .. Len(r) /\ Len(u) + (i - Len(u)) = i
        BY <1>0, <1>2, <3>2
      <4>2. r[i - Len(u)] = s[Len(u) + (i - Len(u))]
        BY <1>2, <4>1
      <4>3. d[Len(u) + (i - Len(u))] = r[i - Len(u)]
        BY <2>1, <4>1 DEF Join
      <4> QED
        BY <4>1, <4>2, <4>3
    <3> QED
      BY <1>0, <3>1, <3>2
  <2>4. s = d
    BY <2>2, <2>3, SameElements
  <2> QED
    BY <2>4 DEF d
<1>4. r \o t = v
  <2> DEFINE d == r \o t
  <2>1. Join(S, r, t, d)
    BY <1>2, JoinOf, Zenon
  <2> HIDE DEF d
  <2>2. d \in Seq(S) /\ Len(d) = Len(v)
    <3>1. Len(c) = Len(s) + Len(t) /\ Len(c) = Len(u) + Len(v)
      BY <1>1 DEF Join
    <3> QED
      BY <1>0, <1>2, <2>1, <3>1 DEF Join
  <2>3. ASSUME NEW i \in 1 .. Len(v) PROVE v[i] = d[i]
    <3>1. c[Len(u) + i] = v[i]
      BY <1>1 DEF Join
    <3>2. CASE i <= Len(r)
      <4>1. i \in 1 .. Len(r) /\ Len(u) + i \in 1 .. Len(s)
        BY <1>0, <1>2, <3>2
      <4>2. d[i] = r[i] /\ r[i] = s[Len(u) + i] /\ c[Len(u) + i] = s[Len(u) + i]
        BY <1>1, <1>2, <2>1, <4>1 DEF Join
      <4> QED
        BY <3>1, <4>2
    <3>3. CASE i > Len(r)
      <4>1. /\ i - Len(r) \in 1 .. Len(t) /\ Len(r) + (i - Len(r)) = i
            /\ Len(s) + (i - Len(r)) = Len(u) + i
        <5>1. Len(v) = Len(r) + Len(t)
          BY <2>1, <2>2 DEF Join
        <5> QED
          BY <1>0, <1>2, <3>3, <5>1
      <4>2. d[Len(r) + (i - Len(r))] = t[i - Len(r)]
        BY <2>1, <4>1 DEF Join
      <4>3. c[Len(s) + (i - Len(r))] = t[i - Len(r)]
        BY <1>1, <4>1 DEF Join
      <4> QED
        BY <3>1, <4>1, <4>2, <4>3
    <3> QED
      BY <1>0, <1>2, <3>2, <3>3
  <2>4. v = d
    BY <2>2, <2>3, SameElements
  <2> QED
    BY <2>4 DEF d
<1> QED
  BY <1>2, <1>3, <1>4 DEF Between

\* Cut at one place twice.
LEMMA SameCut ==
  ASSUME NEW S, NEW s \in Seq(S), NEW t \in Seq(S), NEW u \in Seq(S), NEW v \in Seq(S),
         s \o t = u \o v, Len(u) = Len(s)
  PROVE  s = u /\ t = v
<1>1. Len(u) <= Len(s)
  OBVIOUS
<1>2. PICK r \in Seq(S) : s = u \o r /\ r \o t = v
  <2>1. Between(S, s, t, u, v)
    BY <1>1, Overlap, Zenon
  <2> QED
    BY <2>1, Zenon DEF Between
<1>3. Len(r) = 0
  <2>1. Join(S, u, r, s)
    BY <1>2, JoinOf, Zenon
  <2>2. Len(u) \in Nat /\ Len(r) \in Nat
    OBVIOUS
  <2> QED
    BY <2>1, <2>2 DEF Join
<1>4. r = <<>>
  BY <1>3
<1>5. u \o <<>> = u /\ <<>> \o t = t
  OBVIOUS
<1> QED
  BY <1>2, <1>4, <1>5

\* The first of two sequences is where both begin.
LEMMA FrontOfJoined ==
  ASSUME NEW S, NEW s \in Seq(S), NEW t \in Seq(S)
  PROVE  SubSeq(s \o t, 1, Len(s)) = s /\ Len(s \o t) = Len(s) + Len(t)
<1>1. 1 \in 1 .. Len(s) + 1 /\ Len(s) \in 1 - 1 .. Len(s)
  OBVIOUS
<1>2. SubSeq(s \o t, 1, Len(s)) = SubSeq(s, 1, Len(s))
  BY <1>1, PieceOfFirst
<1>3. SubSeq(s, 1, Len(s)) = s
  <2> DEFINE d == SubSeq(s, 1, Len(s))
  <2>1. /\ d \in Seq(S) /\ Len(d) = Len(s) - 1 + 1
        /\ \A i \in 1 .. Len(s) - 1 + 1 : d[i] = s[1 + i - 1]
    BY <1>1, Piece
  <2> HIDE DEF d
  <2>2. Len(d) = Len(s) /\ \A i \in 1 .. Len(d) : d[i] = s[i]
    BY <2>1
  <2>3. d = s
    BY <2>1, <2>2, SameElements
  <2> QED
    BY <2>3 DEF d
<1>4. Len(s \o t) = Len(s) + Len(t)
  BY Joined
<1> QED
  BY <1>2, <1>3, <1>4

\* Two sequences that make nothing together.
LEMMA NothingJoined ==
  ASSUME NEW S, NEW s \in Seq(S), NEW t \in Seq(S), s \o t = <<>>
  PROVE  s = <<>> /\ t = <<>>
<1>1. Len(s \o t) = Len(s) + Len(t) /\ Len(s \o t) = 0 /\ Len(s) \in Nat /\ Len(t) \in Nat
  BY Joined
<1>2. Len(s) = 0 /\ Len(t) = 0
  BY <1>1
<1> QED
  BY <1>2

\* The bytes of a message.
LEMMA FramedLength ==
  ASSUME NEW m, Fits(m)
  PROVE  /\ Framed(m) \in Seq(Bytes) /\ Len(Framed(m)) = SizeOf(m) + 4
         /\ SizeOf(m) \in Nat /\ SizeOf(m) >= 1
<1> DEFINE payload == PayloadOf(m)
           type == TypeOf(m)
           n == SizeOf(m)
           L == LittleEndian(n)
<1>1. payload \in Seq(Bytes) /\ InFourBytes(n)
  BY DEF Fits
<1>2. n = Len(payload) + 1 /\ Len(payload) \in Nat
  BY <1>1 DEF SizeOf
<1>3. n \in Nat /\ n >= 1
  BY <1>2
<1>4. type \in Bytes
  BY BitstreamAssumption DEF Fits, MSG_HELLO, MSG_PING, Bytes
<1>5. Framed(m) = LittleEndian(Len(payload) + 1) \o <<type>> \o payload
  BY DEF Fits, write_message
<1> HIDE DEF n, payload, type
<1>6. L \in Seq(Bytes) /\ Len(L) = 4
  BY <1>1, <1>3, LittleEndianInverse
<1> HIDE DEF L
<1> DEFINE h == L \o <<type>>
           c == h \o payload
<1>7. h \in Seq(Bytes) /\ Len(h) = 5
  BY <1>4, <1>6, Header, Zenon
<1> HIDE DEF h
<1>8. Join(Bytes, h, payload, c)
  BY <1>1, <1>7, JoinOf, Zenon
<1>9. Framed(m) = c
  BY <1>2, <1>5, Zenon DEF h, L
<1> HIDE DEF c
<1>10. c \in Seq(Bytes) /\ Len(c) = Len(h) + Len(payload)
  BY <1>8, Zenon DEF Join
<1>11. Len(c) = n + 4
  BY <1>2, <1>7, <1>10
<1> QED
  BY <1>3, <1>9, <1>10, <1>11 DEF n
\* What popMessage does with a buffer at the front of a message: it waits for
\* more, or refuses a message that is too long, or takes the message and
\* leaves the bytes behind it.
PopsMessage(m, got, tail, after) ==
  \/ got = [kind |-> "wait"]
  \/ got = [kind |-> "bad"] /\ SizeOf(m) > MaxMessage
  \/ \E rest \in Seq(Bytes) :
       /\ got = [kind |-> "message", type |-> TypeOf(m), payload |-> PayloadOf(m), rest |-> rest]
       /\ rest \o tail = after

LEMMA FrontMessage ==
  ASSUME NEW m, Fits(m), NEW buffer \in Seq(Bytes), NEW tail \in Seq(Bytes),
         NEW after \in Seq(Bytes), buffer \o tail = Framed(m) \o after
  PROVE  PopsMessage(m, popMessage(buffer), tail, after)
<1> DEFINE type == TypeOf(m)
           payload == PayloadOf(m)
           n == SizeOf(m)
           k == Len(buffer)
           whole == write_message(type, payload) \o after
<1>1. type \in MSG_HELLO .. MSG_PING /\ payload \in Seq(Bytes) /\ Framed(m) = write_message(type, payload)
  BY DEF Fits
<1>2. n = Len(payload) + 1 /\ InFourBytes(Len(payload) + 1)
  BY DEF Fits, SizeOf
<1>3. Framed(m) \in Seq(Bytes) /\ Len(Framed(m)) = n + 4 /\ n \in Nat /\ n >= 1
  BY FramedLength
<1>4. k \in Nat /\ Len(tail) \in Nat /\ Len(after) \in Nat /\ Len(payload) \in Nat
  BY <1>1
<1> HIDE DEF type, payload, n
<1>5. buffer \o tail = whole
  BY <1>1
<1>6. buffer = SubSeq(whole, 1, k) /\ k <= n + 4 + Len(after)
  <2>1. SubSeq(buffer \o tail, 1, Len(buffer)) = buffer
        /\ Len(buffer \o tail) = Len(buffer) + Len(tail)
    BY FrontOfJoined, Zenon
  <2>2. Len(Framed(m) \o after) = Len(Framed(m)) + Len(after)
    BY <1>3, FrontOfJoined, Zenon
  <2>3. k + Len(tail) = (n + 4) + Len(after)
    BY <1>3, <2>1, <2>2, Zenon
  <2>4. k <= n + 4 + Len(after)
    BY <1>3, <1>4, <2>3
  <2> QED
    BY <1>5, <2>1, <2>4, Zenon
<1> HIDE DEF k
<1>7. ASSUME k < 5 \/ (n <= MaxMessage /\ k < n + 4)
      PROVE  popMessage(buffer) = [kind |-> "wait"]
  <2>1. k \in 0 .. Len(payload) + 4 /\ (k < 5 \/ Len(payload) + 1 <= MaxMessage)
    BY <1>2, <1>3, <1>4, <1>7
  <2>2. popMessage(SubSeq(write_message(type, payload) \o after, 1, k)) = [kind |-> "wait"]
    BY <1>1, <1>2, <2>1, PartWaits, Zenon
  <2> QED
    BY <1>6, <2>2, Zenon
<1>8. ASSUME k >= 5, n > MaxMessage
      PROVE  popMessage(buffer) = [kind |-> "bad"]
  <2>1. k \in 5 .. Len(payload) + 5 + Len(after) /\ Len(payload) + 1 > MaxMessage
    BY <1>2, <1>3, <1>4, <1>6, <1>8
  <2>2. popMessage(SubSeq(write_message(type, payload) \o after, 1, k)) = [kind |-> "bad"]
    BY <1>1, <1>2, <2>1, OversizeRefused, Zenon
  <2> QED
    BY <1>6, <2>2, Zenon
<1>9. ASSUME n <= MaxMessage, k >= n + 4
      PROVE  \E rest \in Seq(Bytes) :
               /\ popMessage(buffer) =
                    [kind |-> "message", type |-> type, payload |-> payload, rest |-> rest]
               /\ rest \o tail = after
  <2>1. Len(Framed(m)) <= Len(buffer)
    BY <1>3, <1>9 DEF k
  <2>2. PICK rest \in Seq(Bytes) : buffer = Framed(m) \o rest /\ rest \o tail = after
    <3>1. Between(Bytes, buffer, tail, Framed(m), after)
      BY <1>3, <2>1, Overlap, Zenon
    <3> QED
      BY <3>1, Zenon DEF Between
  <2>3. Len(payload) + 1 <= MaxMessage
    BY <1>2, <1>9
  <2>4. popMessage(write_message(type, payload) \o rest) =
          [kind |-> "message", type |-> type, payload |-> payload, rest |-> rest]
    BY <1>1, <1>2, <2>3, MessageTaken, Zenon
  <2> QED
    BY <1>1, <2>2, <2>4, Zenon
<1>10. \/ k < 5 \/ (n <= MaxMessage /\ k < n + 4)
       \/ k >= 5 /\ n > MaxMessage
       \/ n <= MaxMessage /\ k >= n + 4
  BY <1>3, <1>4, BitstreamAssumption DEF k
<1> QED
  BY <1>7, <1>8, <1>9, <1>10, Zenon DEF PopsMessage, type, payload, n
\* The messages of a set, each with its bytes.
FramedType(S) == \A m \in S : Fits(m)

LEMMA StreamType ==
  ASSUME NEW S, FramedType(S), NEW ms \in Seq(S)
  PROVE  /\ [k \in DOMAIN ms |-> Framed(ms[k])] \in Seq(Seq(Bytes))
         /\ Stream(ms) \in Seq(Bytes)
<1> DEFINE ss == [k \in DOMAIN ms |-> Framed(ms[k])]
<1>1. DOMAIN ms = 1 .. Len(ms) /\ Len(ms) \in Nat /\ \A k \in 1 .. Len(ms) : ms[k] \in S
  OBVIOUS
<1>2. \A k \in 1 .. Len(ms) : Framed(ms[k]) \in Seq(Bytes)
  BY <1>1, FramedLength, Zenon DEF FramedType
<1>3. ss \in Seq(Seq(Bytes))
  BY <1>1, <1>2
<1> HIDE DEF ss
<1>4. FlattenSeq(ss) \in Seq(Bytes)
  BY <1>3, FlattenType, Zenon
<1> QED
  BY <1>3, <1>4, Zenon DEF Stream, ss

LEMMA StreamEmpty ==
  ASSUME NEW ms, ms = <<>>
  PROVE  Stream(ms) = <<>>
<1> DEFINE ss == [k \in DOMAIN ms |-> Framed(ms[k])]
<1>1. ss = <<>>
  OBVIOUS
<1> HIDE DEF ss
<1>2. FlattenSeq(ss) = <<>>
  BY <1>1, FlattenEmpty, Zenon
<1> QED
  BY <1>2 DEF Stream, ss

\* A message more is its bytes more behind the stream.
LEMMA StreamAppend ==
  ASSUME NEW S, FramedType(S), NEW ms \in Seq(S), NEW m \in S
  PROVE  Stream(Append(ms, m)) = Stream(ms) \o Framed(m)
<1> DEFINE ns == Append(ms, m)
           ss == [k \in DOMAIN ms |-> Framed(ms[k])]
           tt == [k \in DOMAIN ns |-> Framed(ns[k])]
<1>1. /\ ns \in Seq(S) /\ Len(ns) = Len(ms) + 1 /\ Len(ms) \in Nat
      /\ \A k \in 1 .. Len(ms) : ns[k] = ms[k]
      /\ ns[Len(ms) + 1] = m
  OBVIOUS
<1> HIDE DEF ns
<1>2. ss \in Seq(Seq(Bytes)) /\ tt \in Seq(Seq(Bytes)) /\ Framed(m) \in Seq(Bytes)
  BY <1>1, StreamType, FramedLength, Zenon DEF FramedType
<1>3. DOMAIN ms = 1 .. Len(ms) /\ DOMAIN ns = 1 .. Len(ms) + 1
  BY <1>1
<1>4. /\ Len(ss) = Len(ms) /\ \A k \in 1 .. Len(ms) : ss[k] = Framed(ms[k])
      /\ Len(tt) = Len(ms) + 1 /\ \A k \in 1 .. Len(ms) + 1 : tt[k] = Framed(ns[k])
  BY <1>1, <1>3
<1> HIDE DEF ss, tt
<1>5. tt = Append(ss, Framed(m))
  <2> PICK U : U = Seq(Bytes)
    OBVIOUS
  <2> DEFINE x == Framed(m)
             uu == Append(ss, x)
  <2>1. ss \in Seq(U) /\ tt \in Seq(U) /\ x \in U
    BY <1>2
  <2> HIDE DEF x
  <2>2. /\ uu \in Seq(U) /\ Len(uu) = Len(ms) + 1
        /\ \A k \in 1 .. Len(ms) : uu[k] = ss[k]
        /\ uu[Len(ms) + 1] = x
    BY <1>4, <2>1
  <2> HIDE DEF uu
  <2>3. ASSUME NEW k \in 1 .. Len(tt) PROVE tt[k] = uu[k]
    <3>1. k \in 1 .. Len(ms) \/ k = Len(ms) + 1
      BY <1>1, <1>4
    <3>2. ASSUME k \in 1 .. Len(ms) PROVE tt[k] = uu[k]
      <4>1. k \in 1 .. Len(ms) + 1
        BY <1>1, <3>2
      <4> QED
        BY <1>1, <1>4, <2>2, <3>2, <4>1, Zenon
    <3>3. ASSUME k = Len(ms) + 1 PROVE tt[k] = uu[k]
      <4>1. Len(ms) + 1 \in 1 .. Len(ms) + 1
        BY <1>1
      <4> QED
        BY <1>1, <1>4, <2>2, <3>3, <4>1, Zenon DEF x
    <3> QED
      BY <3>1, <3>2, <3>3
  <2>4. Len(tt) = Len(uu)
    BY <1>4, <2>2
  <2>5. tt = uu
    BY <2>1, <2>2, <2>3, <2>4, SameElements, Zenon
  <2> QED
    BY <2>5, Zenon DEF uu, x
<1>6. FlattenSeq(Append(ss, Framed(m))) = FlattenSeq(ss) \o Framed(m)
  BY <1>2, FlattenAppend, Zenon
<1> QED
  BY <1>5, <1>6, Zenon DEF Stream, ss, tt, ns

\* The first message's bytes come first.
LEMMA StreamFront ==
  ASSUME NEW S, FramedType(S), NEW ms \in Seq(S), ms # <<>>
  PROVE  Stream(ms) = Framed(ms[1]) \o Stream(Tail(ms))
<1> DEFINE ns == Tail(ms)
           n == Len(ns)
           ss == [k \in DOMAIN ns |-> Framed(ns[k])]
           tt == [k \in DOMAIN ms |-> Framed(ms[k])]
           x == Framed(ms[1])
<1>1. /\ ns \in Seq(S) /\ n \in Nat /\ Len(ms) = n + 1
      /\ \A k \in 1 .. n : ns[k] = ms[k + 1]
      /\ ms[1] \in S
  OBVIOUS
<1> HIDE DEF ns
<1>2. ss \in Seq(Seq(Bytes)) /\ tt \in Seq(Seq(Bytes)) /\ x \in Seq(Bytes)
  BY <1>1, StreamType, FramedLength, Zenon DEF FramedType
<1>3. DOMAIN ns = 1 .. n /\ DOMAIN ms = 1 .. n + 1
  BY <1>1
<1>4. /\ Len(ss) = n /\ \A k \in 1 .. n : ss[k] = Framed(ns[k])
      /\ Len(tt) = n + 1 /\ \A k \in 1 .. n + 1 : tt[k] = Framed(ms[k])
  BY <1>1, <1>3
<1>0. 1 \in 1 .. n + 1 /\ n \in Nat
  BY <1>1
<1>5. tt[1] = x
  BY <1>0, <1>4, Zenon
<1> HIDE DEF ss, tt, x
<1>6. tt = <<x>> \o ss
  <2> PICK U : U = Seq(Bytes)
    OBVIOUS
  <2> DEFINE uu == <<x>> \o ss
  <2>1. ss \in Seq(U) /\ tt \in Seq(U) /\ x \in U
    BY <1>2
  <2> HIDE DEF n
  <2>2. /\ uu \in Seq(U) /\ Len(uu) = n + 1
        /\ \A k \in 1 .. n : uu[k + 1] = ss[k]
        /\ uu[1] = x
    <3>1. Len(ss) = n
      BY <1>4
    <3> QED
      BY <1>0, <2>1, <3>1
  <2> HIDE DEF uu
  <2>3. ASSUME NEW k \in 1 .. Len(tt) PROVE tt[k] = uu[k]
    <3>1. k = 1 \/ (k - 1 \in 1 .. n /\ k = (k - 1) + 1 /\ k \in 1 .. n + 1)
      BY <1>0, <1>4
    <3>2. ASSUME k = 1 PROVE tt[k] = uu[k]
      BY <1>5, <2>2, <3>2, Zenon
    <3>3. ASSUME k - 1 \in 1 .. n, k = (k - 1) + 1, k \in 1 .. n + 1 PROVE tt[k] = uu[k]
      <4> DEFINE j == k - 1
      <4>1. j \in 1 .. n /\ k = j + 1
        BY <3>3
      <4> HIDE DEF j
      <4>2. uu[k] = ss[j] /\ ss[j] = Framed(ns[j]) /\ ns[j] = ms[k] /\ tt[k] = Framed(ms[k])
        <5>1. uu[j + 1] = ss[j] /\ ss[j] = Framed(ns[j]) /\ ns[j] = ms[j + 1]
          BY <1>1, <1>4, <2>2, <4>1, Zenon DEF n
        <5>2. tt[k] = Framed(ms[k])
          BY <1>4, <3>3, Zenon
        <5> QED
          BY <4>1, <5>1, <5>2, Zenon
      <4> QED
        BY <4>2, Zenon
    <3> QED
      BY <3>1, <3>2, <3>3, Zenon
  <2>4. Len(tt) = Len(uu)
    BY <1>4, <2>2
  <2>5. tt = uu
    BY <2>1, <2>2, <2>3, <2>4, SameElements
  <2> QED
    BY <2>5, Zenon DEF uu
<1>7. FlattenSeq(<<x>> \o ss) = x \o FlattenSeq(ss)
  BY <1>2, FlattenCons, Zenon
<1> QED
  BY <1>6, <1>7, Zenon DEF Stream, ss, tt, ns, x

\* What is still to come, when a message is written and when one is handled.
LEMMA ComingAppend ==
  ASSUME NEW S, NEW ms \in Seq(S), NEW m \in S, NEW k \in 0 .. Len(ms)
  PROVE  SubSeq(Append(ms, m), k + 1, Len(Append(ms, m))) =
           Append(SubSeq(ms, k + 1, Len(ms)), m)
<1> DEFINE ns == Append(ms, m)
           a == SubSeq(ns, k + 1, Len(ns))
           b == SubSeq(ms, k + 1, Len(ms))
           c == Append(b, m)
<1>1. /\ ns \in Seq(S) /\ Len(ns) = Len(ms) + 1 /\ Len(ms) \in Nat /\ k \in Nat
      /\ \A i \in 1 .. Len(ms) : ns[i] = ms[i]
      /\ ns[Len(ms) + 1] = m
  OBVIOUS
<1> HIDE DEF ns
<1>2. /\ k + 1 \in 1 .. Len(ns) + 1 /\ Len(ns) \in (k + 1) - 1 .. Len(ns)
      /\ k + 1 \in 1 .. Len(ms) + 1 /\ Len(ms) \in (k + 1) - 1 .. Len(ms)
  BY <1>1
<1>3. /\ a \in Seq(S) /\ Len(a) = Len(ns) - (k + 1) + 1
      /\ \A i \in 1 .. Len(ns) - (k + 1) + 1 : a[i] = ns[(k + 1) + i - 1]
  BY <1>1, <1>2, Piece
<1>4. /\ b \in Seq(S) /\ Len(b) = Len(ms) - (k + 1) + 1
      /\ \A i \in 1 .. Len(ms) - (k + 1) + 1 : b[i] = ms[(k + 1) + i - 1]
  BY <1>2, Piece
<1> HIDE DEF a, b
<1>5. /\ c \in Seq(S) /\ Len(c) = Len(b) + 1
      /\ \A i \in 1 .. Len(b) : c[i] = b[i]
      /\ c[Len(b) + 1] = m
  BY <1>4
<1> HIDE DEF c
<1>6. Len(a) = Len(c) /\ Len(c) = Len(ms) - k + 1 /\ Len(b) = Len(ms) - k
  BY <1>1, <1>3, <1>4, <1>5
<1>7. ASSUME NEW i \in 1 .. Len(a) PROVE a[i] = c[i]
  <2>1. /\ i \in 1 .. Len(ns) - (k + 1) + 1 /\ (k + 1) + i - 1 = k + i
        /\ i \in Nat
    BY <1>1, <1>3
  <2>2. a[i] = ns[k + i]
    BY <1>3, <2>1
  <2>3. CASE i <= Len(b)
    <3>1. i \in 1 .. Len(b) /\ i \in 1 .. Len(ms) - (k + 1) + 1 /\ k + i \in 1 .. Len(ms)
      BY <1>1, <1>4, <1>6, <2>1, <2>3
    <3>2. b[i] = ms[k + i]
      BY <1>4, <2>1, <3>1
    <3> QED
      BY <1>1, <1>5, <2>2, <3>1, <3>2, Zenon
  <2>4. CASE i > Len(b)
    <3>1. i = Len(b) + 1 /\ k + i = Len(ms) + 1
      BY <1>1, <1>6, <2>1, <2>4
    <3> QED
      BY <1>1, <1>5, <2>2, <3>1, Zenon
  <2> QED
    BY <1>4, <2>1, <2>3, <2>4
<1>8. a = c
  BY <1>3, <1>5, <1>6, <1>7, SameElements
<1> QED
  BY <1>8 DEF a, b, c, ns

LEMMA ComingTail ==
  ASSUME NEW S, NEW ms \in Seq(S), NEW k \in 0 .. Len(ms) - 1
  PROVE  LET coming == SubSeq(ms, k + 1, Len(ms))
         IN /\ coming \in Seq(S) /\ coming # <<>> /\ coming[1] = ms[k + 1]
            /\ SubSeq(ms, (k + 1) + 1, Len(ms)) = Tail(coming)
<1> DEFINE b == SubSeq(ms, k + 1, Len(ms))
           a == SubSeq(ms, (k + 1) + 1, Len(ms))
           c == Tail(b)
<1>0. Len(ms) \in Nat /\ k \in Nat /\ k < Len(ms)
  OBVIOUS
<1>1. /\ k + 1 \in 1 .. Len(ms) + 1 /\ Len(ms) \in (k + 1) - 1 .. Len(ms)
      /\ (k + 1) + 1 \in 1 .. Len(ms) + 1 /\ Len(ms) \in ((k + 1) + 1) - 1 .. Len(ms)
  BY <1>0
<1>2. /\ b \in Seq(S) /\ Len(b) = Len(ms) - (k + 1) + 1
      /\ \A i \in 1 .. Len(ms) - (k + 1) + 1 : b[i] = ms[(k + 1) + i - 1]
  BY <1>1, Piece
<1>3. /\ a \in Seq(S) /\ Len(a) = Len(ms) - ((k + 1) + 1) + 1
      /\ \A i \in 1 .. Len(ms) - ((k + 1) + 1) + 1 : a[i] = ms[((k + 1) + 1) + i - 1]
  BY <1>1, Piece
<1> HIDE DEF a, b
<1>4. Len(b) = Len(ms) - k /\ Len(a) = Len(ms) - k - 1 /\ b # <<>>
  BY <1>0, <1>2, <1>3
<1>5. b[1] = ms[k + 1]
  <2>1. 1 \in 1 .. Len(ms) - (k + 1) + 1 /\ (k + 1) + 1 - 1 = k + 1
    BY <1>0
  <2> QED
    BY <1>2, <2>1
<1>6. /\ c \in Seq(S) /\ Len(c) = Len(b) - 1
      /\ \A i \in 1 .. Len(b) - 1 : c[i] = b[i + 1]
  BY <1>2, <1>4
<1> HIDE DEF c
<1>7. ASSUME NEW i \in 1 .. Len(a) PROVE a[i] = c[i]
  <2>1. /\ i \in 1 .. Len(ms) - ((k + 1) + 1) + 1 /\ ((k + 1) + 1) + i - 1 = k + 1 + i
        /\ i \in 1 .. Len(b) - 1 /\ i + 1 \in 1 .. Len(ms) - (k + 1) + 1
        /\ (k + 1) + (i + 1) - 1 = k + 1 + i
    BY <1>0, <1>4
  <2> QED
    BY <1>2, <1>3, <1>6, <2>1
<1>8. a = c
  <2>1. Len(a) = Len(c)
    BY <1>0, <1>4, <1>6
  <2> QED
    BY <1>3, <1>6, <1>7, <2>1, SameElements
<1> QED
  BY <1>2, <1>4, <1>5, <1>8 DEF a, b, c
-----------------------------------------------------------------------------
(* The reader thread's two reads *)

LEMMA CutInTwo ==
  ASSUME NEW S, NEW w \in Seq(S), NEW n \in 0 .. Len(w)
  PROVE  /\ SubSeq(w, 1, n) \in Seq(S) /\ Len(SubSeq(w, 1, n)) = n
         /\ SubSeq(w, n + 1, Len(w)) \in Seq(S)
         /\ SubSeq(w, 1, n) \o SubSeq(w, n + 1, Len(w)) = w
<1> DEFINE a == SubSeq(w, 1, n)
           b == SubSeq(w, n + 1, Len(w))
           c == a \o b
<1>0. /\ 1 \in 1 .. Len(w) + 1 /\ n \in 1 - 1 .. Len(w)
      /\ n + 1 \in 1 .. Len(w) + 1 /\ Len(w) \in (n + 1) - 1 .. Len(w)
      /\ n \in Nat /\ Len(w) \in Nat
  OBVIOUS
<1>1. /\ a \in Seq(S) /\ Len(a) = n - 1 + 1 /\ \A i \in 1 .. n - 1 + 1 : a[i] = w[1 + i - 1]
  BY <1>0, Piece
<1>2. /\ b \in Seq(S) /\ Len(b) = Len(w) - (n + 1) + 1
      /\ \A i \in 1 .. Len(w) - (n + 1) + 1 : b[i] = w[(n + 1) + i - 1]
  BY <1>0, Piece
<1> HIDE DEF a, b
<1>3. /\ c \in Seq(S) /\ Len(c) = Len(a) + Len(b)
      /\ \A i \in 1 .. Len(a) : c[i] = a[i]
      /\ \A i \in 1 .. Len(b) : c[Len(a) + i] = b[i]
  BY <1>1, <1>2, Joined
<1> HIDE DEF c
<1>4. Len(a) = n /\ Len(b) = Len(w) - n /\ Len(c) = Len(w)
  BY <1>0, <1>1, <1>2, <1>3
<1>5. ASSUME NEW i \in 1 .. Len(w) PROVE c[i] = w[i]
  <2>1. CASE i <= n
    <3>1. i \in 1 .. n - 1 + 1 /\ 1 + i - 1 = i /\ i \in 1 .. Len(a)
      BY <1>0, <1>4, <2>1
    <3> QED
      BY <1>1, <1>3, <3>1
  <2>2. CASE i > n
    <3>1. /\ i - n \in 1 .. Len(w) - (n + 1) + 1 /\ (n + 1) + (i - n) - 1 = i
          /\ i - n \in 1 .. Len(b) /\ Len(a) + (i - n) = i
      BY <1>0, <1>4, <2>2
    <3>2. b[i - n] = w[(n + 1) + (i - n) - 1]
      BY <1>2, <3>1
    <3>3. c[Len(a) + (i - n)] = b[i - n]
      BY <1>3, <3>1
    <3> QED
      BY <3>1, <3>2, <3>3
  <2> QED
    BY <1>0, <2>1, <2>2
<1>6. c = w
  BY <1>3, <1>4, <1>5, SameElements
<1> QED
  BY <1>1, <1>2, <1>4, <1>6 DEF a, b, c

\* JoinedTwice as a predicate.
Associates(s, t, u) == (s \o t) \o u = s \o (t \o u)

LEMMA Associative ==
  ASSUME NEW S, NEW s \in Seq(S), NEW t \in Seq(S), NEW u \in Seq(S)
  PROVE  Associates(s, t, u)
  BY JoinedTwice DEF Associates

\* A message is its length and, behind it, its type and payload.
BodyOf(m) == <<TypeOf(m)>> \o PayloadOf(m)

LEMMA HeadOfCons ==
  ASSUME NEW S, NEW x \in S, NEW s \in Seq(S)
  PROVE  /\ <<x>> \in Seq(S) /\ <<x>> \o s \in Seq(S) /\ Len(<<x>> \o s) = Len(s) + 1
         /\ Head(<<x>> \o s) = x /\ Tail(<<x>> \o s) = s
<1> DEFINE c == <<x>> \o s
<1>1. /\ c \in Seq(S) /\ Len(c) = Len(s) + 1 /\ c[1] = x
      /\ \A i \in 1 .. Len(s) : c[i + 1] = s[i]
  OBVIOUS
<1> HIDE DEF c
<1>2. Head(c) = x
  BY <1>1
<1>3. /\ Tail(c) \in Seq(S) /\ Len(Tail(c)) = Len(s)
      /\ \A i \in 1 .. Len(s) : Tail(c)[i] = s[i]
  BY <1>1
<1>4. Tail(c) = s
  BY <1>3, SameElements
<1>5. <<x>> \in Seq(S)
  OBVIOUS
<1> QED
  BY <1>1, <1>2, <1>4, <1>5 DEF c

LEMMA FramedParts ==
  ASSUME NEW m, Fits(m)
  PROVE  LET L == LittleEndian(SizeOf(m))
         IN /\ L \in Seq(Bytes) /\ Len(L) = 4 /\ FromLittleEndian(L) = SizeOf(m)
            /\ BodyOf(m) \in Seq(Bytes) /\ Len(BodyOf(m)) = SizeOf(m)
            /\ Head(BodyOf(m)) = TypeOf(m) /\ Tail(BodyOf(m)) = PayloadOf(m)
            /\ Framed(m) = L \o BodyOf(m)
<1> DEFINE payload == PayloadOf(m)
           type == TypeOf(m)
           n == SizeOf(m)
           L == LittleEndian(n)
<1>1. payload \in Seq(Bytes) /\ InFourBytes(n)
  BY DEF Fits
<1>2. n = Len(payload) + 1 /\ n \in Nat
  <2>1. n = Len(payload) + 1
    BY DEF SizeOf
  <2>2. Len(payload) \in Nat
    BY <1>1
  <2> HIDE DEF n, payload
  <2> QED
    BY <2>1, <2>2
<1>3. type \in Bytes
  BY BitstreamAssumption DEF Fits, MSG_HELLO, MSG_PING, Bytes
<1>4. Framed(m) = LittleEndian(Len(payload) + 1) \o <<type>> \o payload
  BY DEF Fits, write_message
<1> HIDE DEF n, payload, type
<1>5. L \in Seq(Bytes) /\ Len(L) = 4 /\ FromLittleEndian(L) = n
  BY <1>1, <1>2, LittleEndianInverse
<1>6. Framed(m) = (L \o <<type>>) \o payload
  BY <1>2, <1>4, Zenon
<1> HIDE DEF L
<1> DEFINE body == <<type>> \o payload
<1>7. /\ <<type>> \in Seq(Bytes) /\ body \in Seq(Bytes) /\ Len(body) = Len(payload) + 1
      /\ Head(body) = type /\ Tail(body) = payload
  BY <1>1, <1>3, HeadOfCons, Zenon
<1>8. Framed(m) = L \o body
  <2>1. Associates(L, <<type>>, payload)
    BY <1>1, <1>5, <1>7, Associative, Zenon
  <2>2. (L \o <<type>>) \o payload = L \o (<<type>> \o payload)
    BY <2>1 DEF Associates
  <2> QED
    BY <1>6, <2>2, Zenon
<1> HIDE DEF body
<1>9. Len(body) = n
  BY <1>2, <1>7, Zenon
<1>10. BodyOf(m) = body
  BY DEF BodyOf, body, type, payload
<1> QED
  BY <1>5, <1>7, <1>8, <1>9, <1>10, Zenon DEF L, n, type, payload

\* The first four bytes are the length of the message in front.
LEMMA LengthRead ==
  ASSUME NEW m, Fits(m), NEW got \in Seq(Bytes), NEW tail \in Seq(Bytes),
         NEW after \in Seq(Bytes), Len(got) = 4, got \o tail = Framed(m) \o after
  PROVE  got = LittleEndian(SizeOf(m)) /\ FromLittleEndian(got) = SizeOf(m)
<1> DEFINE L == LittleEndian(SizeOf(m))
           body == BodyOf(m)
           back == body \o after
<1>1. /\ L \in Seq(Bytes) /\ Len(L) = 4 /\ FromLittleEndian(L) = SizeOf(m)
      /\ body \in Seq(Bytes) /\ Framed(m) = L \o body
  BY FramedParts
<1> HIDE DEF L, body
<1>2. back \in Seq(Bytes)
  <2>1. Join(Bytes, body, after, back)
    BY <1>1, JoinOf, Zenon
  <2> QED
    BY <2>1, Zenon DEF Join
<1>3. got \o tail = L \o back
  <2>1. Associates(L, body, after)
    BY <1>1, Associative, Zenon
  <2>2. (L \o body) \o after = L \o (body \o after)
    BY <2>1 DEF Associates
  <2> QED
    BY <1>1, <2>2, Zenon
<1> HIDE DEF back
<1>4. got = L
  BY <1>1, <1>2, <1>3, SameCut, Zenon
<1> QED
  BY <1>1, <1>4, Zenon DEF L

\* As many bytes as it says are the type and the payload.
LEMMA BodyRead ==
  ASSUME NEW m, Fits(m), NEW got \in Seq(Bytes), NEW tail \in Seq(Bytes),
         NEW after \in Seq(Bytes), Len(got) = SizeOf(m),
         (LittleEndian(SizeOf(m)) \o got) \o tail = Framed(m) \o after
  PROVE  Head(got) = TypeOf(m) /\ Tail(got) = PayloadOf(m) /\ tail = after
<1> DEFINE L == LittleEndian(SizeOf(m))
           body == BodyOf(m)
           front == L \o got
<1>1. /\ L \in Seq(Bytes) /\ Len(L) = 4
      /\ body \in Seq(Bytes) /\ Framed(m) = L \o body /\ Len(body) = SizeOf(m)
      /\ Head(body) = TypeOf(m) /\ Tail(body) = PayloadOf(m)
  BY FramedParts
<1>2. SizeOf(m) \in Nat /\ Framed(m) \in Seq(Bytes) /\ Len(Framed(m)) = SizeOf(m) + 4
  BY FramedLength
<1>3. front \o tail = Framed(m) \o after
  OBVIOUS
<1> HIDE DEF L, body
<1>4. front \in Seq(Bytes) /\ Len(front) = Len(L) + Len(got)
  <2>1. Join(Bytes, L, got, front)
    BY <1>1, JoinOf, Zenon
  <2> QED
    BY <2>1, Zenon DEF Join
<1> HIDE DEF front
<1>5. Len(Framed(m)) = Len(front)
  <2>1. Len(front) = 4 + SizeOf(m)
    BY <1>1, <1>4, Zenon
  <2> QED
    BY <1>2, <2>1
<1>6. front = Framed(m) /\ tail = after
  BY <1>2, <1>3, <1>4, <1>5, SameCut, Zenon
<1>7. L \o got = L \o body
  BY <1>1, <1>6, Zenon DEF front
<1>8. got = body
  BY <1>1, <1>7, SameCut, Zenon
<1> QED
  BY <1>1, <1>6, <1>8, Zenon
-----------------------------------------------------------------------------
(* The invariant holds *)

LEMMA IpadMessage ==
  ASSUME form \in Forms, NEW m \in IpadMessages
  PROVE  /\ Fits(m)
         /\ \/ TypeOf(m) = MSG_HELLO /\ Meaning(m) = [kind |-> "hello"]
            \/ /\ TypeOf(m) = MSG_VIDEO /\ parseVideoPayload(PayloadOf(m)) = <<m.h264>>
               /\ Meaning(m) = [kind |-> "video", h264 |-> m.h264]
<1>1. CASE m = [kind |-> "hello"]
  BY <1>1, HelloFits DEF TypeOf, Meaning
<1>2. ASSUME NEW nals \in Keyframes \cup Pframes,
             m = [kind |-> "video", nals |-> nals, h264 |-> to_annex_b(Serialize(form, nals))]
      PROVE  /\ Fits(m)
             /\ TypeOf(m) = MSG_VIDEO /\ parseVideoPayload(PayloadOf(m)) = <<m.h264>>
             /\ Meaning(m) = [kind |-> "video", h264 |-> m.h264]
  <2>1. Fits(m) /\ parseVideoPayload(PayloadOf(m)) = <<m.h264>>
    BY <1>2, VideoFits, Zenon
  <2>2. m.kind = "video"
    BY <1>2
  <2> QED
    BY <2>1, <2>2 DEF TypeOf, Meaning
<1>3. \/ m = [kind |-> "hello"]
      \/ \E nals \in Keyframes \cup Pframes :
           m = [kind |-> "video", nals |-> nals, h264 |-> to_annex_b(Serialize(form, nals))]
  BY DEF IpadMessages
<1> QED
  BY <1>1, <1>2, <1>3

LEMMA PcMessage ==
  ASSUME NEW m \in PcMessages
  PROVE  /\ Fits(m)
         /\ \/ TypeOf(m) = MSG_PING /\ Meaning(m) = [kind |-> "ping"]
            \/ /\ TypeOf(m) = MSG_TOUCH /\ decode_touch(PayloadOf(m)) = <<m.events>>
               /\ Meaning(m) = [kind |-> "touch", events |-> m.events]
<1>1. CASE m = [kind |-> "ping"]
  BY <1>1, PingFits DEF TypeOf, Meaning
<1>2. ASSUME NEW events \in Touches, m = [kind |-> "touch", events |-> events]
      PROVE  /\ Fits(m)
             /\ TypeOf(m) = MSG_TOUCH /\ decode_touch(PayloadOf(m)) = <<m.events>>
             /\ Meaning(m) = [kind |-> "touch", events |-> m.events]
  <2>1. Fits(m) /\ decode_touch(PayloadOf(m)) = <<m.events>>
    BY <1>2, TouchFits, Zenon
  <2> QED
    BY <1>2, <2>1 DEF TypeOf, Meaning
<1>3. m = [kind |-> "ping"] \/ \E events \in Touches : m = [kind |-> "touch", events |-> events]
  BY DEF PcMessages
<1> QED
  BY <1>1, <1>2, <1>3

LEMMA MessagesFit ==
  ASSUME form \in Forms
  PROVE  FramedType(Messages)
<1> SUFFICES ASSUME NEW m \in Messages PROVE Fits(m)
  BY DEF FramedType
<1>1. m \in IpadMessages \/ m \in PcMessages
  BY DEF Messages
<1> QED
  BY <1>1, IpadMessage, PcMessage

\* What the invariant says of the messages to come.
LEMMA ComingFacts ==
  ASSUME IInv
  PROVE  /\ FramedType(Messages)
         /\ written \in Seq(Messages) /\ Len(written) \in Nat
         /\ Len(handled) \in 0 .. Len(written)
         /\ Coming \in Seq(Messages) /\ Stream(Coming) \in Seq(Bytes)
         /\ ~ stopped => Begun \in Seq(Bytes) /\ Begun \o readBuffer \in Seq(Bytes)
<1>1. FramedType(Messages)
  BY MessagesFit DEF IInv, Sides
<1>2. /\ written \in Seq(Messages) /\ Len(written) \in Nat /\ Len(handled) \in 0 .. Len(written)
  BY DEF IInv, HandledIsWritten
<1>3. Coming \in Seq(Messages)
  <2>1. /\ Len(handled) + 1 \in 1 .. Len(written) + 1
        /\ Len(written) \in (Len(handled) + 1) - 1 .. Len(written)
    BY <1>2
  <2> QED
    BY <1>2, <2>1, Piece DEF Coming
<1>4. Stream(Coming) \in Seq(Bytes)
  BY <1>1, <1>3, StreamType, Zenon
<1>5. ASSUME ~ stopped PROVE Begun \in Seq(Bytes) /\ Begun \o readBuffer \in Seq(Bytes)
  <2>1. Begun \in Seq(Bytes)
    <3>1. CASE length = 0
      BY <3>1 DEF Begun
    <3>2. CASE length # 0
      <4>1. Coming # <<>> /\ length = SizeOf(Coming[1]) /\ length \in Nat
        BY <1>5, <3>2 DEF IInv, Aligned, TypeOK
      <4>2. Coming[1] \in Messages
        BY <1>3, <4>1
      <4>3. InFourBytes(length)
        BY <1>1, <4>1, <4>2 DEF FramedType, Fits
      <4>4. LittleEndian(length) \in Seq(Bytes)
        BY <4>1, <4>3, LittleEndianInverse
      <4> QED
        BY <3>2, <4>4 DEF Begun
    <3> QED
      BY <3>1, <3>2
  <2>2. readBuffer \in Seq(Bytes)
    BY DEF IInv, TypeOK
  <2>3. Join(Bytes, Begun, readBuffer, Begun \o readBuffer)
    BY <2>1, <2>2, JoinOf, Zenon
  <2> QED
    BY <2>1, <2>3, Zenon DEF Join
<1> QED
  BY <1>1, <1>2, <1>3, <1>4, <1>5

\* The first of the messages to come.
LEMMA NextComing ==
  ASSUME IInv, Coming # <<>>
  PROVE  /\ Coming[1] \in Messages /\ Coming[1] = written[Len(handled) + 1]
         /\ Len(handled) + 1 \in 1 .. Len(written)
         /\ Tail(Coming) \in Seq(Messages)
         /\ Tail(Coming) = SubSeq(written, (Len(handled) + 1) + 1, Len(written))
         /\ Stream(Coming) = Framed(Coming[1]) \o Stream(Tail(Coming))
         /\ Stream(Tail(Coming)) \in Seq(Bytes)
<1>1. /\ FramedType(Messages)
      /\ written \in Seq(Messages) /\ Len(written) \in Nat
      /\ Len(handled) \in 0 .. Len(written) /\ Coming \in Seq(Messages)
  BY ComingFacts
<1>2. Len(handled) \in 0 .. Len(written) - 1
  <2> SUFFICES ASSUME Len(handled) = Len(written) PROVE FALSE
    BY <1>1
  <2>1. /\ Len(handled) + 1 \in 1 .. Len(written) + 1
        /\ Len(written) \in (Len(handled) + 1) - 1 .. Len(written)
    BY <1>1
  <2>2. Len(Coming) = Len(written) - (Len(handled) + 1) + 1
    BY <1>1, <2>1, Piece DEF Coming
  <2>3. Len(Coming) = 0
    BY <1>1, <2>2
  <2> QED
    BY <1>1, <2>3
<1>3. /\ Coming[1] = written[Len(handled) + 1]
      /\ SubSeq(written, (Len(handled) + 1) + 1, Len(written)) = Tail(Coming)
  BY <1>1, <1>2, ComingTail DEF Coming
<1>4. Coming[1] \in Messages /\ Tail(Coming) \in Seq(Messages)
  BY <1>1
<1>5. /\ Stream(Coming) = Framed(Coming[1]) \o Stream(Tail(Coming))
      /\ Stream(Tail(Coming)) \in Seq(Bytes)
  BY <1>1, <1>4, StreamFront, StreamType, Zenon
<1> QED
  <2>1. Len(handled) + 1 \in 1 .. Len(written)
    BY <1>1, <1>2
  <2> QED
    BY <1>3, <1>4, <1>5, <2>1, Zenon

\* The receiver has taken the next message.
LEMMA NextHandled ==
  ASSUME IInv, Coming # <<>>, UNCHANGED <<side, form, written>>,
         handled' = Append(handled, Meaning(Coming[1]))
  PROVE  /\ HandledIsWritten' /\ Coming' = Tail(Coming)
         /\ Len(handled') = Len(handled) + 1
<1> DEFINE S == {Meaning(m) : m \in Messages}
           x == Meaning(Coming[1])
<1>1. /\ Coming[1] \in Messages /\ Coming[1] = written[Len(handled) + 1]
      /\ Len(handled) + 1 \in 1 .. Len(written)
      /\ Tail(Coming) = SubSeq(written, (Len(handled) + 1) + 1, Len(written))
  BY NextComing
<1>2. /\ written \in Seq(Messages) /\ handled \in Seq(S) /\ Len(handled) <= Len(written)
      /\ \A i \in 1 .. Len(handled) : handled[i] = Meaning(written[i])
  BY DEF IInv, HandledIsWritten
<1>3. x \in S
  BY <1>1
<1>4. S' = S /\ Messages' = Messages
  BY DEF Messages, IpadMessages, PcMessages
<1> HIDE DEF S
<1>5. /\ handled' \in Seq(S) /\ Len(handled') = Len(handled) + 1
      /\ \A i \in 1 .. Len(handled) : handled'[i] = handled[i]
      /\ handled'[Len(handled) + 1] = x
  <2> HIDE DEF x
  <2>1. handled' = Append(handled, x)
    BY DEF x
  <2> QED
    BY <1>2, <1>3, <2>1
<1>6. Coming' = Tail(Coming)
  BY <1>1, <1>5 DEF Coming
<1>7. ASSUME NEW i \in 1 .. Len(handled') PROVE handled'[i] = Meaning(written[i])
  <2>1. i \in 1 .. Len(handled) \/ i = Len(handled) + 1
    BY <1>2, <1>5
  <2> QED
    BY <1>1, <1>2, <1>5, <2>1
<1>8. HandledIsWritten'
  <2>1. Len(handled') <= Len(written')
    BY <1>1, <1>2, <1>5
  <2>2. handled' \in Seq(S')
    BY <1>4, <1>5
  <2>3. written' \in Seq(Messages')
    BY <1>2, <1>4
  <2>4. \A i \in 1 .. Len(handled') : handled'[i] = Meaning(written'[i])
    BY <1>7
  <2> QED
    BY <2>1, <2>2, <2>3, <2>4 DEF HandledIsWritten, S
<1> QED
  BY <1>5, <1>6, <1>8
\* A message written comes behind the others.
LEMMA WriteInv ==
  ASSUME IInv, NEW m \in Messages, Write(m)
  PROVE  IInv'
<1> USE DEF IInv
<1>0. /\ FramedType(Messages) /\ written \in Seq(Messages) /\ Len(written) \in Nat
      /\ Len(handled) \in 0 .. Len(written)
      /\ Coming \in Seq(Messages) /\ Stream(Coming) \in Seq(Bytes)
      /\ ~ stopped => Begun \in Seq(Bytes) /\ Begun \o readBuffer \in Seq(Bytes)
  BY ComingFacts
<1>1. /\ Len(written) < MaxMessages /\ ~ stopped
      /\ written' = Append(written, m) /\ wire' = wire \o Framed(m)
      /\ UNCHANGED <<side, form, readBuffer, length, draining, stopped, handled, pending,
                     sps, pps, session, unmade, seen, submitted>>
  BY DEF Write, readerVars, decoderVars
<1>2. Framed(m) \in Seq(Bytes) /\ wire \in Seq(Bytes)
  BY <1>0, FramedLength DEF FramedType, TypeOK
<1>3. /\ written' \in Seq(Messages) /\ Len(written') = Len(written) + 1
      /\ \A i \in 1 .. Len(written) : written'[i] = written[i]
  BY <1>0, <1>1
<1>4. Coming' = Append(Coming, m)
  <2>1. SubSeq(Append(written, m), Len(handled) + 1, Len(Append(written, m))) =
          Append(SubSeq(written, Len(handled) + 1, Len(written)), m)
    BY <1>0, ComingAppend, Zenon
  <2> QED
    BY <1>1, <2>1, Zenon DEF Coming
<1>5. Messages' = Messages
  BY <1>1 DEF Messages, IpadMessages, PcMessages
<1>6. TypeOK'
  <2>1. wire' \in Seq(Bytes)
    <3>1. Join(Bytes, wire, Framed(m), wire \o Framed(m))
      BY <1>2, JoinOf, Zenon
    <3> QED
      BY <1>1, <3>1, Zenon DEF Join
  <2>2. Len(written') <= MaxMessages
    BY <1>0, <1>1, <1>3, PathAssumption
  <2> QED
    BY <1>1, <2>1, <2>2 DEF TypeOK
<1>7. Sides'
  BY <1>1 DEF Sides
<1>8. HandledIsWritten'
  <2>1. {Meaning(x) : x \in Messages}' = {Meaning(x) : x \in Messages}
    BY <1>5
  <2>2. Len(handled') <= Len(written')
    BY <1>0, <1>1, <1>3
  <2>3. \A i \in 1 .. Len(handled) : handled[i] = Meaning(written[i]) /\ i \in 1 .. Len(written)
    BY <1>0 DEF HandledIsWritten
  <2>4. \A i \in 1 .. Len(handled') : handled'[i] = Meaning(written'[i])
    BY <1>1, <1>3, <2>3
  <2> QED
    BY <1>1, <1>3, <1>5, <2>1, <2>2, <2>4 DEF HandledIsWritten
<1>9. Aligned'
  <2> DEFINE front == Begun \o readBuffer
  <2>1. Stream(Coming') = Stream(Coming) \o Framed(m)
    BY <1>0, <1>4, StreamAppend, Zenon
  <2>2. front \in Seq(Bytes) /\ front \o wire = Stream(Coming)
    BY <1>0, <1>1 DEF Aligned
  <2>3. Begun' \o readBuffer' = front
    BY <1>1 DEF Begun
  <2> HIDE DEF front
  <2>4. Associates(front, wire, Framed(m))
    BY <1>2, <2>2, Associative, Zenon
  <2>5. (front \o wire) \o Framed(m) = front \o (wire \o Framed(m))
    BY <2>4 DEF Associates
  <2>6. (Begun' \o readBuffer') \o wire' = Stream(Coming')
    BY <1>1, <2>1, <2>2, <2>3, <2>5, Zenon
  <2>7. ASSUME length' # 0 PROVE Coming' # <<>> /\ length' = SizeOf(Coming'[1])
    <3>1. Coming # <<>> /\ length = SizeOf(Coming[1])
      BY <1>1, <2>7 DEF Aligned
    <3>2. Coming'[1] = Coming[1] /\ Coming' # <<>>
      BY <1>0, <1>4, <3>1
    <3> QED
      BY <1>1, <3>1, <3>2
  <2>8. (Stream(Coming))' = Stream(Coming')
    BY DEF Stream
  <2> QED
    BY <2>6, <2>7, <2>8 DEF Aligned
<1>10. OnlyOversizeStops'
  BY <1>1 DEF OnlyOversizeStops
<1> QED
  BY <1>6, <1>7, <1>8, <1>9, <1>10

\* Bytes that arrive come off the wire and go behind those that are there.
LEMMA ReceiveBytesInv ==
  ASSUME IInv, ReceiveBytes
  PROVE  IInv'
<1> USE DEF IInv
<1>0. /\ Coming \in Seq(Messages) /\ Stream(Coming) \in Seq(Bytes)
      /\ ~ stopped => Begun \in Seq(Bytes) /\ Begun \o readBuffer \in Seq(Bytes)
  BY ComingFacts
<1>1. /\ side = "ipad" /\ ~ draining /\ ~ stopped
      /\ draining' = TRUE
      /\ UNCHANGED <<side, form, written, length, stopped, handled, pending,
                     sps, pps, session, unmade, seen, submitted>>
  BY DEF ReceiveBytes, decoderVars
<1>2. PICK n \in 1 .. Len(wire) :
        /\ readBuffer' = readBuffer \o SubSeq(wire, 1, n)
        /\ wire' = SubSeq(wire, n + 1, Len(wire))
  BY DEF ReceiveBytes
<1>3. readBuffer \in Seq(Bytes) /\ wire \in Seq(Bytes)
  BY DEF TypeOK
<1> DEFINE a == SubSeq(wire, 1, n)
           b == SubSeq(wire, n + 1, Len(wire))
<1>4. a \in Seq(Bytes) /\ b \in Seq(Bytes) /\ a \o b = wire
  <2>1. n \in 0 .. Len(wire)
    BY <1>2
  <2> QED
    BY <1>3, <2>1, CutInTwo, Zenon
<1>5. readBuffer' = readBuffer \o a /\ wire' = b
  BY <1>2
<1> HIDE DEF a, b
<1>6. TypeOK'
  <2>1. readBuffer' \in Seq(Bytes)
    <3>1. Join(Bytes, readBuffer, a, readBuffer \o a)
      BY <1>3, <1>4, JoinOf, Zenon
    <3> QED
      BY <1>5, <3>1, Zenon DEF Join
  <2>2. wire' \in Seq(Bytes)
    BY <1>4, <1>5
  <2> QED
    BY <1>1, <2>1, <2>2 DEF TypeOK
<1>7. Sides'
  BY <1>1 DEF Sides
<1>8. HandledIsWritten'
  BY <1>1 DEF HandledIsWritten, Messages, IpadMessages, PcMessages
<1>9. Aligned'
  <2>1. Coming' = Coming /\ Begun' = Begun /\ (Stream(Coming))' = Stream(Coming)
    BY <1>1 DEF Coming, Begun, Stream
  <2>2. (Begun \o readBuffer) \o wire = Stream(Coming)
    BY <1>1 DEF Aligned
  <2>3. Associates(Begun, readBuffer, a) /\ Associates(Begun \o readBuffer, a, b)
    BY <1>0, <1>1, <1>3, <1>4, Associative, Zenon
  <2>4. (Begun \o (readBuffer \o a)) \o b = (Begun \o readBuffer) \o (a \o b)
    BY <2>3, Zenon DEF Associates
  <2>5. (Begun' \o readBuffer') \o wire' = Stream(Coming)
    BY <1>4, <1>5, <2>1, <2>2, <2>4, Zenon
  <2> QED
    BY <1>1, <2>1, <2>5 DEF Aligned
<1>10. OnlyOversizeStops'
  BY <1>1 DEF OnlyOversizeStops
<1> QED
  BY <1>6, <1>7, <1>8, <1>9, <1>10

\* The decoder takes a message out of the mailbox; the stream is not touched.
LEMMA DecodeInv ==
  ASSUME IInv, DecodeOne
  PROVE  IInv'
<1> USE DEF IInv
<1>1. /\ pending # 0 /\ seen' = seen \cup {pending} /\ pending' = 0
      /\ UNCHANGED <<side, form, written, wire, readBuffer, length, draining, stopped, handled>>
  BY DEF DecodeOne, streamVars, readerVars
<1>2. submitted' = submitted \/ submitted'.message = pending
  BY DEF DecodeOne, Submit
<1>3. TypeOK'
  BY <1>1, <1>2 DEF TypeOK
<1>4. Sides'
  BY <1>1 DEF Sides
<1>5. HandledIsWritten'
  BY <1>1 DEF HandledIsWritten, Messages, IpadMessages, PcMessages
<1>6. Aligned'
  BY <1>1 DEF Aligned, Coming, Begun, Stream
<1>7. OnlyOversizeStops'
  BY <1>1 DEF OnlyOversizeStops
<1> QED
  BY <1>3, <1>4, <1>5, <1>6, <1>7
\* drainMessages takes the message in front, waits for the rest of it, or finds
\* it too long.
LEMMA DrainMessageInv ==
  ASSUME IInv, DrainMessage
  PROVE  IInv'
<1> USE DEF IInv
<1> DEFINE got == popMessage(readBuffer)
           video == IF got.kind = "message" /\ got.type = MSG_VIDEO
                    THEN parseVideoPayload(got.payload) ELSE <<>>
<1>0. /\ FramedType(Messages) /\ Coming \in Seq(Messages) /\ Stream(Coming) \in Seq(Bytes)
      /\ Len(handled) \in 0 .. Len(written) /\ Len(written) \in Nat
  BY ComingFacts
<1>1. /\ draining
      /\ UNCHANGED <<side, form, written, wire, length, sps, pps, session, unmade, seen, submitted>>
  BY DEF DrainMessage, streamVars, decoderVars
<1>2. /\ readBuffer' = IF got.kind = "message" THEN got.rest ELSE readBuffer
      /\ draining' = (got.kind = "message")
      /\ stopped' = (got.kind = "bad")
      /\ handled' = CASE video # <<>> ->
                           Append(handled, [kind |-> "video", h264 |-> video[1]])
                      [] got.kind = "message" /\ got.type = MSG_HELLO ->
                           Append(handled, [kind |-> "hello"])
                      [] OTHER -> handled
      /\ pending' = IF video # <<>> THEN Len(handled') ELSE pending
  BY DEF DrainMessage
<1>3. /\ ~ stopped /\ side = "ipad" /\ length = 0 /\ form \in Forms
  BY <1>1 DEF Sides
<1>4. Begun = <<>> /\ Begun' = <<>>
  BY <1>1, <1>3 DEF Begun
<1>5. readBuffer \in Seq(Bytes) /\ wire \in Seq(Bytes)
  BY DEF TypeOK
<1>6. readBuffer \o wire = Stream(Coming)
  <2>1. (Begun \o readBuffer) \o wire = Stream(Coming)
    BY <1>3 DEF Aligned
  <2>2. <<>> \o readBuffer = readBuffer
    BY <1>5
  <2> QED
    BY <1>4, <2>1, <2>2, Zenon
<1> HIDE DEF got
<1>7. ASSUME got = [kind |-> "wait"] PROVE IInv'
  <2>1. video = <<>> /\ got.kind # "message" /\ got.kind # "bad"
    BY <1>7
  <2> HIDE DEF video
  <2>2. UNCHANGED <<readBuffer, handled, pending>> /\ draining' = FALSE /\ stopped' = FALSE
    BY <1>2, <2>1
  <2>3. TypeOK'
    BY <1>1, <2>2 DEF TypeOK
  <2>4. Sides'
    BY <1>1, <1>3, <2>2 DEF Sides
  <2>5. HandledIsWritten'
    BY <1>1, <2>2 DEF HandledIsWritten, Messages, IpadMessages, PcMessages
  <2>6. Aligned'
    <3>1. Coming' = Coming /\ Begun' = Begun /\ (Stream(Coming))' = Stream(Coming)
      BY <1>1, <2>2 DEF Coming, Begun, Stream
    <3> QED
      BY <1>1, <1>3, <2>2, <3>1 DEF Aligned
  <2>7. OnlyOversizeStops'
    BY <2>2 DEF OnlyOversizeStops
  <2> QED
    BY <2>3, <2>4, <2>5, <2>6, <2>7
<1>8. CASE Coming = <<>>
  <2>1. readBuffer = <<>>
    <3>1. Stream(Coming) = <<>>
      BY <1>8, StreamEmpty, Zenon
    <3> QED
      BY <1>5, <1>6, <3>1, NothingJoined, Zenon
  <2>2. got = [kind |-> "wait"]
    <3>1. Len(readBuffer) < 5
      BY <2>1
    <3> QED
      BY <3>1 DEF got, popMessage
  <2> QED
    BY <1>7, <2>2
<1>9. CASE Coming # <<>>
  <2> DEFINE m == Coming[1]
             after == Stream(Tail(Coming))
  <2>1. /\ m \in Messages /\ m = written[Len(handled) + 1]
        /\ Len(handled) + 1 \in 1 .. Len(written)
        /\ Tail(Coming) \in Seq(Messages)
        /\ Stream(Coming) = Framed(m) \o after /\ after \in Seq(Bytes)
    BY <1>9, NextComing
  <2>2. m \in IpadMessages
    BY <1>3, <2>1 DEF Messages
  <2> HIDE DEF m, after
  <2>3. /\ Fits(m)
        /\ \/ TypeOf(m) = MSG_HELLO /\ Meaning(m) = [kind |-> "hello"]
           \/ /\ TypeOf(m) = MSG_VIDEO /\ parseVideoPayload(PayloadOf(m)) = <<m.h264>>
              /\ Meaning(m) = [kind |-> "video", h264 |-> m.h264]
    BY <1>3, <2>2, IpadMessage
  <2>4. PopsMessage(m, got, wire, after)
    <3>1. readBuffer \o wire = Framed(m) \o after
      BY <1>6, <2>1, Zenon
    <3> QED
      BY <1>5, <2>1, <2>3, <3>1, FrontMessage, Zenon DEF got
  <2>5. ASSUME got = [kind |-> "bad"], SizeOf(m) > MaxMessage PROVE IInv'
    <3>1. video = <<>> /\ got.kind # "message" /\ got.kind = "bad"
      BY <2>5
    <3> HIDE DEF video
    <3>2. UNCHANGED <<readBuffer, handled, pending>> /\ draining' = FALSE /\ stopped' = TRUE
      BY <1>2, <3>1
    <3>3. TypeOK'
      BY <1>1, <3>2 DEF TypeOK
    <3>4. Sides'
      BY <1>1, <1>3, <3>2 DEF Sides
    <3>5. HandledIsWritten'
      BY <1>1, <3>2 DEF HandledIsWritten, Messages, IpadMessages, PcMessages
    <3>6. Aligned'
      BY <3>2 DEF Aligned
    <3>7. OnlyOversizeStops'
      <4>1. Len(Framed(m)) - 4 > MaxMessage
        BY <2>3, <2>5, FramedLength, BitstreamAssumption
      <4>2. written' = written /\ Len(handled) + 1 \in DOMAIN written
        BY <1>0, <1>1, <2>1 DEF HandledIsWritten
      <4> QED
        BY <2>1, <4>1, <4>2 DEF OnlyOversizeStops
    <3> QED
      BY <3>3, <3>4, <3>5, <3>6, <3>7
  <2>6. ASSUME NEW rest \in Seq(Bytes),
               got = [kind |-> "message", type |-> TypeOf(m), payload |-> PayloadOf(m),
                      rest |-> rest],
               rest \o wire = after
        PROVE  IInv'
    <3>1. /\ got.kind = "message" /\ got.type = TypeOf(m) /\ got.payload = PayloadOf(m)
          /\ got.rest = rest
      BY <2>6
    <3>2. readBuffer' = rest /\ draining' = TRUE /\ stopped' = FALSE
      BY <1>2, <3>1
    <3>3. /\ handled' = Append(handled, Meaning(m))
          /\ pending' = pending \/ pending' = Len(handled')
      <4>1. ASSUME TypeOf(m) = MSG_HELLO, Meaning(m) = [kind |-> "hello"]
            PROVE  handled' = Append(handled, Meaning(m)) /\ pending' = pending
        <5>1. video = <<>> /\ got.type = MSG_HELLO
          BY <3>1, <4>1 DEF MSG_HELLO, MSG_VIDEO
        <5> HIDE DEF video
        <5> QED
          BY <1>2, <3>1, <4>1, <5>1
      <4>2. ASSUME TypeOf(m) = MSG_VIDEO, parseVideoPayload(PayloadOf(m)) = <<m.h264>>,
                   Meaning(m) = [kind |-> "video", h264 |-> m.h264]
            PROVE  handled' = Append(handled, Meaning(m)) /\ pending' = Len(handled')
        <5>1. video = <<m.h264>>
          BY <3>1, <4>2
        <5>2. video # <<>> /\ video[1] = m.h264 /\ got.type # MSG_HELLO
          BY <3>1, <4>2, <5>1 DEF MSG_VIDEO, MSG_HELLO
        <5> HIDE DEF video
        <5>3. handled' = Append(handled, [kind |-> "video", h264 |-> video[1]])
          BY <1>2, <5>2
        <5>4. pending' = Len(handled')
          BY <1>2, <5>2
        <5> QED
          BY <4>2, <5>2, <5>3, <5>4, Zenon
      <4> QED
        BY <2>3, <4>1, <4>2, Zenon
    <3>4. /\ HandledIsWritten' /\ Coming' = Tail(Coming)
          /\ Len(handled') = Len(handled) + 1
      BY <1>1, <1>9, <3>3, NextHandled DEF m
    <3>5. TypeOK'
      <4>1. pending' \in 0 .. Len(handled')
        BY <1>0, <3>3, <3>4 DEF TypeOK
      <4>2. seen' \subseteq 1 .. Len(handled')
        BY <1>0, <1>1, <3>4 DEF TypeOK
      <4>3. submitted'.message \in 0 .. Len(handled')
        BY <1>0, <1>1, <3>4 DEF TypeOK
      <4> QED
        BY <1>1, <3>2, <4>1, <4>2, <4>3 DEF TypeOK
    <3>6. Sides'
      BY <1>1, <1>3, <3>2 DEF Sides
    <3>7. Aligned'
      <4>1. (Stream(Coming))' = Stream(Coming')
        BY DEF Stream
      <4>2. <<>> \o rest = rest
        OBVIOUS
      <4>3. (Begun' \o readBuffer') \o wire' = Stream(Coming')
        BY <1>1, <1>4, <2>6, <3>2, <3>4, <4>2, Zenon DEF after
      <4> QED
        BY <1>1, <1>3, <4>1, <4>3 DEF Aligned
    <3>8. OnlyOversizeStops'
      BY <3>2 DEF OnlyOversizeStops
    <3> QED
      BY <3>4, <3>5, <3>6, <3>7, <3>8
  <2> QED
    BY <1>7, <2>4, <2>5, <2>6, Zenon DEF PopsMessage
<1> QED
  BY <1>8, <1>9
\* A part of what read_exact wants: the reader waits for the rest.
LEMMA ReadPart ==
  ASSUME IInv, side = "pc", ~ stopped, NEW got \in Seq(Bytes), wire' \in Seq(Bytes),
         (Begun \o got) \o wire' = Stream(Coming),
         Len(got) < (IF length = 0 THEN 4 ELSE length),
         readBuffer' = got,
         UNCHANGED <<side, form, written, length, draining, stopped, handled, pending,
                     sps, pps, session, unmade, seen, submitted>>
  PROVE  IInv'
<1> USE DEF IInv
<1>1. TypeOK'
  BY DEF TypeOK
<1>2. Sides'
  BY DEF Sides
<1>3. HandledIsWritten'
  BY DEF HandledIsWritten, Messages, IpadMessages, PcMessages
<1>4. Aligned'
  <2>1. Coming' = Coming /\ Begun' = Begun /\ (Stream(Coming))' = Stream(Coming)
    BY DEF Coming, Begun, Stream
  <2> QED
    BY <2>1 DEF Aligned
<1>5. OnlyOversizeStops'
  BY DEF OnlyOversizeStops
<1> QED
  BY <1>1, <1>2, <1>3, <1>4, <1>5

\* The four bytes of a length: that of the next message.
LEMMA ReadLength ==
  ASSUME IInv, side = "pc", ~ stopped, NEW got \in Seq(Bytes), wire' \in Seq(Bytes),
         (Begun \o got) \o wire' = Stream(Coming),
         length = 0, Len(got) = 4, readBuffer' = <<>>,
         TakeLength(FromLittleEndian(got)),
         UNCHANGED <<side, form, written, draining, pending,
                     sps, pps, session, unmade, seen, submitted>>
  PROVE  IInv'
<1> USE DEF IInv
<1> DEFINE m == Coming[1]
           after == Stream(Tail(Coming))
           len == FromLittleEndian(got)
<1>0. /\ FramedType(Messages) /\ Coming \in Seq(Messages)
      /\ Len(handled) \in 0 .. Len(written) /\ Len(written) \in Nat
  BY ComingFacts
<1>1. got \o wire' = Stream(Coming)
  <2>1. Begun = <<>>
    BY DEF Begun
  <2>2. <<>> \o got = got
    OBVIOUS
  <2> QED
    BY <2>1, <2>2, Zenon
<1>2. Coming # <<>>
  <2> SUFFICES ASSUME Coming = <<>> PROVE FALSE
    OBVIOUS
  <2>1. got \o wire' = <<>>
    BY <1>1, StreamEmpty, Zenon
  <2>2. got = <<>>
    BY <2>1, NothingJoined, Zenon
  <2> QED
    BY <2>2
<1>3. /\ m \in Messages /\ m = written[Len(handled) + 1]
      /\ Len(handled) + 1 \in 1 .. Len(written)
      /\ Stream(Coming) = Framed(m) \o after /\ after \in Seq(Bytes)
  BY <1>2, NextComing
<1> HIDE DEF m, after
<1>4. Fits(m)
  BY <1>0, <1>3, Zenon DEF FramedType
<1>5. got = LittleEndian(SizeOf(m)) /\ len = SizeOf(m)
  <2>1. got \o wire' = Framed(m) \o after
    BY <1>1, <1>3, Zenon
  <2> QED
    BY <1>3, <1>4, <2>1, LengthRead, Zenon
<1>6. SizeOf(m) \in Nat /\ SizeOf(m) >= 1 /\ Len(Framed(m)) = SizeOf(m) + 4
  BY <1>4, FramedLength
<1>7. handled' = handled
  BY DEF TakeLength
<1>8. HandledIsWritten'
  BY <1>7 DEF HandledIsWritten, Messages, IpadMessages, PcMessages
<1>9. Coming' = Coming /\ (Stream(Coming))' = Stream(Coming)
  BY <1>7 DEF Coming, Stream
<1> HIDE DEF len
<1>10. ASSUME len > MaxMessage, stopped' = TRUE, length' = length PROVE IInv'
  <2>1. TypeOK'
    BY <1>7, <1>10 DEF TypeOK
  <2>2. Sides'
    BY <1>10 DEF Sides
  <2>3. Aligned'
    BY <1>10 DEF Aligned
  <2>4. OnlyOversizeStops'
    <3>1. Len(Framed(m)) - 4 > MaxMessage
      BY <1>5, <1>6, <1>10, BitstreamAssumption
    <3>2. Len(handled) + 1 \in DOMAIN written
      BY <1>0, <1>3 DEF HandledIsWritten
    <3> QED
      BY <1>3, <3>1, <3>2 DEF OnlyOversizeStops
  <2> QED
    BY <1>8, <2>1, <2>2, <2>3, <2>4
<1>11. ASSUME ~ (len < 1 \/ len > MaxMessage), length' = len, stopped' = stopped PROVE IInv'
  <2>1. len \in 1 .. MaxMessage
    BY <1>5, <1>6, <1>11, BitstreamAssumption
  <2>2. TypeOK'
    BY <1>7, <1>11, <2>1 DEF TypeOK
  <2>3. Sides'
    <3>1. Len(readBuffer') = 0 /\ length' >= 1
      BY <1>11, <2>1
    <3> QED
      BY <1>11, <2>1, <3>1 DEF Sides
  <2>4. Aligned'
    <3>1. Begun' = got
      BY <1>5, <1>11, <2>1 DEF Begun
    <3>2. got \o <<>> = got
      OBVIOUS
    <3>3. (Begun' \o readBuffer') \o wire' = Stream(Coming)
      BY <1>1, <3>1, <3>2, Zenon
    <3>4. Coming' # <<>> /\ length' = SizeOf(Coming'[1])
      BY <1>2, <1>5, <1>9, <1>11 DEF m
    <3> QED
      BY <1>9, <3>3, <3>4 DEF Aligned
  <2>5. OnlyOversizeStops'
    BY <1>11 DEF OnlyOversizeStops
  <2> QED
    BY <1>8, <2>2, <2>3, <2>4, <2>5
<1>12. \/ len > MaxMessage /\ stopped' = TRUE /\ length' = length
       \/ ~ (len < 1 \/ len > MaxMessage) /\ length' = len /\ stopped' = stopped
  <2>1. ~ (len < 1)
    BY <1>5, <1>6
  <2> QED
    BY <2>1 DEF TakeLength, len
<1> QED
  BY <1>10, <1>11, <1>12, Zenon

\* The rest of the message.
LEMMA ReadBody ==
  ASSUME IInv, side = "pc", ~ stopped, NEW got \in Seq(Bytes), wire' \in Seq(Bytes),
         (Begun \o got) \o wire' = Stream(Coming),
         length # 0, Len(got) = length, readBuffer' = <<>>,
         TakeBody(got),
         UNCHANGED <<side, form, written, draining, pending,
                     sps, pps, session, unmade, seen, submitted>>
  PROVE  IInv'
<1> USE DEF IInv
<1> DEFINE m == Coming[1]
           after == Stream(Tail(Coming))
           events == IF Head(got) = MSG_TOUCH THEN decode_touch(Tail(got)) ELSE <<>>
<1>0. /\ FramedType(Messages)
      /\ Len(handled) \in 0 .. Len(written) /\ Len(written) \in Nat
  BY ComingFacts
<1>1. Coming # <<>> /\ length = SizeOf(m)
  BY DEF Aligned
<1>2. /\ m \in Messages
      /\ Stream(Coming) = Framed(m) \o after /\ after \in Seq(Bytes)
  BY <1>1, NextComing
<1>3. m \in PcMessages
  BY <1>2 DEF Messages
<1> HIDE DEF m, after
<1>4. /\ Fits(m)
      /\ \/ TypeOf(m) = MSG_PING /\ Meaning(m) = [kind |-> "ping"]
         \/ /\ TypeOf(m) = MSG_TOUCH /\ decode_touch(PayloadOf(m)) = <<m.events>>
            /\ Meaning(m) = [kind |-> "touch", events |-> m.events]
  BY <1>3, PcMessage
<1>5. Head(got) = TypeOf(m) /\ Tail(got) = PayloadOf(m) /\ wire' = after
  <2>1. (LittleEndian(SizeOf(m)) \o got) \o wire' = Framed(m) \o after
    <3>1. Begun = LittleEndian(SizeOf(m))
      BY <1>1 DEF Begun
    <3> QED
      BY <1>2, <3>1, Zenon
  <2>2. Len(got) = SizeOf(m)
    BY <1>1
  <2> QED
    BY <1>2, <1>4, <2>1, <2>2, BodyRead, Zenon
<1>6. /\ handled' = CASE events # <<>> ->
                           Append(handled, [kind |-> "touch", events |-> events[1]])
                      [] Head(got) = MSG_PING -> Append(handled, [kind |-> "ping"])
                      [] OTHER -> handled
      /\ stopped' = (Head(got) \notin {MSG_TOUCH, MSG_PING})
      /\ length' = 0
  BY DEF TakeBody
<1>7. handled' = Append(handled, Meaning(m)) /\ stopped' = FALSE
  <2>1. ASSUME TypeOf(m) = MSG_PING, Meaning(m) = [kind |-> "ping"]
        PROVE  handled' = Append(handled, Meaning(m)) /\ stopped' = FALSE
    <3>1. events = <<>> /\ Head(got) = MSG_PING
      BY <1>5, <2>1 DEF MSG_PING, MSG_TOUCH
    <3> HIDE DEF events
    <3> QED
      BY <1>6, <2>1, <3>1
  <2>2. ASSUME TypeOf(m) = MSG_TOUCH, decode_touch(PayloadOf(m)) = <<m.events>>,
               Meaning(m) = [kind |-> "touch", events |-> m.events]
        PROVE  handled' = Append(handled, Meaning(m)) /\ stopped' = FALSE
    <3>1. events = <<m.events>>
      BY <1>5, <2>2
    <3>2. events # <<>> /\ events[1] = m.events /\ Head(got) = MSG_TOUCH /\ Head(got) # MSG_PING
      BY <1>5, <2>2, <3>1 DEF MSG_TOUCH, MSG_PING
    <3> HIDE DEF events
    <3>3. handled' = Append(handled, [kind |-> "touch", events |-> events[1]]) /\ stopped' = FALSE
      BY <1>6, <3>2
    <3> QED
      BY <2>2, <3>2, <3>3, Zenon
  <2> QED
    BY <1>4, <2>1, <2>2, Zenon
<1>8. /\ HandledIsWritten' /\ Coming' = Tail(Coming)
      /\ Len(handled') = Len(handled) + 1
  BY <1>1, <1>7, NextHandled DEF m
<1>9. TypeOK'
  <2>1. /\ pending' \in 0 .. Len(handled') /\ seen' \subseteq 1 .. Len(handled')
        /\ submitted'.message \in 0 .. Len(handled')
    BY <1>0, <1>8 DEF TypeOK
  <2>2. length' \in 0 .. MaxMessage
    BY <1>6, BitstreamAssumption
  <2>3. readBuffer' \in Seq(Bytes) /\ wire' \in Seq(Bytes) /\ stopped' \in BOOLEAN
    BY <1>7, EmptyType, Zenon
  <2>4. draining' \in BOOLEAN /\ Len(written') <= MaxMessages
    BY DEF TypeOK
  <2> QED
    BY <2>1, <2>2, <2>3, <2>4 DEF TypeOK
<1>10. Sides'
  <2>1. Len(readBuffer') = 0
    OBVIOUS
  <2> QED
    BY <1>6, <1>7, <2>1 DEF Sides
<1>11. Aligned'
  <2>1. (Stream(Coming))' = Stream(Coming') /\ Begun' = <<>>
    BY <1>6 DEF Stream, Begun
  <2>2. <<>> \o <<>> = <<>> /\ <<>> \o wire' = wire'
    OBVIOUS
  <2>3. (Begun' \o readBuffer') \o wire' = Stream(Coming')
    BY <1>5, <1>8, <2>1, <2>2, Zenon DEF after
  <2> QED
    BY <1>6, <2>1, <2>3 DEF Aligned
<1>12. OnlyOversizeStops'
  BY <1>7 DEF OnlyOversizeStops
<1> QED
  BY <1>8, <1>9, <1>10, <1>11, <1>12

\* One read of read_exact.
LEMMA ReadBytesInv ==
  ASSUME IInv, ReadBytes
  PROVE  IInv'
<1> USE DEF IInv
<1> DEFINE wanted == IF length = 0 THEN 4 ELSE length
<1>0. Begun \in Seq(Bytes) /\ Begun \o readBuffer \in Seq(Bytes)
  BY ComingFacts DEF ReadBytes
<1>1. /\ side = "pc" /\ ~ stopped
      /\ UNCHANGED <<side, form, written, draining, pending, sps, pps, session, unmade, seen, submitted>>
  BY DEF ReadBytes, decoderVars
<1>2. PICK n \in 1 .. Min({wanted - Len(readBuffer), Len(wire)}) :
        LET got == readBuffer \o SubSeq(wire, 1, n)
        IN /\ wire' = SubSeq(wire, n + 1, Len(wire))
           /\ IF Len(got) < wanted
              THEN readBuffer' = got /\ UNCHANGED <<length, stopped, handled>>
              ELSE /\ readBuffer' = <<>>
                   /\ IF length = 0 THEN TakeLength(FromLittleEndian(got)) ELSE TakeBody(got)
  BY DEF ReadBytes
<1>3. readBuffer \in Seq(Bytes) /\ wire \in Seq(Bytes) /\ length \in Nat /\ wanted \in Nat
  BY DEF TypeOK
<1>4. Len(readBuffer) \in Nat /\ Len(wire) \in Nat /\ Len(readBuffer) < wanted
  BY <1>1, <1>3 DEF Sides
<1> HIDE DEF wanted
<1>5. n \in 0 .. Len(wire) /\ n <= wanted - Len(readBuffer)
  <2> DEFINE x == wanted - Len(readBuffer)
             y == Len(wire)
  <2>1. x \in Int /\ y \in Int
    BY <1>3, <1>4
  <2> HIDE DEF x, y
  <2>2. Min({x, y}) \in {x, y} /\ Min({x, y}) <= x /\ Min({x, y}) <= y
    BY <2>1, Z3 DEF Min
  <2>3. n \in Int /\ 1 <= n /\ n <= Min({x, y})
    <3>1. n \in 1 .. Min({x, y})
      BY <1>2 DEF x, y
    <3>2. Min({x, y}) \in Int
      BY <2>1, <2>2
    <3> QED
      BY <3>1, <3>2
  <2>4. n <= x /\ n <= y
    BY <2>1, <2>2, <2>3
  <2> QED
    BY <2>1, <2>3, <2>4 DEF x, y
<1> DEFINE a == SubSeq(wire, 1, n)
           b == SubSeq(wire, n + 1, Len(wire))
           got == readBuffer \o a
<1>6. a \in Seq(Bytes) /\ b \in Seq(Bytes) /\ a \o b = wire /\ Len(a) = n
  BY <1>3, <1>5, CutInTwo, Zenon
<1>7. /\ wire' = b
      /\ IF Len(got) < wanted
         THEN readBuffer' = got /\ UNCHANGED <<length, stopped, handled>>
         ELSE /\ readBuffer' = <<>>
              /\ IF length = 0 THEN TakeLength(FromLittleEndian(got)) ELSE TakeBody(got)
  BY <1>2
<1> HIDE DEF a, b
<1>8. Join(Bytes, readBuffer, a, got)
  BY <1>3, <1>6, JoinOf, Zenon
<1>9. (Begun \o got) \o b = Stream(Coming)
  <2>1. (Begun \o readBuffer) \o wire = Stream(Coming)
    BY <1>1 DEF Aligned
  <2>2. Associates(Begun, readBuffer, a) /\ Associates(Begun \o readBuffer, a, b)
    BY <1>0, <1>3, <1>6, Associative, Zenon
  <2>3. (Begun \o (readBuffer \o a)) \o b = (Begun \o readBuffer) \o (a \o b)
    BY <2>2, Zenon DEF Associates
  <2> QED
    BY <1>6, <2>1, <2>3, Zenon
<1> HIDE DEF got
<1>10. got \in Seq(Bytes) /\ Len(got) = Len(readBuffer) + Len(a)
  BY <1>8, Zenon DEF Join
<1>11. Len(got) < wanted \/ Len(got) = wanted
  <2>1. Len(got) = Len(readBuffer) + n
    BY <1>6, <1>10, Zenon
  <2> QED
    BY <1>3, <1>4, <1>5, <2>1
<1>12. wire' \in Seq(Bytes) /\ (Begun \o got) \o wire' = Stream(Coming)
  BY <1>6, <1>7, <1>9, Zenon
<1>13. CASE Len(got) < wanted
  BY <1>1, <1>7, <1>10, <1>12, <1>13, ReadPart DEF wanted
<1>14. CASE ~ (Len(got) < wanted) /\ length = 0
  <2>1. wanted = 4
    BY <1>14 DEF wanted
  <2>2. Len(got) = 4
    BY <1>11, <1>14, <2>1, Zenon
  <2> QED
    BY <1>1, <1>7, <1>10, <1>12, <1>14, <2>2, ReadLength
<1>15. CASE ~ (Len(got) < wanted) /\ length # 0
  <2>1. Len(got) = length
    BY <1>11, <1>15, Zenon DEF wanted
  <2> QED
    BY <1>1, <1>7, <1>10, <1>12, <1>15, <2>1, ReadBody
<1> QED
  BY <1>13, <1>14, <1>15
LEMMA InitInv ==
  ASSUME Init
  PROVE  IInv
<1> USE DEF Init
<1>1. TypeOK
  <2>1. <<>> \in Seq(Bytes)
    BY EmptyType, Zenon
  <2>2. 0 \in 0 .. MaxMessage /\ Len(written) <= MaxMessages /\ Len(handled) = 0
    BY PathAssumption, BitstreamAssumption
  <2>3. pending \in 0 .. Len(handled) /\ seen \subseteq 1 .. Len(handled)
    BY <2>2
  <2>4. submitted.message \in 0 .. Len(handled)
    BY <2>2 DEF NoPicture
  <2> QED
    BY <2>1, <2>2, <2>3, <2>4 DEF TypeOK
<1>2. Sides
  BY DEF Sides
<1>3. HandledIsWritten
  BY DEF HandledIsWritten
<1>4. Coming = <<>>
  BY DEF Coming
<1>5. Aligned
  <2>1. Stream(Coming) = <<>>
    BY <1>4, StreamEmpty, Zenon
  <2>2. Begun = <<>> /\ <<>> \o <<>> = <<>>
    BY DEF Begun
  <2>3. (Begun \o readBuffer) \o wire = Stream(Coming)
    BY <2>1, <2>2, Zenon
  <2> QED
    BY <2>3 DEF Aligned
<1>6. OnlyOversizeStops
  BY DEF OnlyOversizeStops
<1> QED
  BY <1>1, <1>2, <1>3, <1>5, <1>6 DEF IInv

LEMMA StepInv ==
  ASSUME IInv, [Next]_vars
  PROVE  IInv'
<1>1. CASE WriteHello
  <2>1. [kind |-> "hello"] \in Messages
    BY <1>1 DEF WriteHello, Messages, IpadMessages
  <2> QED
    BY <1>1, <2>1, WriteInv DEF WriteHello
<1>2. CASE WriteVideo
  <2>1. PICK nals \in Keyframes \cup Pframes :
          Write([kind |-> "video", nals |-> nals, h264 |-> to_annex_b(Serialize(form, nals))])
    BY <1>2 DEF WriteVideo
  <2>2. [kind |-> "video", nals |-> nals, h264 |-> to_annex_b(Serialize(form, nals))] \in Messages
    BY <1>2 DEF WriteVideo, Messages, IpadMessages
  <2> QED
    BY <2>1, <2>2, WriteInv, Zenon
<1>3. CASE WriteTouch
  <2>1. PICK events \in Touches : Write([kind |-> "touch", events |-> events])
    BY <1>3 DEF WriteTouch
  <2>2. [kind |-> "touch", events |-> events] \in Messages
    BY <1>3 DEF WriteTouch, Messages, PcMessages
  <2> QED
    BY <2>1, <2>2, WriteInv, Zenon
<1>4. CASE WritePing
  <2>1. [kind |-> "ping"] \in Messages
    BY <1>4 DEF WritePing, Messages, PcMessages
  <2> QED
    BY <1>4, <2>1, WriteInv DEF WritePing
<1>5. CASE ReceiveBytes
  BY <1>5, ReceiveBytesInv
<1>6. CASE DrainMessage
  BY <1>6, DrainMessageInv
<1>7. CASE DecodeOne
  BY <1>7, DecodeInv
<1>8. CASE ReadBytes
  BY <1>8, ReadBytesInv
<1>9. CASE UNCHANGED vars
  <2> USE <1>9 DEF vars, streamVars, readerVars, decoderVars, IInv
  <2>1. TypeOK'
    BY DEF TypeOK
  <2>2. Sides'
    BY DEF Sides
  <2>3. HandledIsWritten'
    BY DEF HandledIsWritten, Messages, IpadMessages, PcMessages
  <2>4. Aligned'
    BY DEF Aligned, Coming, Begun, Stream
  <2>5. OnlyOversizeStops'
    BY DEF OnlyOversizeStops
  <2> QED
    BY <2>1, <2>2, <2>3, <2>4, <2>5
<1> QED
  BY <1>1, <1>2, <1>3, <1>4, <1>5, <1>6, <1>7, <1>8, <1>9 DEF Next

THEOREM Invariant == Spec => []IInv
<1>1. Init => IInv
  BY InitInv
<1>2. IInv /\ [Next]_vars => IInv'
  BY StepInv
<1> QED
  BY <1>1, <1>2, PTL DEF Spec

\* Type correctness: what travels are bytes, the length a receiver has read is
\* one it accepts, and the mailbox and the decoder name messages handled.
THEOREM TypeCorrect == Spec => []TypeOK
<1>1. IInv => TypeOK
  BY DEF IInv
<1> QED
  BY <1>1, Invariant, PTL

\* However TCP cuts the stream, the receiver has taken the messages that were
\* written, whole, in order, none twice and none left out, for every encoder,
\* batch of touches and number of messages (popMessage and read_message
\* against write_message, decode_touch and parseVideoPayload against the callers).
THEOREM TakenAsWritten == Spec => []TakesWhatWasWritten
<1>1. IInv => TakesWhatWasWritten
  <2> SUFFICES ASSUME IInv PROVE TakesWhatWasWritten
    OBVIOUS
  <2> DEFINE S == {Meaning(m) : m \in Messages}
             ms == [i \in DOMAIN written |-> Meaning(written[i])]
             n == Len(handled)
  <2>1. /\ written \in Seq(Messages) /\ handled \in Seq(S) /\ Len(handled) <= Len(written)
        /\ \A i \in 1 .. Len(handled) : handled[i] = Meaning(written[i])
    BY DEF IInv, HandledIsWritten
  <2>2. \A i \in 1 .. Len(written) : Meaning(written[i]) \in S
    BY <2>1
  <2> HIDE DEF S
  <2>3. /\ ms \in Seq(S) /\ Len(ms) = Len(written)
        /\ \A i \in 1 .. Len(written) : ms[i] = Meaning(written[i])
    BY <2>1, <2>2
  <2> HIDE DEF ms
  <2>4. n \in Nat /\ n <= Len(ms) /\ \A i \in 1 .. n : handled[i] = ms[i]
    BY <2>1, <2>3
  <2>5. SubSeq(handled, 1, n) = SubSeq(ms, 1, n)
    <3> DEFINE a == SubSeq(handled, 1, n)
               b == SubSeq(ms, 1, n)
    <3>1. /\ 1 \in 1 .. Len(handled) + 1 /\ n \in 1 - 1 .. Len(handled)
          /\ 1 \in 1 .. Len(ms) + 1 /\ n \in 1 - 1 .. Len(ms)
      BY <2>1, <2>3, <2>4
    <3>2. /\ a \in Seq(S) /\ Len(a) = n - 1 + 1
          /\ \A i \in 1 .. n - 1 + 1 : a[i] = handled[1 + i - 1]
      BY <2>1, <3>1, Piece
    <3>3. /\ b \in Seq(S) /\ Len(b) = n - 1 + 1
          /\ \A i \in 1 .. n - 1 + 1 : b[i] = ms[1 + i - 1]
      BY <2>3, <3>1, Piece
    <3> HIDE DEF a, b, n
    <3>4. \A i \in 1 .. Len(a) : a[i] = b[i]
      BY <2>4, <3>2, <3>3
    <3>5. a = b
      BY <2>4, <3>2, <3>3, <3>4, SameElements
    <3> QED
      BY <3>5 DEF a, b
  <2>6. IsPrefix(handled, ms)
    BY <2>4, <2>5 DEF IsPrefix
  <2> QED
    BY <2>6 DEF TakesWhatWasWritten, ms
<1> QED
  BY <1>1, Invariant, PTL

\* A receiver gives the connection up only for a message that is too long: no
\* cut of the stream makes drainMessages or read_message lose its place in it.
THEOREM GivesUpOnlyOversize == Spec => []OnlyOversizeStops
<1>1. IInv => OnlyOversizeStops
  BY DEF IInv
<1> QED
  BY <1>1, Invariant, PTL
-----------------------------------------------------------------------------
(* Start codes *)

\* A start code of three bytes at a position, and one of four.
Three(s, i) ==
  /\ i + 2 <= Len(s)
  /\ s[i] = 0 /\ s[i + 1] = 0 /\ s[i + 2] = 1

Four(s, i) ==
  /\ i + 3 <= Len(s)
  /\ s[i] = 0 /\ s[i + 1] = 0 /\ s[i + 2] = 0 /\ s[i + 3] = 1

LEMMA ThreeBytes ==
  ASSUME NEW S, NEW b \in Seq(S), Len(b) = 3
  PROVE  b = <<0, 0, 1>> <=> b[1] = 0 /\ b[2] = 0 /\ b[3] = 1
<1>0. b[1] \in S /\ b[3] \in S
  <2>1. \A i \in 1 .. 3 : b[i] \in S
    OBVIOUS
  <2>2. 1 \in 1 .. 3 /\ 3 \in 1 .. 3
    OBVIOUS
  <2> QED
    BY <2>1, <2>2
<1>1. ASSUME b[1] = 0, b[2] = 0, b[3] = 1 PROVE b = <<0, 0, 1>>
  <2>1. <<0, 0, 1>> \in Seq(S)
    <3>1. 0 \in S /\ 1 \in S
      BY <1>0, <1>1
    <3> QED
      BY <3>1
  <2> DEFINE c == <<0, 0, 1>>
  <2>2. c \in Seq(S) /\ Len(c) = 3 /\ c[1] = 0 /\ c[2] = 0 /\ c[3] = 1
    BY <2>1
  <2> HIDE DEF c
  <2>3. \A i \in 1 .. 3 : b[i] = c[i]
    BY <1>1, <2>2
  <2>4. b = c
    BY <2>2, <2>3, SameElements
  <2> QED
    BY <2>4 DEF c
<1> QED
  BY <1>1

LEMMA FourBytes ==
  ASSUME NEW S, NEW b \in Seq(S), Len(b) = 4
  PROVE  b = <<0, 0, 0, 1>> <=> b[1] = 0 /\ b[2] = 0 /\ b[3] = 0 /\ b[4] = 1
<1>0. b[1] \in S /\ b[4] \in S
  OBVIOUS
<1>1. ASSUME b[1] = 0, b[2] = 0, b[3] = 0, b[4] = 1 PROVE b = <<0, 0, 0, 1>>
  <2>1. <<0, 0, 0, 1>> \in Seq(S)
    <3>1. 0 \in S /\ 1 \in S
      BY <1>0, <1>1
    <3> QED
      BY <3>1
  <2> DEFINE c == <<0, 0, 0, 1>>
  <2>2. c \in Seq(S) /\ Len(c) = 4 /\ c[1] = 0 /\ c[2] = 0 /\ c[3] = 0 /\ c[4] = 1
    BY <2>1
  <2> HIDE DEF c
  <2>3. \A i \in 1 .. 4 : b[i] = c[i]
    BY <1>1, <2>2
  <2>4. b = c
    BY <2>2, <2>3, SameElements
  <2> QED
    BY <2>4 DEF c
<1> QED
  BY <1>1

LEMMA ThreeIn ==
  ASSUME NEW S, NEW s \in Seq(S), NEW i \in 1 .. Len(s)
  PROVE  (i + 2 <= Len(s) /\ SubSeq(s, i, i + 2) = <<0, 0, 1>>) <=> Three(s, i)
<1> SUFFICES ASSUME i + 2 <= Len(s)
             PROVE  SubSeq(s, i, i + 2) = <<0, 0, 1>> <=> s[i] = 0 /\ s[i + 1] = 0 /\ s[i + 2] = 1
  BY DEF Three
<1> DEFINE b == SubSeq(s, i, i + 2)
<1>1. i \in 1 .. Len(s) + 1 /\ i + 2 \in i - 1 .. Len(s)
  OBVIOUS
<1>2. /\ b \in Seq(S) /\ Len(b) = (i + 2) - i + 1
      /\ \A j \in 1 .. (i + 2) - i + 1 : b[j] = s[i + j - 1]
  BY <1>1, Piece
<1> HIDE DEF b
<1>3. Len(b) = 3 /\ b[1] = s[i] /\ b[2] = s[i + 1] /\ b[3] = s[i + 2]
  <2>1. (i + 2) - i + 1 = 3 /\ i + 1 - 1 = i /\ i + 2 - 1 = i + 1 /\ i + 3 - 1 = i + 2
    OBVIOUS
  <2>2. 1 \in 1 .. 3 /\ 2 \in 1 .. 3 /\ 3 \in 1 .. 3
    OBVIOUS
  <2> QED
    BY <1>2, <2>1, <2>2
<1>4. b = <<0, 0, 1>> <=> b[1] = 0 /\ b[2] = 0 /\ b[3] = 1
  BY <1>2, <1>3, ThreeBytes
<1> QED
  BY <1>3, <1>4 DEF b

LEMMA FourIn ==
  ASSUME NEW S, NEW s \in Seq(S), NEW i \in 1 .. Len(s)
  PROVE  (i + 3 <= Len(s) /\ SubSeq(s, i, i + 3) = <<0, 0, 0, 1>>) <=> Four(s, i)
<1> SUFFICES ASSUME i + 3 <= Len(s)
             PROVE  SubSeq(s, i, i + 3) = <<0, 0, 0, 1>> <=>
                      s[i] = 0 /\ s[i + 1] = 0 /\ s[i + 2] = 0 /\ s[i + 3] = 1
  BY DEF Four
<1> DEFINE b == SubSeq(s, i, i + 3)
<1>1. i \in 1 .. Len(s) + 1 /\ i + 3 \in i - 1 .. Len(s)
  OBVIOUS
<1>2. /\ b \in Seq(S) /\ Len(b) = (i + 3) - i + 1
      /\ \A j \in 1 .. (i + 3) - i + 1 : b[j] = s[i + j - 1]
  BY <1>1, Piece
<1> HIDE DEF b
<1>3. Len(b) = 4 /\ b[1] = s[i] /\ b[2] = s[i + 1] /\ b[3] = s[i + 2] /\ b[4] = s[i + 3]
  <2>1. (i + 3) - i + 1 = 4 /\ i + 1 - 1 = i /\ i + 2 - 1 = i + 1 /\ i + 3 - 1 = i + 2
        /\ i + 4 - 1 = i + 3
    OBVIOUS
  <2>2. 1 \in 1 .. 4 /\ 2 \in 1 .. 4 /\ 3 \in 1 .. 4 /\ 4 \in 1 .. 4
    OBVIOUS
  <2> QED
    BY <1>2, <2>1, <2>2
<1>4. b = <<0, 0, 0, 1>> <=> b[1] = 0 /\ b[2] = 0 /\ b[3] = 0 /\ b[4] = 1
  BY <1>2, <1>3, FourBytes
<1> QED
  BY <1>3, <1>4 DEF b

LEMMA StartCodeIs ==
  ASSUME NEW s \in Seq(Bytes), NEW i \in 1 .. Len(s)
  PROVE  StartCode(s, i) = IF Four(s, i) THEN 4 ELSE IF Three(s, i) THEN 3 ELSE 0
<1> DEFINE four == <<0, 0, 0, 1>>
           three == <<0, 0, 1>>
           at(code) == /\ i + Len(code) - 1 <= Len(s)
                       /\ SubSeq(s, i, i + Len(code) - 1) = code
<1>1. i + Len(four) - 1 = i + 3 /\ i + Len(three) - 1 = i + 2
  OBVIOUS
<1>2. at(four) <=> Four(s, i)
  <2>1. (i + 3 <= Len(s) /\ SubSeq(s, i, i + 3) = <<0, 0, 0, 1>>) <=> Four(s, i)
    BY FourIn, Zenon
  <2> QED
    BY <1>1, <2>1, Zenon
<1>3. at(three) <=> Three(s, i)
  <2>1. (i + 2 <= Len(s) /\ SubSeq(s, i, i + 2) = <<0, 0, 1>>) <=> Three(s, i)
    BY ThreeIn, Zenon
  <2> QED
    BY <1>1, <2>1, Zenon
<1>4. StartCode(s, i) = CASE at(four) -> 4 [] at(three) -> 3 [] OTHER -> 0
  BY DEF StartCode
<1> HIDE DEF at, four, three
<1>5. ~ (Four(s, i) /\ Three(s, i))
  BY DEF Four, Three
<1> QED
  BY <1>2, <1>3, <1>4, <1>5

LEMMA HasStartCodeIs ==
  ASSUME NEW s \in Seq(Bytes)
  PROVE  HasStartCode(s) <=> \E i \in 1 .. Len(s) - 2 : Three(s, i)
<1>1. ASSUME NEW i \in 1 .. Len(s) - 2
      PROVE  SubSeq(s, i, i + 2) = <<0, 0, 1>> <=> Three(s, i)
  <2>1. Len(s) \in Nat
    OBVIOUS
  <2>2. i \in 1 .. Len(s) /\ i + 2 <= Len(s)
    BY <2>1
  <2>3. (i + 2 <= Len(s) /\ SubSeq(s, i, i + 2) = <<0, 0, 1>>) <=> Three(s, i)
    BY <2>2, ThreeIn, Zenon
  <2> QED
    BY <2>2, <2>3, Zenon
<1> QED
  BY <1>1, Zenon DEF HasStartCode

-----------------------------------------------------------------------------
(* Units, each behind c bytes of its own *)

\* Where the units are: pos[k] is where the k-th ends.
Laid(nals, codes, c, pos, data) ==
  LET n == Len(nals)
  IN /\ data \in Seq(Bytes) /\ c \in Nat /\ n \in Nat
     /\ pos \in [0 .. n -> Nat] /\ pos[0] = 0 /\ pos[n] = Len(data)
     /\ \A k \in 1 .. n : nals[k] \in Seq(Bytes) /\ Len(nals[k]) \in Nat
     /\ \A k \in 1 .. n : pos[k] = pos[k - 1] + c + Len(nals[k])
     /\ \A k \in 0 .. n : pos[k] <= Len(data)
     /\ \A k \in 1 .. n : \A j \in 1 .. c : data[pos[k - 1] + j] = codes[k][j]
     /\ \A k \in 1 .. n : \A j \in 1 .. Len(nals[k]) : data[pos[k - 1] + c + j] = nals[k][j]

LEMMA UnitsLaid ==
  ASSUME NEW nals \in Seq(Seq(Bytes)), NEW codes, NEW c \in Nat,
         \A k \in 1 .. Len(nals) : codes[k] \in Seq(Bytes) /\ Len(codes[k]) = c
  PROVE  \E pos : Laid(nals, codes, c, pos, FlattenSeq([k \in DOMAIN nals |-> codes[k] \o nals[k]]))
<1> DEFINE n == Len(nals)
           ss == [k \in DOMAIN nals |-> codes[k] \o nals[k]]
           data == FlattenSeq(ss)
<1>0. n \in Nat /\ DOMAIN nals = 1 .. n
  OBVIOUS
<1>1. ASSUME NEW k \in 1 .. n
      PROVE  nals[k] \in Seq(Bytes) /\ Len(nals[k]) \in Nat
  <2>1. nals[k] \in Seq(Bytes)
    BY <1>0
  <2> DEFINE u == nals[k]
  <2>2. u \in Seq(Bytes)
    BY <2>1
  <2> HIDE DEF u
  <2>3. Len(u) \in Nat
    BY <2>2
  <2> QED
    BY <2>2, <2>3 DEF u
<1> HIDE DEF n
<1>2. ASSUME NEW k \in 1 .. n
      PROVE  Join(Bytes, codes[k], nals[k], codes[k] \o nals[k])
  <2>1. codes[k] \in Seq(Bytes) /\ nals[k] \in Seq(Bytes)
    BY <1>1 DEF n
  <2> QED
    BY <2>1, JoinOf, Zenon
<1>3. \A k \in 1 .. n : Len(codes[k]) = c
  BY DEF n
<1>4. /\ ss \in Seq(Seq(Bytes)) /\ Len(ss) = n
      /\ \A k \in 1 .. n : Join(Bytes, codes[k], nals[k], ss[k])
  <2>1. \A k \in 1 .. n : codes[k] \o nals[k] \in Seq(Bytes)
    BY <1>2, Zenon DEF Join
  <2>2. ss = [k \in 1 .. n |-> codes[k] \o nals[k]]
    BY <1>0
  <2> HIDE DEF ss
  <2>3. ss \in Seq(Seq(Bytes)) /\ Len(ss) = n
    BY <1>0, <2>1, <2>2
  <2>4. \A k \in 1 .. n : ss[k] = codes[k] \o nals[k]
    BY <2>2
  <2> QED
    BY <1>2, <2>3, <2>4, Zenon
<1> HIDE DEF ss
<1>5. PICK pos : Pieces(pos, ss, data)
  BY <1>4, PiecesInPlace, Zenon
<1>6. data \in Seq(Bytes)
  BY <1>4, FlattenType, Zenon
<1> HIDE DEF data
<1>7. /\ pos \in [0 .. n -> Nat] /\ pos[0] = 0 /\ pos[n] = Len(data)
      /\ \A k \in 1 .. n : pos[k] = pos[k - 1] + Len(ss[k])
      /\ \A k \in 0 .. n : pos[k] <= Len(data)
      /\ \A k \in 1 .. n : \A j \in 1 .. Len(ss[k]) : data[pos[k - 1] + j] = ss[k][j]
  BY <1>4, <1>5, Zenon DEF Pieces
<1>8. ASSUME NEW k \in 1 .. n
      PROVE  /\ pos[k] = pos[k - 1] + c + Len(nals[k])
             /\ \A j \in 1 .. c : data[pos[k - 1] + j] = codes[k][j]
             /\ \A j \in 1 .. Len(nals[k]) : data[pos[k - 1] + c + j] = nals[k][j]
  <2> DEFINE u == nals[k]
             s == ss[k]
             x == codes[k]
             p == pos[k - 1]
  <2>1. /\ Len(u) \in Nat /\ Len(s) = c + Len(u)
        /\ \A j \in 1 .. c : s[j] = x[j]
        /\ \A j \in 1 .. Len(u) : s[c + j] = u[j]
    BY <1>1, <1>3, <1>4, Zenon DEF Join
  <2>2. p \in Nat
    BY <1>0, <1>7
  <2>3. /\ pos[k] = p + Len(s)
        /\ \A j \in 1 .. Len(s) : data[p + j] = s[j]
    BY <1>7, Zenon
  <2> HIDE DEF u, s, x, p
  <2>4. pos[k] = p + c + Len(u)
    BY <2>1, <2>2, <2>3
  <2>5. ASSUME NEW j \in 1 .. c PROVE data[p + j] = x[j]
    <3>1. j \in 1 .. Len(s)
      BY <2>1
    <3> QED
      BY <2>1, <2>3, <3>1
  <2>6. ASSUME NEW j \in 1 .. Len(u) PROVE data[p + c + j] = u[j]
    <3>1. c + j \in 1 .. Len(s) /\ p + (c + j) = p + c + j
      BY <2>1, <2>2
    <3>2. data[p + (c + j)] = s[c + j]
      BY <2>3, <3>1
    <3> QED
      BY <2>1, <3>1, <3>2
  <2> QED
    BY <2>4, <2>5, <2>6 DEF u, s, x, p
<1>9. Laid(nals, codes, c, pos, data)
  BY <1>0, <1>1, <1>6, <1>7, <1>8, Zenon DEF Laid, n
<1> QED
  BY <1>9 DEF data, ss

\* A piece of a sequence is another one.
LEMMA PieceIs ==
  ASSUME NEW S, NEW s \in Seq(S), NEW u \in Seq(S), NEW a \in Nat,
         a + Len(u) <= Len(s), \A j \in 1 .. Len(u) : s[a + j] = u[j]
  PROVE  SubSeq(s, a + 1, a + Len(u)) = u
<1> DEFINE b == SubSeq(s, a + 1, a + Len(u))
<1>1. a + 1 \in 1 .. Len(s) + 1 /\ a + Len(u) \in (a + 1) - 1 .. Len(s)
  OBVIOUS
<1>2. /\ b \in Seq(S) /\ Len(b) = (a + Len(u)) - (a + 1) + 1
      /\ \A j \in 1 .. (a + Len(u)) - (a + 1) + 1 : b[j] = s[(a + 1) + j - 1]
  BY <1>1, Piece
<1> HIDE DEF b
<1>3. Len(b) = Len(u)
  BY <1>2
<1>4. ASSUME NEW j \in 1 .. Len(b) PROVE b[j] = u[j]
  <2>1. j \in 1 .. (a + Len(u)) - (a + 1) + 1 /\ (a + 1) + j - 1 = a + j /\ j \in 1 .. Len(u)
    BY <1>3
  <2> QED
    BY <1>2, <2>1
<1>5. b = u
  BY <1>2, <1>3, <1>4, SameElements
<1> QED
  BY <1>5 DEF b

\* The k-th unit and the bytes before it, cut out again.
Cut(nals, codes, c, pos, data, k) ==
  /\ pos[k - 1] \in Nat /\ pos[k] \in Nat /\ pos[k] = pos[k - 1] + c + Len(nals[k])
  /\ pos[k] <= Len(data)
  /\ SubSeq(data, pos[k - 1] + 1, pos[k - 1] + c) = codes[k]
  /\ SubSeq(data, pos[k - 1] + c + 1, pos[k]) = nals[k]

LEMMA LaidPiece ==
  ASSUME NEW nals, NEW codes, NEW c, NEW pos, NEW data, Laid(nals, codes, c, pos, data),
         NEW k \in 1 .. Len(nals), codes[k] \in Seq(Bytes), Len(codes[k]) = c
  PROVE  Cut(nals, codes, c, pos, data, k)
<1> DEFINE p == pos[k - 1]
           q == pos[k]
           u == nals[k]
           x == codes[k]
           l == Len(data)
<1>1. /\ data \in Seq(Bytes) /\ c \in Nat /\ Len(nals) \in Nat
      /\ pos \in [0 .. Len(nals) -> Nat]
      /\ \A i \in 0 .. Len(nals) : pos[i] <= l
  BY Zenon DEF Laid
<1>2. k - 1 \in 0 .. Len(nals) /\ k \in 0 .. Len(nals)
  BY <1>1
<1>3. p \in Nat /\ q \in Nat /\ q <= l
  BY <1>1, <1>2
<1>4. /\ u \in Seq(Bytes) /\ Len(u) \in Nat /\ q = p + c + Len(u)
      /\ \A j \in 1 .. c : data[p + j] = x[j]
      /\ \A j \in 1 .. Len(u) : data[p + c + j] = u[j]
  BY Zenon DEF Laid
<1>5. x \in Seq(Bytes) /\ Len(x) = c
  OBVIOUS
<1> HIDE DEF p, q, u, x
<1>6. SubSeq(data, p + 1, p + c) = x
  <2>1. p + Len(x) <= Len(data) /\ \A j \in 1 .. Len(x) : data[p + j] = x[j]
    <3>1. p + c <= l
      <4>1. l \in Nat
        BY <1>1
      <4> HIDE DEF l
      <4> QED
        BY <1>1, <1>3, <1>4, <4>1
    <3> QED
      BY <1>4, <1>5, <3>1, Zenon
  <2>2. SubSeq(data, p + 1, p + Len(x)) = x
    BY <1>1, <1>3, <1>5, <2>1, PieceIs, Zenon
  <2> QED
    BY <1>5, <2>2, Zenon
<1>7. SubSeq(data, p + c + 1, q) = u
  <2> DEFINE a == p + c
  <2>1. a \in Nat /\ a + Len(u) = q
    BY <1>1, <1>3, <1>4
  <2>2. a + Len(u) <= Len(data) /\ \A j \in 1 .. Len(u) : data[a + j] = u[j]
    BY <1>3, <1>4, <2>1, Zenon
  <2> HIDE DEF a
  <2>3. SubSeq(data, a + 1, a + Len(u)) = u
    BY <1>1, <1>4, <2>1, <2>2, PieceIs, Zenon
  <2>4. SubSeq(data, a + 1, q) = u
    BY <2>1, <2>3, Zenon
  <2> QED
    BY <2>4 DEF a
<1> QED
  BY <1>3, <1>4, <1>6, <1>7, Zenon DEF Cut, p, q, u, x, l

-----------------------------------------------------------------------------
(* Length-prefixed units are converted to units behind start codes *)

LEMMA FirstAndRest ==
  ASSUME NEW S, NEW s \in Seq(S), s # <<>>
  PROVE  s[1] \in S /\ Tail(s) \in Seq(S) /\ s = <<s[1]>> \o Tail(s)
<1> DEFINE t == Tail(s)
           c == <<s[1]>> \o t
<1>1. /\ s[1] \in S /\ t \in Seq(S) /\ Len(t) = Len(s) - 1 /\ Len(s) \in Nat
      /\ \A i \in 1 .. Len(s) - 1 : t[i] = s[i + 1]
  OBVIOUS
<1> HIDE DEF t
<1>2. /\ c \in Seq(S) /\ Len(c) = Len(s) /\ c[1] = s[1]
      /\ \A i \in 1 .. Len(t) : c[i + 1] = t[i]
  BY <1>1
<1> HIDE DEF c
<1>3. ASSUME NEW i \in 1 .. Len(s) PROVE s[i] = c[i]
  <2>1. CASE i = 1
    BY <1>2, <2>1
  <2>2. CASE i # 1
    <3>1. i - 1 \in 1 .. Len(t) /\ i - 1 \in 1 .. Len(s) - 1 /\ (i - 1) + 1 = i
      BY <1>1, <2>2
    <3>2. c[(i - 1) + 1] = t[i - 1] /\ t[i - 1] = s[(i - 1) + 1]
      BY <1>1, <1>2, <3>1
    <3> QED
      BY <3>1, <3>2
  <2> QED
    BY <2>1, <2>2
<1>4. s = c
  BY <1>2, <1>3, SameElements
<1> QED
  BY <1>1, <1>4 DEF c, t

\* The sequences behind the k-th, put together.
RestOf(ss, k) == FlattenSeq(SubSeq(ss, k + 1, Len(ss)))

LEMMA FlattenRest ==
  ASSUME NEW S, NEW ss \in Seq(Seq(S)), NEW k \in 0 .. Len(ss) - 1
  PROVE  /\ RestOf(ss, k) = ss[k + 1] \o RestOf(ss, k + 1)
         /\ RestOf(ss, k + 1) \in Seq(S) /\ ss[k + 1] \in Seq(S)
<1> DEFINE U == Seq(S)
           b == SubSeq(ss, k + 1, Len(ss))
<1>1. /\ b \in Seq(U) /\ b # <<>> /\ b[1] = ss[k + 1]
      /\ SubSeq(ss, (k + 1) + 1, Len(ss)) = Tail(b)
  BY ComingTail
<1> HIDE DEF b
<1>2. b[1] \in U /\ Tail(b) \in Seq(U) /\ b = <<b[1]>> \o Tail(b)
  <2> HIDE DEF U
  <2> QED
    BY <1>1, FirstAndRest
<1>3. FlattenSeq(<<b[1]>> \o Tail(b)) = b[1] \o FlattenSeq(Tail(b))
  BY <1>2, FlattenCons, Zenon
<1>4. FlattenSeq(Tail(b)) \in Seq(S)
  BY <1>2, FlattenType, Zenon
<1>5. FlattenSeq(b) = b[1] \o FlattenSeq(Tail(b))
  BY <1>2, <1>3, Zenon
<1> QED
  BY <1>1, <1>2, <1>4, <1>5, Zenon DEF RestOf, b

\* What to_annex_b makes of the bytes from a position on, and the length before
\* a unit.
Yields(c, i, rest) == c[i] = <<[bytes |-> rest]>>
Prefixed(nals, codes, k) ==
  codes[k] = BigEndian(Len(nals[k])) /\ InFourBytes(Len(nals[k])) /\ Len(nals[k]) > 0

\* What to_annex_b makes of length-prefixed units.
LEMMA ConvertUnit ==
  ASSUME NEW nals, NEW codes, NEW pos, NEW data, Laid(nals, codes, 4, pos, data), NEW c,
         Converted(data, c), NEW k \in 1 .. Len(nals), Prefixed(nals, codes, k),
         NEW rest, Yields(c, pos[k], rest)
  PROVE  Yields(c, pos[k - 1], <<0, 0, 0, 1>> \o nals[k] \o rest)
<1> DEFINE u == nals[k]
           l == Len(u)
           p == pos[k - 1]
           q == pos[k]
           n == Len(data)
           x == codes[k]
<1>1. data \in Seq(Bytes) /\ l \in Nat /\ n \in Nat
  <2>1. data \in Seq(Bytes) /\ l \in Nat
    BY Zenon DEF Laid
  <2> QED
    BY <2>1
<1>2. l > 0 /\ x = BigEndian(l) /\ InFourBytes(l)
  BY Zenon DEF Prefixed
<1>3. x \in Seq(Bytes) /\ Len(x) = 4 /\ FromBigEndian(x) = l
  <2> HIDE DEF x, l
  <2> QED
    BY <1>1, <1>2, BigEndianInverse
<1>4. /\ p \in Nat /\ q \in Nat /\ q = p + 4 + l /\ q <= n
      /\ SubSeq(data, p + 1, p + 4) = x
      /\ SubSeq(data, p + 4 + 1, q) = u
  <2>1. codes[k] \in Seq(Bytes) /\ Len(codes[k]) = 4
    BY <1>3
  <2>2. Cut(nals, codes, 4, pos, data, k)
    BY <2>1, LaidPiece, Zenon
  <2> QED
    BY <2>2, Zenon DEF Cut
<1>5. c[q] = <<[bytes |-> rest]>>
  BY Zenon DEF Yields
<1>6. \A i \in 0 .. n : c[i] = Convert(data, i, c)
  BY DEF Converted
<1> HIDE DEF u, l, p, q, x, n
<1>7. p \in 0 .. n /\ p # n /\ ~ (p + 4 > n) /\ l # 0 /\ ~ (q > n) /\ p + 4 + 1 = p + 5
  BY <1>1, <1>2, <1>4
<1>8. FromBigEndian(SubSeq(data, p + 1, p + 4)) = l /\ UnitEnd(data, p) = q
  BY <1>3, <1>4, Zenon DEF UnitEnd
<1>9. c[q] # <<>> /\ c[q][1].bytes = rest
  BY <1>5
<1>10. c[p] = Convert(data, p, c)
  BY <1>6, <1>7
<1>11. /\ p # Len(data)
       /\ ~ (\/ p + 4 > Len(data) \/ FromBigEndian(SubSeq(data, p + 1, p + 4)) = 0
             \/ UnitEnd(data, p) > Len(data) \/ c[UnitEnd(data, p)] = <<>>)
  BY <1>7, <1>8, <1>9, Zenon DEF n
<1>12. Convert(data, p, c) =
         <<[bytes |-> <<0, 0, 0, 1>> \o SubSeq(data, p + 5, UnitEnd(data, p))
                       \o c[UnitEnd(data, p)][1].bytes]>>
  BY <1>11, Zenon DEF Convert
<1>13. SubSeq(data, p + 5, UnitEnd(data, p)) = u
  BY <1>4, <1>7, <1>8, Zenon
<1>14. c[p] = <<[bytes |-> <<0, 0, 0, 1>> \o u \o rest]>>
  BY <1>8, <1>9, <1>10, <1>12, <1>13, Zenon
<1> QED
  BY <1>14, Zenon DEF p, u, Yields

LEMMA AvcConverted ==
  ASSUME NEW nals \in Seq(Seq(Bytes)), NEW codes, NEW pos, NEW data,
         Laid(nals, codes, 4, pos, data),
         \A k \in 1 .. Len(nals) : Prefixed(nals, codes, k),
         ~ HasStartCode(data)
  PROVE  to_annex_b(data) = FlattenSeq([k \in DOMAIN nals |-> <<0, 0, 0, 1>> \o nals[k]])
<1> DEFINE n == Len(nals)
           ss == [k \in DOMAIN nals |-> <<0, 0, 0, 1>> \o nals[k]]
           four == <<0, 0, 0, 1>>
<1>0. n \in Nat /\ DOMAIN nals = 1 .. n
  OBVIOUS
<1>1. four \in Seq(Bytes)
  BY Small DEF SmallBytes
<1>2. ss \in Seq(Seq(Bytes)) /\ Len(ss) = n /\ \A k \in 1 .. n : ss[k] = four \o nals[k]
  <2> HIDE DEF four
  <2>1. ASSUME NEW k \in 1 .. n PROVE four \o nals[k] \in Seq(Bytes)
    <3>1. nals[k] \in Seq(Bytes)
      BY <1>0
    <3>2. Join(Bytes, four, nals[k], four \o nals[k])
      BY <1>1, <3>1, JoinOf, Zenon
    <3> QED
      BY <3>2, Zenon DEF Join
  <2>2. ss = [k \in 1 .. n |-> four \o nals[k]]
    BY <1>0 DEF four
  <2> HIDE DEF ss, n
  <2>3. ss \in Seq(Seq(Bytes)) /\ Len(ss) = n
    <3> PICK U : U = Seq(Bytes)
      OBVIOUS
    <3> DEFINE f(k) == four \o nals[k]
    <3>1. \A k \in 1 .. n : f(k) \in U
      BY <2>1
    <3>2. n \in Nat /\ ss = [k \in 1 .. n |-> f(k)]
      BY <1>0, <2>2
    <3> HIDE DEF f
    <3>3. ss \in Seq(U) /\ Len(ss) = n
      BY <3>1, <3>2
    <3> QED
      BY <3>3
  <2>4. \A k \in 1 .. n : ss[k] = four \o nals[k]
    BY <2>2
  <2> QED
    BY <2>3, <2>4
<1>3. data \in Seq(Bytes) /\ pos[0] = 0 /\ pos[n] = Len(data)
  BY Zenon DEF Laid
<1>4. PICK c : Converted(data, c)
  BY <1>3, ConversionExists
<1>5. to_annex_b(data) = IF HasStartCode(data) \/ c[0] = <<>> THEN data ELSE c[0][1].bytes
  BY <1>4, Zenon DEF Converted
<1>a. \A i \in 0 .. Len(data) : c[i] = Convert(data, i, c)
  BY <1>4, Zenon DEF Converted
<1> HIDE DEF ss, n
<1> DEFINE T == {k \in 0 .. n : Yields(c, pos[k], RestOf(ss, k))}
<1>6. n \in T
  <2>1. RestOf(ss, n) = <<>>
    <3>1. SubSeq(ss, n + 1, Len(ss)) = <<>>
      <4> DEFINE b == SubSeq(ss, n + 1, Len(ss))
      <4>1. n + 1 \in 1 .. Len(ss) + 1 /\ Len(ss) \in (n + 1) - 1 .. Len(ss)
        BY <1>0, <1>2
      <4>2. b \in Seq(Seq(Bytes)) /\ Len(b) = Len(ss) - (n + 1) + 1
        BY <1>2, <4>1, Piece, Zenon
      <4> HIDE DEF b
      <4>3. Len(b) = 0
        BY <1>0, <1>2, <4>2
      <4>4. b = <<>>
        <5> PICK U : U = Seq(Bytes)
          OBVIOUS
        <5> QED
          BY <4>2, <4>3
      <4> QED
        BY <4>4 DEF b
    <3> QED
      BY <3>1, FlattenEmpty, Zenon DEF RestOf
  <2>2. Len(data) \in 0 .. Len(data)
    BY <1>3
  <2>3. Convert(data, Len(data), c) = <<[bytes |-> <<>>]>>
    BY DEF Convert
  <2>4. Yields(c, pos[n], RestOf(ss, n))
    BY <1>3, <1>a, <2>1, <2>2, <2>3, Zenon DEF Yields
  <2> QED
    BY <1>0, <2>4
<1>7. ASSUME NEW k \in 0 .. n, \A q \in k + 1 .. n : q \in T PROVE k \in T
  <2>1. CASE k = n
    BY <1>6, <2>1
  <2>2. CASE k # n
    <3> DEFINE j == k + 1
    <3>1. j \in 1 .. n /\ j - 1 = k /\ j \in k + 1 .. n /\ k \in 0 .. Len(ss) - 1
      BY <1>0, <1>2, <2>2
    <3>2. Yields(c, pos[j], RestOf(ss, j))
      BY <1>7, <3>1
    <3> HIDE DEF T
    <3>3. RestOf(ss, k) = ss[j] \o RestOf(ss, j) /\ RestOf(ss, j) \in Seq(Bytes)
      BY <1>2, <3>1, FlattenRest, Zenon
    <3> HIDE DEF j
    <3>a. j \in 1 .. Len(nals) /\ Prefixed(nals, codes, j)
      BY <3>1, Zenon DEF n
    <3>4. Yields(c, pos[j - 1], <<0, 0, 0, 1>> \o nals[j] \o RestOf(ss, j))
      BY <1>4, <3>a, <3>2, ConvertUnit, Zenon
    <3>5. <<0, 0, 0, 1>> \o nals[j] \o RestOf(ss, j) = RestOf(ss, k)
      BY <1>2, <3>1, <3>3, Zenon DEF four
    <3>6. Yields(c, pos[k], RestOf(ss, k))
      BY <3>1, <3>4, <3>5, Zenon
    <3> QED
      BY <3>6 DEF T
  <2> QED
    BY <2>1, <2>2
<1> HIDE DEF T
<1>8. \A k \in 0 .. n : k \in T
  BY <1>0, <1>7, Downward
<1>9. c[0] = <<[bytes |-> RestOf(ss, 0)]>>
  <2>1. 0 \in T
    BY <1>0, <1>8
  <2>2. Yields(c, pos[0], RestOf(ss, 0))
    BY <2>1 DEF T
  <2> QED
    BY <1>3, <2>2, Zenon DEF Yields
<1>10. RestOf(ss, 0) = FlattenSeq(ss)
  <2> PICK U : U = Seq(Bytes)
    OBVIOUS
  <2>1. ss \in Seq(U) /\ <<>> \in Seq(U)
    BY <1>2
  <2>2. SubSeq(<<>> \o ss, Len(<<>>) + 1, Len(<<>> \o ss)) = ss
    BY <2>1, PieceBehind, Zenon
  <2>3. <<>> \o ss = ss /\ Len(<<>>) = 0
    BY <2>1
  <2>4. SubSeq(ss, 0 + 1, Len(ss)) = ss
    BY <2>2, <2>3, Zenon
  <2> QED
    BY <2>4, Zenon DEF RestOf
<1>11. c[0] # <<>> /\ c[0][1].bytes = FlattenSeq(ss)
  BY <1>9, <1>10
<1> QED
  BY <1>5, <1>11, Zenon DEF ss

-----------------------------------------------------------------------------
(* splitAnnexB *)

\* What the loop finds from an index on.
CutOuts(data) == {SubSeq(data, a, b) : a \in 1 .. Len(data) + 1, b \in 0 .. Len(data)}
Scans(data) == [end : 0 .. Len(data), units : Seq(CutOuts(data))]

\* One turn of the loop.
Scan(data, i, s) ==
  IF i = Len(data)
  THEN [end |-> Len(data), units |-> <<>>]
  ELSE IF StartCode(data, i + 1) = 0
       THEN s[i + 1]
       ELSE [end |-> i,
             units |-> IF i + StartCode(data, i + 1) = Len(data) THEN <<>>
                       ELSE <<SubSeq(data, i + StartCode(data, i + 1) + 1,
                                     s[i + StartCode(data, i + 1)].end)>>
                              \o s[i + StartCode(data, i + 1)].units]

LEMMA StartCodeEnds ==
  ASSUME NEW data \in Seq(Bytes), NEW i \in 0 .. Len(data) - 1
  PROVE  /\ StartCode(data, i + 1) \in {0, 3, 4}
         /\ i + StartCode(data, i + 1) \in 0 .. Len(data)
<1> DEFINE code == StartCode(data, i + 1)
<1>1. Len(data) \in Nat /\ i + 1 \in 1 .. Len(data)
  OBVIOUS
<1>2. code = IF Four(data, i + 1) THEN 4 ELSE IF Three(data, i + 1) THEN 3 ELSE 0
  BY <1>1, StartCodeIs, Zenon
<1>3. /\ Four(data, i + 1) => i + 1 + 3 <= Len(data)
      /\ Three(data, i + 1) => i + 1 + 2 <= Len(data)
  BY DEF Four, Three
<1> HIDE DEF code
<1>4. code \in {0, 3, 4} /\ i + code \in 0 .. Len(data)
  BY <1>1, <1>2, <1>3
<1> QED
  BY <1>4 DEF code

LEMMA ScanTurn ==
  ASSUME NEW data \in Seq(Bytes), NEW i \in 0 .. Len(data), NEW s \in [0 .. Len(data) -> Scans(data)]
  PROVE  Scan(data, i, s) \in Scans(data)
<1> DEFINE n == Len(data)
           P == CutOuts(data)
           code == StartCode(data, i + 1)
           start == i + code
<1>0. n \in Nat /\ i \in 0 .. n /\ n \in 0 .. n /\ <<>> \in Seq(P)
  BY EmptyType
<1>1. CASE i = n
  <2>1. Scan(data, i, s) = [end |-> n, units |-> <<>>]
    BY <1>1 DEF Scan
  <2> HIDE DEF P
  <2> QED
    BY <1>0, <2>1 DEF Scans, P
<1>2. CASE i # n
  <2>1. i \in 0 .. n - 1 /\ i + 1 \in 0 .. n
    BY <1>0, <1>2
  <2>2. code \in {0, 3, 4} /\ start \in 0 .. n
    BY <2>1, StartCodeEnds
  <2>3. \A q \in 0 .. n : s[q] \in [end : 0 .. n, units : Seq(P)]
    BY DEF Scans
  <2> HIDE DEF n, code, P
  <2>4. CASE code = 0
    <3>1. Scan(data, i, s) = s[i + 1]
      BY <1>2, <2>4, Zenon DEF Scan, code, n
    <3> QED
      BY <2>1, <2>3, <3>1 DEF Scans, n, P
  <2>5. CASE code # 0 /\ start = n
    <3>1. Scan(data, i, s) = [end |-> i, units |-> <<>>]
      BY <1>2, <2>5, Zenon DEF Scan, code, n
    <3>2. Scan(data, i, s) \in [end : 0 .. n, units : Seq(P)]
      BY <1>0, <3>1
    <3> QED
      BY <3>2, Zenon DEF Scans, n, P
  <2>6. CASE code # 0 /\ start # n
    <3> HIDE DEF start
    <3> DEFINE unit == SubSeq(data, start + 1, s[start].end)
               behind == s[start].units
    <3>1. Scan(data, i, s) = [end |-> i, units |-> <<unit>> \o behind]
      BY <1>2, <2>6, Zenon DEF Scan, code, n, start
    <3>2. s[start].end \in 0 .. n /\ behind \in Seq(P) /\ start + 1 \in 1 .. n + 1
      BY <1>0, <2>2, <2>3
    <3>3. unit \in P
      <4>1. \A a \in 1 .. n + 1 : \A b \in 0 .. n : SubSeq(data, a, b) \in P
        BY DEF CutOuts, P, n
      <4> QED
        BY <3>2, <4>1, Zenon DEF unit
    <3> HIDE DEF unit, behind
    <3>4. <<unit>> \o behind \in Seq(P)
      BY <3>2, <3>3
    <3>5. Scan(data, i, s) \in [end : 0 .. n, units : Seq(P)]
      BY <1>0, <3>1, <3>4
    <3> QED
      BY <3>5, Zenon DEF Scans, n, P
  <2> QED
    BY <2>4, <2>5, <2>6
<1> QED
  BY <1>1, <1>2

\* A turn looks at what is behind its index only.
LEMMA ScanLooksBehind ==
  ASSUME NEW data \in Seq(Bytes), NEW i \in 0 .. Len(data), NEW s, NEW t,
         \A q \in i + 1 .. Len(data) : s[q] = t[q]
  PROVE  Scan(data, i, s) = Scan(data, i, t)
<1> DEFINE n == Len(data)
           code == StartCode(data, i + 1)
           start == i + code
<1>0. n \in Nat
  OBVIOUS
<1>1. CASE i = n
  BY <1>1 DEF Scan
<1>2. CASE i # n
  <2>1. i \in 0 .. n - 1 /\ i + 1 \in i + 1 .. n
    BY <1>0, <1>2
  <2>2. code \in {0, 3, 4} /\ start \in 0 .. n
    BY <2>1, StartCodeEnds
  <2>3. s[i + 1] = t[i + 1]
    BY <2>1
  <2>4. code # 0 => s[start] = t[start]
    <3> SUFFICES ASSUME code # 0 PROVE s[start] = t[start]
      OBVIOUS
    <3> HIDE DEF code
    <3>1. start \in i + 1 .. n
      BY <1>0, <2>2
    <3> HIDE DEF start
    <3> QED
      BY <3>1
  <2> QED
    BY <2>3, <2>4, Zenon DEF Scan, code, start
<1> QED
  BY <1>1, <1>2

\* splitAnnexB with the values of its loop.
Scanned(data, s) ==
  /\ s \in [0 .. Len(data) -> Scans(data)]
  /\ \A i \in 0 .. Len(data) : s[i] = Scan(data, i, s)
  /\ splitAnnexB(data) = s[0].units

LEMMA ScanExists ==
  ASSUME NEW data \in Seq(Bytes)
  PROVE  \E s : Scanned(data, s)
<1> DEFINE n == Len(data)
           F == [0 .. n -> Scans(data)]
           G == [i \in 0 .. n |-> [s \in F |-> Scan(data, i, s)]]
           Loop(s) == [i \in 0 .. n |-> Scan(data, i, s)]
           scan == CHOOSE s : s = Loop(s)
<1>0. n \in Nat /\ [end |-> n, units |-> <<>>] \in Scans(data)
  <2> DEFINE P == CutOuts(data)
  <2>1. n \in Nat /\ n \in 0 .. n /\ <<>> \in Seq(P)
    BY EmptyType
  <2> HIDE DEF P
  <2> QED
    BY <2>1 DEF Scans, P
<1>1. \A i \in 0 .. n : \A s \in F : Scan(data, i, s) \in Scans(data)
  BY ScanTurn
<1>3. LooksBehind(G, Scans(data), n)
  <2>1. G \in [0 .. n -> [F -> Scans(data)]]
    BY <1>1
  <2>2. \A i \in 0 .. n : \A s \in F : G[i][s] = Scan(data, i, s)
    OBVIOUS
  <2>3. ASSUME NEW i \in 0 .. n, NEW s \in F, NEW t \in F,
               \A q \in i + 1 .. n : s[q] = t[q]
        PROVE  G[i][s] = G[i][t]
    <3>1. Scan(data, i, s) = Scan(data, i, t)
      BY <2>3, ScanLooksBehind
    <3> HIDE DEF G, F
    <3> QED
      BY <2>2, <3>1
  <2> HIDE DEF G, n
  <2> QED
    BY <2>1, <2>3 DEF LooksBehind
<1> HIDE DEF n
<1>4. PICK g \in F : \A i \in 0 .. n : g[i] = G[i][g]
  <2>1. PICK v : v \in Scans(data)
    BY <1>0, Zenon
  <2> HIDE DEF G, F, Loop, scan
  <2>2. n \in Nat /\ v \in Scans(data) /\ LooksBehind(G, Scans(data), n)
    BY <1>0, <1>3, <2>1, Zenon
  <2>3. \E c \in [0 .. n -> Scans(data)] : \A p \in 0 .. n : c[p] = G[p][c]
    BY <2>2, DownExists, SMTT(40)
  <2> QED
    BY <2>3, Zenon DEF F
<1>5. g = Loop(g)
  <2>1. \A i \in 0 .. n : g[i] = Scan(data, i, g)
    BY <1>4
  <2> QED
    BY <2>1
<1>6. scan = Loop(scan)
  <2> HIDE DEF Loop
  <2> QED
    BY <1>5
<1>7. splitAnnexB(data) = scan[0].units
  BY DEF splitAnnexB, Scan, scan, n
<1> HIDE DEF scan
<1>8. \A i \in 0 .. n : scan[i] = g[i]
  <2> DEFINE S == {i \in 0 .. n : scan[i] = g[i]}
  <2>1. ASSUME NEW i \in 0 .. n, \A q \in i + 1 .. n : q \in S PROVE i \in S
    <3>1. \A q \in i + 1 .. n : scan[q] = g[q]
      BY <2>1
    <3>2. Scan(data, i, scan) = Scan(data, i, g)
      BY <3>1, ScanLooksBehind DEF n
    <3>3. scan[i] = Scan(data, i, scan) /\ g[i] = Scan(data, i, g)
      BY <1>5, <1>6
    <3> QED
      BY <3>2, <3>3
  <2> HIDE DEF S
  <2>2. \A i \in 0 .. n : i \in S
    BY <1>0, <2>1, Downward
  <2> QED
    BY <2>2 DEF S
<1>9. scan = g
  BY <1>6, <1>8
<1>10. Scanned(data, g)
  <2>1. \A i \in 0 .. n : g[i] = Scan(data, i, g)
    BY <1>5
  <2> QED
    BY <1>7, <1>9, <2>1 DEF Scanned, n
<1> QED
  BY <1>10

\* A unit that can be told from the codes around it.
Clean(u) ==
  /\ u \in Seq(Bytes) /\ Len(u) > 0 /\ u[Len(u)] # 0
  /\ \A i \in 1 .. Len(u) - 2 : ~ Three(u, i)

\* A start code of c bytes.
CodeOf(c) == IF c = 4 THEN <<0, 0, 0, 1>> ELSE <<0, 0, 1>>

\* The index where the search for the end of the k-th unit begins.
BodyStart(pos, c, k) == IF k = 0 THEN 0 ELSE pos[k - 1] + c

\* Clean units behind start codes of c bytes.
Marked(nals, codes, c, pos, data) ==
  /\ Laid(nals, codes, c, pos, data) /\ c \in {3, 4}
  /\ \A k \in 1 .. Len(nals) : codes[k] = CodeOf(c) /\ Clean(nals[k])

\* The start code before a unit is found.
LEMMA CodeHere ==
  ASSUME NEW nals, NEW codes, NEW c, NEW pos, NEW data, Marked(nals, codes, c, pos, data),
         NEW k \in 1 .. Len(nals)
  PROVE  pos[k - 1] + 1 \in 1 .. Len(data) /\ StartCode(data, pos[k - 1] + 1) = c
<1> DEFINE p == pos[k - 1]
           u == nals[k]
           n == Len(data)
           x == codes[k]
<1>1. /\ data \in Seq(Bytes) /\ c \in {3, 4} /\ Len(nals) \in Nat
      /\ pos \in [0 .. Len(nals) -> Nat]
      /\ \A i \in 0 .. Len(nals) : pos[i] <= n
  BY Zenon DEF Marked, Laid
<1>2. p \in Nat /\ pos[k] \in Nat /\ pos[k] <= n /\ n \in Nat
  <2>1. k - 1 \in 0 .. Len(nals) /\ k \in 0 .. Len(nals)
    BY <1>1
  <2> QED
    BY <1>1, <2>1
<1>3. /\ pos[k] = p + c + Len(u) /\ Len(u) \in Nat
      /\ \A j \in 1 .. c : data[p + j] = x[j]
      /\ x = CodeOf(c)
  BY Zenon DEF Marked, Laid
<1> HIDE DEF p, u, n, x
<1>4. p + c <= n
  BY <1>1, <1>2, <1>3
<1>5. CASE c = 4
  <2>1. x = <<0, 0, 0, 1>>
    BY <1>3, <1>5 DEF CodeOf
  <2>2. 1 \in 1 .. c /\ 2 \in 1 .. c /\ 3 \in 1 .. c /\ 4 \in 1 .. c
    BY <1>5
  <2>3. data[p + 1] = 0 /\ data[p + 2] = 0 /\ data[p + 3] = 0 /\ data[p + 4] = 1
    BY <1>3, <2>1, <2>2
  <2>4. p + 1 + 1 = p + 2 /\ p + 1 + 2 = p + 3 /\ p + 1 + 3 = p + 4
    BY <1>2
  <2>5. Four(data, p + 1)
    BY <1>2, <1>4, <1>5, <2>3, <2>4 DEF Four, n
  <2>6. p + 1 \in 1 .. Len(data)
    BY <1>2, <1>4, <1>5 DEF n
  <2>7. StartCode(data, p + 1) = 4
    BY <1>1, <2>5, <2>6, StartCodeIs
  <2> QED
    BY <1>5, <2>6, <2>7 DEF p
<1>6. CASE c = 3
  <2>1. x = <<0, 0, 1>>
    BY <1>3, <1>6 DEF CodeOf
  <2>2. 1 \in 1 .. c /\ 2 \in 1 .. c /\ 3 \in 1 .. c
    BY <1>6
  <2>3. data[p + 1] = 0 /\ data[p + 2] = 0 /\ data[p + 3] = 1
    BY <1>3, <2>1, <2>2
  <2>4. p + 1 + 1 = p + 2 /\ p + 1 + 2 = p + 3
    BY <1>2
  <2>5. Three(data, p + 1) /\ ~ Four(data, p + 1)
    BY <1>2, <1>4, <1>6, <2>3, <2>4 DEF Three, Four, n
  <2>6. p + 1 \in 1 .. Len(data)
    BY <1>2, <1>4, <1>6 DEF n
  <2>7. StartCode(data, p + 1) = 3
    BY <1>1, <2>5, <2>6, StartCodeIs
  <2> QED
    BY <1>6, <2>6, <2>7 DEF p
<1> QED
  BY <1>1, <1>5, <1>6

\* None is found in a unit.
LEMMA NoCodeInside ==
  ASSUME NEW nals, NEW codes, NEW c, NEW pos, NEW data, Marked(nals, codes, c, pos, data),
         NEW k \in 1 .. Len(nals), NEW i \in pos[k - 1] + c .. pos[k] - 1
  PROVE  i + 1 \in 1 .. Len(data) /\ StartCode(data, i + 1) = 0
<1> DEFINE p == pos[k - 1]
           u == nals[k]
           n == Len(data)
           l == Len(u)
<1>1. /\ data \in Seq(Bytes) /\ c \in {3, 4} /\ Len(nals) \in Nat
      /\ pos \in [0 .. Len(nals) -> Nat]
      /\ \A j \in 0 .. Len(nals) : pos[j] <= n
  BY Zenon DEF Marked, Laid
<1>2. p \in Nat /\ pos[k] \in Nat /\ pos[k] <= n /\ n \in Nat
  <2>1. k - 1 \in 0 .. Len(nals) /\ k \in 0 .. Len(nals)
    BY <1>1
  <2>2. n \in Nat
    BY <1>1
  <2> HIDE DEF n
  <2>3. pos[k - 1] \in Nat /\ pos[k] \in Nat /\ pos[k] <= n
    BY <1>1, <2>1, Zenon
  <2> QED
    BY <2>2, <2>3
<1>3. /\ pos[k] = p + c + l /\ l \in Nat
      /\ \A j \in 1 .. l : data[p + c + j] = u[j]
  BY Zenon DEF Marked, Laid
<1>4. /\ l > 0 /\ u[l] # 0
      /\ \A j \in 1 .. l - 2 : ~ Three(u, j)
  BY Zenon DEF Marked, Clean
<1> DEFINE m == i - (p + c) + 1
<1> HIDE DEF u, n, l
<1>5. i \in p + c .. p + c + l - 1
  BY <1>1, <1>2, <1>3
<1> HIDE DEF p
<1>6. m \in 1 .. l /\ i + 1 = p + c + m /\ i + 1 \in 1 .. n
  BY <1>1, <1>2, <1>3, <1>5
<1> HIDE DEF m
<1>7. ASSUME NEW j \in Nat, m + j <= l PROVE data[i + 1 + j] = u[m + j]
  <2>1. m + j \in 1 .. l /\ p + c + (m + j) = i + 1 + j
    BY <1>1, <1>2, <1>3, <1>6, <1>7
  <2> QED
    BY <1>3, <2>1
<1>8. data[i + 1] = u[m]
  BY <1>3, <1>6
\* Both codes begin with two zeros, and the last byte of the unit is none.
<1>9. m + 2 <= l \/ data[i + 1] # 0 \/ data[i + 1 + 1] # 0
  <2>1. CASE m = l
    BY <1>4, <1>8, <2>1
  <2>2. CASE m + 1 = l
    <3>1. data[i + 1 + 1] = u[l]
      BY <1>3, <1>7, <2>2
    <3> QED
      BY <1>4, <3>1
  <2> QED
    BY <1>3, <1>6, <2>1, <2>2
<1>10. ~ Three(data, i + 1)
  <2> SUFFICES ASSUME Three(data, i + 1) PROVE FALSE
    OBVIOUS
  <2>1. data[i + 1] = 0 /\ data[i + 1 + 1] = 0 /\ data[i + 1 + 2] = 1
    BY DEF Three
  <2>2. m + 2 <= l
    BY <1>9, <2>1
  <2>3. m \in 1 .. l - 2 /\ m + 1 <= l
    BY <1>3, <1>6, <2>2
  <2>4. u[m] = 0 /\ u[m + 1] = 0 /\ u[m + 2] = 1
    BY <1>7, <1>8, <2>1, <2>2, <2>3
  <2>5. Three(u, m)
    BY <2>2, <2>4 DEF Three, l
  <2> QED
    BY <1>4, <2>3, <2>5
<1>11. ~ Four(data, i + 1)
  <2> SUFFICES ASSUME Four(data, i + 1) PROVE FALSE
    OBVIOUS
  <2>1. /\ data[i + 1] = 0 /\ data[i + 1 + 1] = 0 /\ data[i + 1 + 2] = 0
        /\ data[i + 1 + 3] = 1
    BY DEF Four
  <2>2. m + 2 <= l
    BY <1>9, <2>1
  <2>3. CASE m + 2 = l
    <3>1. data[i + 1 + 2] = u[m + 2]
      BY <1>7, <2>2
    <3> QED
      BY <1>4, <2>1, <2>3, <3>1
  <2>4. CASE m + 2 # l
    <3>1. m + 3 <= l /\ m + 1 <= l /\ m + 1 \in 1 .. l - 2
      BY <1>3, <1>6, <2>2, <2>4
    <3>2. u[m + 1] = 0 /\ u[m + 2] = 0 /\ u[m + 3] = 1
      BY <1>7, <2>1, <2>2, <3>1
    <3>3. m + 1 + 1 = m + 2 /\ m + 1 + 2 = m + 3
      BY <1>6
    <3>4. Three(u, m + 1)
      BY <3>1, <3>2, <3>3 DEF Three, l
    <3> QED
      BY <1>4, <3>1, <3>4
  <2> QED
    BY <2>3, <2>4
<1>12. i + 1 \in 1 .. Len(data)
  BY <1>6 DEF n
<1>13. StartCode(data, i + 1) = 0
  BY <1>1, <1>10, <1>11, <1>12, StartCodeIs
<1> QED
  BY <1>12, <1>13

\* What the loop has found from an index in the k-th unit, or at its end, on.
Found(nals, pos, s, k, i) ==
  s[i].end = pos[k] /\ s[i].units = SubSeq(nals, k + 1, Len(nals))

LEMMA MarkedFacts ==
  ASSUME NEW nals \in Seq(Seq(Bytes)), NEW codes, NEW c, NEW pos, NEW data,
         Marked(nals, codes, c, pos, data)
  PROVE  /\ data \in Seq(Bytes) /\ c \in {3, 4} /\ Len(nals) \in Nat /\ Len(data) \in Nat
         /\ \A k \in 0 .. Len(nals) : pos[k] \in Nat /\ pos[k] <= Len(data)
         /\ pos[0] = 0 /\ pos[Len(nals)] = Len(data)
         /\ \A k \in 1 .. Len(nals) :
              /\ pos[k] = pos[k - 1] + c + Len(nals[k])
              /\ Len(nals[k]) \in Nat /\ Len(nals[k]) > 0
<1>1. /\ data \in Seq(Bytes) /\ c \in {3, 4} /\ Len(nals) \in Nat
      /\ pos \in [0 .. Len(nals) -> Nat]
      /\ \A k \in 0 .. Len(nals) : pos[k] <= Len(data)
      /\ pos[0] = 0 /\ pos[Len(nals)] = Len(data)
      /\ \A k \in 1 .. Len(nals) : pos[k] = pos[k - 1] + c + Len(nals[k])
      /\ \A k \in 1 .. Len(nals) : nals[k] \in Seq(Bytes) /\ Len(nals[k]) \in Nat
  BY Zenon DEF Marked, Laid
<1>2. \A k \in 1 .. Len(nals) : Len(nals[k]) > 0
  BY Zenon DEF Marked, Clean
<1>3. Len(data) \in Nat
  BY <1>1
<1>4. \A k \in 0 .. Len(nals) : pos[k] \in Nat
  BY <1>1
<1> QED
  BY <1>1, <1>2, <1>3, <1>4, Zenon

LEMMA ScanAtEnd ==
  ASSUME NEW nals \in Seq(Seq(Bytes)), NEW codes, NEW c, NEW pos, NEW data,
         Marked(nals, codes, c, pos, data), NEW s, Scanned(data, s)
  PROVE  Found(nals, pos, s, Len(nals), Len(data))
<1> DEFINE n == Len(nals)
           b == SubSeq(nals, n + 1, n)
<1>1. Len(data) \in 0 .. Len(data) /\ n \in Nat /\ pos[n] = Len(data)
  BY MarkedFacts
<1>2. s[Len(data)] = [end |-> Len(data), units |-> <<>>]
  <2>1. s[Len(data)] = Scan(data, Len(data), s)
    BY <1>1, Zenon DEF Scanned
  <2> QED
    BY <2>1, Zenon DEF Scan
<1>3. b = <<>>
  <2> PICK U : U = Seq(Bytes)
    OBVIOUS
  <2>1. n + 1 \in 1 .. n + 1 /\ n \in (n + 1) - 1 .. n
    BY <1>1
  <2>2. b \in Seq(U) /\ Len(b) = n - (n + 1) + 1
    BY <2>1, Piece
  <2> HIDE DEF b
  <2> QED
    BY <1>1, <2>2
<1>4. s[Len(data)].end = Len(data) /\ s[Len(data)].units = <<>>
  BY <1>2
<1> QED
  BY <1>1, <1>3, <1>4, Zenon DEF Found, b, n

LEMMA ScanInside ==
  ASSUME NEW nals \in Seq(Seq(Bytes)), NEW codes, NEW c, NEW pos, NEW data,
         Marked(nals, codes, c, pos, data), NEW s, Scanned(data, s),
         NEW k \in 1 .. Len(nals), NEW i \in pos[k - 1] + c .. pos[k] - 1,
         Found(nals, pos, s, k, i + 1)
  PROVE  Found(nals, pos, s, k, i)
<1>1. i + 1 \in 1 .. Len(data) /\ StartCode(data, i + 1) = 0
  BY NoCodeInside, Zenon
<1>2. i \in 0 .. Len(data) /\ i # Len(data)
  <2>1. Len(data) \in Nat
    BY MarkedFacts, Zenon
  <2>2. i \in Int
    <3>1. pos[k - 1] \in Nat /\ pos[k] \in Nat /\ c \in Nat
      <4>1. k - 1 \in 0 .. Len(nals) /\ k \in 0 .. Len(nals)
        OBVIOUS
      <4>2. c \in {3, 4} /\ \A j \in 0 .. Len(nals) : pos[j] \in Nat
        BY MarkedFacts, Zenon
      <4> QED
        BY <4>1, <4>2
    <3> QED
      BY <3>1
  <2> QED
    BY <1>1, <2>1, <2>2
<1>3. s[i] = Scan(data, i, s)
  BY <1>2, Zenon DEF Scanned
<1>4. s[i] = s[i + 1]
  BY <1>1, <1>2, <1>3, Zenon DEF Scan
<1> QED
  BY <1>4, Zenon DEF Found

LEMMA ScanAtCode ==
  ASSUME NEW nals \in Seq(Seq(Bytes)), NEW codes, NEW c, NEW pos, NEW data,
         Marked(nals, codes, c, pos, data), NEW s, Scanned(data, s),
         NEW k \in 1 .. Len(nals), Found(nals, pos, s, k, pos[k - 1] + c)
  PROVE  Found(nals, pos, s, k - 1, pos[k - 1])
<1>0. pos[k - 1] + 1 \in 1 .. Len(data) /\ StartCode(data, pos[k - 1] + 1) = c
  BY CodeHere
<1>a. /\ c \in {3, 4} /\ Len(data) \in Nat
      /\ \A j \in 0 .. Len(nals) : pos[j] \in Nat /\ pos[j] <= Len(data)
      /\ \A j \in 1 .. Len(nals) : /\ pos[j] = pos[j - 1] + c + Len(nals[j])
                                   /\ Len(nals[j]) \in Nat /\ Len(nals[j]) > 0
  BY MarkedFacts
<1> DEFINE i == pos[k - 1]
           start == i + c
           n == Len(data)
           N == Len(nals)
           u == nals[k]
           b == SubSeq(nals, k + 1, N)
<1>1. i + 1 \in 1 .. n /\ StartCode(data, i + 1) = c
  BY <1>0, Zenon
<1>2. /\ c \in {3, 4} /\ n \in Nat /\ i \in Nat /\ pos[k] = i + c + Len(u)
      /\ Len(u) \in Nat /\ Len(u) > 0 /\ pos[k] <= n
  <2>1. k - 1 \in 0 .. N /\ k \in 0 .. N
    OBVIOUS
  <2> QED
    BY <1>a, <2>1, Zenon
<1>3. s[start].end = pos[k] /\ s[start].units = b
  BY Zenon DEF Found
<1>4. SubSeq(data, start + 1, pos[k]) = u
  <2>1. codes[k] \in Seq(Bytes) /\ Len(codes[k]) = c /\ Laid(nals, codes, c, pos, data)
    <3>1. c \in {3, 4} /\ codes[k] = CodeOf(c) /\ Laid(nals, codes, c, pos, data)
      BY Zenon DEF Marked
    <3>2. <<0, 0, 0, 1>> \in Seq(Bytes) /\ <<0, 0, 1>> \in Seq(Bytes)
      BY Small DEF SmallBytes
    <3> QED
      BY <3>1, <3>2 DEF CodeOf
  <2>2. Cut(nals, codes, c, pos, data, k)
    BY <2>1, LaidPiece, Zenon
  <2> QED
    BY <2>2, Zenon DEF Cut
<1> HIDE DEF i, n, u, b, N
<1>5. i \in 0 .. n /\ i # n /\ start # n /\ c # 0
  BY <1>1, <1>2
<1>6. s[i] = Scan(data, i, s)
  BY <1>5, Zenon DEF Scanned, n
<1>7. Scan(data, i, s) = [end |-> i, units |-> <<u>> \o b]
  <2>1. Scan(data, i, s) = [end |-> i, units |-> <<SubSeq(data, start + 1, s[start].end)>>
                                                    \o s[start].units]
    BY <1>1, <1>5, Zenon DEF Scan, n, start
  <2> HIDE DEF start
  <2> QED
    BY <1>3, <1>4, <2>1, Zenon
<1>8. <<u>> \o b = SubSeq(nals, (k - 1) + 1, N)
  <2> PICK U : U = Seq(Bytes)
    OBVIOUS
  <2> DEFINE j == k - 1
             d == SubSeq(nals, j + 1, Len(nals))
  <2>1. nals \in Seq(U) /\ j \in 0 .. Len(nals) - 1 /\ j + 1 = k
    OBVIOUS
  <2> HIDE DEF j
  <2>2. /\ d \in Seq(U) /\ d # <<>> /\ d[1] = nals[j + 1]
        /\ SubSeq(nals, (j + 1) + 1, Len(nals)) = Tail(d)
    BY <2>1, ComingTail
  <2> HIDE DEF d
  <2>3. d = <<d[1]>> \o Tail(d)
    BY <2>2, FirstAndRest
  <2>4. d = <<nals[k]>> \o SubSeq(nals, k + 1, Len(nals))
    BY <2>1, <2>2, <2>3, Zenon
  <2> QED
    BY <2>4, Zenon DEF d, j, u, b, N
<1>9. s[i].end = i /\ s[i].units = <<u>> \o b
  BY <1>6, <1>7
<1> QED
  BY <1>8, <1>9, Zenon DEF Found, i, N

\* The client splits such bytes into the units.
LEMMA UnitsSplit ==
  ASSUME NEW nals \in Seq(Seq(Bytes)), NEW codes, NEW c, NEW pos, NEW data,
         Marked(nals, codes, c, pos, data)
  PROVE  splitAnnexB(data) = nals
<1> DEFINE n == Len(data)
           N == Len(nals)
<1>1. /\ data \in Seq(Bytes) /\ c \in {3, 4} /\ N \in Nat /\ n \in Nat
      /\ \A k \in 0 .. N : pos[k] \in Nat /\ pos[k] <= n
      /\ pos[0] = 0 /\ pos[N] = n
      /\ \A k \in 1 .. N : /\ pos[k] = pos[k - 1] + c + Len(nals[k])
                           /\ Len(nals[k]) \in Nat /\ Len(nals[k]) > 0
  BY MarkedFacts, Zenon
<1>2. PICK s : Scanned(data, s)
  BY <1>1, ScanExists
<1> DEFINE T == {i \in 0 .. n : \A k \in 0 .. N : i \in BodyStart(pos, c, k) .. pos[k] =>
                                                    Found(nals, pos, s, k, i)}
<1> HIDE DEF n, N
<1>3. ASSUME NEW i \in 0 .. n, \A q \in i + 1 .. n : q \in T PROVE i \in T
  <2> SUFFICES ASSUME NEW k \in 0 .. N, i \in BodyStart(pos, c, k) .. pos[k]
               PROVE  Found(nals, pos, s, k, i)
    OBVIOUS
  <2>1. pos[k] \in Nat /\ pos[k] <= n
    BY <1>1
  <2>2. CASE i = pos[k] /\ k = N
    <3>1. i = n
      BY <1>1, <2>2, Zenon
    <3>2. Found(nals, pos, s, N, n)
      BY <1>2, ScanAtEnd, Zenon DEF n, N
    <3> QED
      BY <2>2, <3>1, <3>2, Zenon
  <2>3. CASE i = pos[k] /\ k # N
    <3> DEFINE j == k + 1
               q == pos[k] + c
    <3>1. j \in 1 .. N /\ j - 1 = k /\ j \in 0 .. N /\ j # 0
      BY <1>1, <2>3
    <3>2. pos[j] = pos[j - 1] + c + Len(nals[j]) /\ Len(nals[j]) \in Nat /\ pos[j] <= n
      BY <1>1, <3>1, Zenon
    <3>3. BodyStart(pos, c, j) = q
      BY <3>1, Zenon DEF BodyStart
    <3>a. pos[j] = q + Len(nals[j]) /\ q \in Nat
      <4>1. pos[j] = pos[k] + c + Len(nals[j])
        BY <3>1, <3>2, Zenon
      <4> HIDE DEF j
      <4> QED
        BY <1>1, <2>1, <4>1
    <3> HIDE DEF j
    <3>4. q \in i + 1 .. n /\ q \in q .. pos[j]
      <4> DEFINE l == Len(nals[j])
                 e == pos[j]
      <4>1. q = i + c /\ c \in {3, 4} /\ n \in Nat
        BY <1>1, <2>3, Zenon
      <4>2. e = q + l /\ l \in Nat /\ e <= n /\ q \in Nat
        BY <3>2, <3>a, Zenon
      <4> HIDE DEF q, l, e
      <4>3. q \in i + 1 .. n /\ q \in q .. e
        BY <4>1, <4>2
      <4> QED
        BY <4>3 DEF e
    <3>5. q \in T
      BY <1>3, <3>4
    <3>6. Found(nals, pos, s, j, q)
      BY <3>1, <3>3, <3>4, <3>5
    <3>7. Found(nals, pos, s, j - 1, pos[j - 1])
      <4>1. Found(nals, pos, s, j, pos[j - 1] + c) /\ j \in 1 .. Len(nals)
        BY <3>1, <3>6, Zenon DEF N
      <4> HIDE DEF T
      <4> QED
        BY <1>2, <4>1, ScanAtCode, Zenon
    <3> QED
      BY <2>3, <3>1, <3>7, Zenon
  <2>4. CASE i # pos[k]
    <3>1. k # 0
      <4> SUFFICES ASSUME k = 0 PROVE FALSE
        OBVIOUS
      <4> QED
        BY <1>1, <2>4 DEF BodyStart
    <3>2. BodyStart(pos, c, k) = pos[k - 1] + c /\ k \in 1 .. N
      BY <1>1, <3>1 DEF BodyStart
    <3>3. pos[k - 1] \in Nat
      <4>1. k - 1 \in 0 .. N
        BY <1>1, <3>2
      <4> QED
        BY <1>1, <4>1
    <3>4. /\ i \in pos[k - 1] + c .. pos[k] - 1
          /\ i + 1 \in i + 1 .. n
          /\ i + 1 \in BodyStart(pos, c, k) .. pos[k]
      BY <1>1, <2>1, <2>4, <3>2, <3>3
    <3>5. Found(nals, pos, s, k, i + 1)
      BY <1>3, <3>4
    <3> HIDE DEF T
    <3> QED
      BY <1>2, <3>2, <3>4, <3>5, ScanInside, Zenon DEF N
  <2> QED
    BY <2>2, <2>3, <2>4
<1> HIDE DEF T
<1>4. \A i \in 0 .. n : i \in T
  BY <1>1, <1>3, Downward
<1>5. Found(nals, pos, s, 0, 0)
  <2>1. 0 \in T
    BY <1>1, <1>4
  <2>2. 0 \in 0 .. N /\ 0 \in BodyStart(pos, c, 0) .. pos[0]
    BY <1>1 DEF BodyStart
  <2> QED
    BY <2>1, <2>2 DEF T
<1>6. SubSeq(nals, 0 + 1, Len(nals)) = nals
  <2> PICK U : U = Seq(Bytes)
    OBVIOUS
  <2> QED
    OBVIOUS
<1> QED
  BY <1>2, <1>5, <1>6, Zenon DEF Found, Scanned

\* Units behind start codes of c bytes.
Behind(c, nals) == FlattenSeq([k \in DOMAIN nals |-> CodeOf(c) \o nals[k]])

LEMMA BehindMarked ==
  ASSUME NEW nals \in Seq(Seq(Bytes)), \A k \in 1 .. Len(nals) : Clean(nals[k]), NEW c \in {3, 4}
  PROVE  \E codes, pos : Marked(nals, codes, c, pos, Behind(c, nals))
<1> DEFINE codes == [k \in DOMAIN nals |-> CodeOf(c)]
<1>1. DOMAIN nals = 1 .. Len(nals) /\ c \in Nat
  OBVIOUS
<1>2. \A k \in 1 .. Len(nals) : codes[k] = CodeOf(c)
  BY <1>1
<1>3. CodeOf(c) \in Seq(Bytes) /\ Len(CodeOf(c)) = c
  <2>1. <<0, 0, 0, 1>> \in Seq(Bytes) /\ <<0, 0, 1>> \in Seq(Bytes)
    BY Small DEF SmallBytes
  <2> QED
    BY <2>1 DEF CodeOf
<1>4. [k \in DOMAIN nals |-> codes[k] \o nals[k]] = [k \in DOMAIN nals |-> CodeOf(c) \o nals[k]]
  OBVIOUS
<1> HIDE DEF codes
<1>5. \A k \in 1 .. Len(nals) : codes[k] \in Seq(Bytes) /\ Len(codes[k]) = c
  BY <1>2, <1>3, Zenon
<1>6. PICK pos : Laid(nals, codes, c, pos, FlattenSeq([k \in DOMAIN nals |-> codes[k] \o nals[k]]))
  BY <1>1, <1>5, UnitsLaid, Zenon
<1>7. Laid(nals, codes, c, pos, Behind(c, nals))
  BY <1>4, <1>6, Zenon DEF Behind
<1>8. Marked(nals, codes, c, pos, Behind(c, nals))
  BY <1>2, <1>7, Zenon DEF Marked
<1> QED
  BY <1>8, Zenon

\* Such bytes are left alone by the server, and split into the units by the client.
LEMMA BehindKept ==
  ASSUME NEW nals \in Seq(Seq(Bytes)), \A k \in 1 .. Len(nals) : Clean(nals[k]), NEW c \in {3, 4}
  PROVE  to_annex_b(Behind(c, nals)) = Behind(c, nals)
<1> DEFINE data == Behind(c, nals)
<1>1. PICK codes, pos : Marked(nals, codes, c, pos, data)
  BY BehindMarked, Zenon
<1> HIDE DEF data
<1>2. /\ data \in Seq(Bytes) /\ Len(data) \in Nat /\ Len(nals) \in Nat
      /\ pos[0] = 0 /\ pos[Len(nals)] = Len(data)
  BY <1>1, MarkedFacts
<1>3. CASE Len(nals) = 0
  <2>1. Len(data) = 0
    BY <1>2, <1>3
  <2>2. data = <<>>
    <3> PICK U : U = Bytes
      OBVIOUS
    <3> QED
      BY <1>2, <2>1
  <2>3. PICK s : Converted(data, s)
    BY <1>2, ConversionExists
  <2>4. s[0] = <<[bytes |-> <<>>]>>
    <3>1. 0 \in 0 .. Len(data)
      BY <2>1
    <3>2. s[0] = Convert(data, 0, s)
      BY <2>3, <3>1, Zenon DEF Converted
    <3>3. Convert(data, 0, s) = <<[bytes |-> <<>>]>>
      BY <2>1 DEF Convert
    <3> QED
      BY <3>2, <3>3
  <2>5. to_annex_b(data) = IF HasStartCode(data) \/ s[0] = <<>> THEN data ELSE s[0][1].bytes
    BY <2>3, Zenon DEF Converted
  <2>6. s[0] # <<>> /\ s[0][1].bytes = <<>>
    BY <2>4
  <2>7. to_annex_b(data) = data
    BY <2>2, <2>5, <2>6, Zenon
  <2> QED
    BY <2>7 DEF data
<1>4. CASE Len(nals) # 0
  <2>1. 1 \in 1 .. Len(nals) /\ 1 - 1 = 0
    BY <1>2, <1>4
  <2>2. pos[1 - 1] + 1 \in 1 .. Len(data) /\ StartCode(data, pos[1 - 1] + 1) = c
    BY <1>1, <2>1, CodeHere
  <2>3. pos[1 - 1] + 1 = 1
    BY <1>2, <2>1
  <2>4. 1 \in 1 .. Len(data) /\ StartCode(data, 1) = c
    BY <2>2, <2>3, Zenon
  <2>5. c = IF Four(data, 1) THEN 4 ELSE IF Three(data, 1) THEN 3 ELSE 0
    BY <1>2, <2>4, StartCodeIs, Zenon
  <2>6. \E i \in 1 .. Len(data) - 2 : Three(data, i)
    <3>1. CASE Four(data, 1)
      <4>1. 2 \in 1 .. Len(data) - 2 /\ Three(data, 2)
        BY <1>2, <3>1 DEF Four, Three
      <4> QED
        BY <4>1
    <3>2. CASE Three(data, 1)
      <4>1. 1 \in 1 .. Len(data) - 2
        BY <1>2, <3>2 DEF Three
      <4> QED
        BY <3>2, <4>1
    <3> QED
      BY <2>5, <3>1, <3>2
  <2>7. HasStartCode(data)
    BY <1>2, <2>6, HasStartCodeIs, Zenon
  <2>8. PICK s : Converted(data, s)
    BY <1>2, ConversionExists
  <2>9. to_annex_b(data) = data
    BY <2>7, <2>8, Zenon DEF Converted
  <2> QED
    BY <2>9 DEF data
<1> QED
  BY <1>3, <1>4

LEMMA BehindSplit ==
  ASSUME NEW nals \in Seq(Seq(Bytes)), \A k \in 1 .. Len(nals) : Clean(nals[k]), NEW c \in {3, 4}
  PROVE  splitAnnexB(Behind(c, nals)) = nals
<1>1. PICK codes, pos : Marked(nals, codes, c, pos, Behind(c, nals))
  BY BehindMarked, Zenon
<1> QED
  BY <1>1, UnitsSplit, Zenon

\* What an encoder returns are clean units.
LEMMA UnitsClean ==
  ASSUME NEW nals \in Keyframes \cup Pframes
  PROVE  /\ nals \in Seq(Seq(Bytes))
         /\ \A k \in 1 .. Len(nals) : Clean(nals[k]) /\ InFourBytes(Len(nals[k]))
<1>1. /\ nals \in Seq(Seq(Bytes) \ {<<>>})
      /\ \A k \in DOMAIN nals : /\ InFourBytes(Len(nals[k]))
                                /\ ~ HasStartCode(nals[k])
                                /\ Last(nals[k]) # 0
  BY EncoderAssumption, Zenon
<1>2. DOMAIN nals = 1 .. Len(nals)
  BY <1>1
<1>3. ASSUME NEW k \in 1 .. Len(nals)
      PROVE  Clean(nals[k]) /\ InFourBytes(Len(nals[k]))
  <2> DEFINE u == nals[k]
  <2>1. u \in Seq(Bytes) /\ u # <<>>
    <3> PICK U : U = Seq(Bytes) \ {<<>>}
      OBVIOUS
    <3>1. u \in U
      BY <1>1
    <3> QED
      BY <3>1
  <2>2. InFourBytes(Len(u)) /\ ~ HasStartCode(u) /\ Last(u) # 0
    BY <1>1, <1>2
  <2> HIDE DEF u
  <2>3. Len(u) > 0 /\ u[Len(u)] # 0
    BY <2>1, <2>2 DEF Last
  <2>4. \A i \in 1 .. Len(u) - 2 : ~ Three(u, i)
    BY <2>1, <2>2, HasStartCodeIs, Zenon
  <2>5. Clean(u)
    BY <2>1, <2>3, <2>4, Zenon DEF Clean
  <2> QED
    BY <2>2, <2>5 DEF u
<1>4. nals \in Seq(Seq(Bytes))
  <2> PICK V : V = Seq(Bytes)
    OBVIOUS
  <2>1. nals \in Seq(V \ {<<>>})
    BY <1>1
  <2>2. \A k \in 1 .. Len(nals) : nals[k] \in V
    BY <2>1
  <2>3. nals \in Seq(V)
    BY <2>1, <2>2
  <2> QED
    BY <2>3
<1> QED
  BY <1>3, <1>4

\* The client finds the units that the encoder returned, in either form, as long
\* as lengths cannot be taken for start codes.
LEMMA SampleNormalized ==
  ASSUME NEW f \in Forms, NEW nals \in Keyframes \cup Pframes, LengthsUnmistakable
  PROVE  splitAnnexB(to_annex_b(Serialize(f, nals))) = nals
<1> DEFINE Code(i) == CASE f = "annexb4" -> <<0, 0, 0, 1>>
                        [] f = "annexb3" -> <<0, 0, 1>>
                        [] f = "avc" -> BigEndian(Len(nals[i]))
<1>1. /\ nals \in Seq(Seq(Bytes))
      /\ \A k \in 1 .. Len(nals) : Clean(nals[k]) /\ InFourBytes(Len(nals[k]))
  BY UnitsClean, Zenon
<1>2. Serialize(f, nals) = FlattenSeq([i \in DOMAIN nals |-> Code(i) \o nals[i]])
  BY DEF Serialize
<1>3. ASSUME NEW c \in {3, 4}, \A i \in DOMAIN nals : Code(i) = CodeOf(c)
      PROVE  splitAnnexB(to_annex_b(Serialize(f, nals))) = nals
  <2>1. [i \in DOMAIN nals |-> Code(i) \o nals[i]] = [i \in DOMAIN nals |-> CodeOf(c) \o nals[i]]
    <3> HIDE DEF Code
    <3> QED
      BY <1>3
  <2>2. Serialize(f, nals) = Behind(c, nals)
    BY <1>2, <2>1, Zenon DEF Behind
  <2>3. to_annex_b(Behind(c, nals)) = Behind(c, nals) /\ splitAnnexB(Behind(c, nals)) = nals
    BY <1>1, <1>3, BehindKept, BehindSplit, Zenon
  <2> QED
    BY <2>2, <2>3, Zenon
<1>4. CASE f = "annexb4"
  <2>1. \A i \in DOMAIN nals : Code(i) = CodeOf(4)
    BY <1>4 DEF CodeOf
  <2>2. 4 \in {3, 4}
    OBVIOUS
  <2> QED
    BY <1>3, <2>1, <2>2, Zenon
<1>5. CASE f = "annexb3"
  <2>1. \A i \in DOMAIN nals : Code(i) = CodeOf(3)
    BY <1>5 DEF CodeOf
  <2>2. 3 \in {3, 4}
    OBVIOUS
  <2> QED
    BY <1>3, <2>1, <2>2, Zenon
<1>6. CASE f = "avc"
  <2> DEFINE codes == [i \in DOMAIN nals |-> BigEndian(Len(nals[i]))]
             data == FlattenSeq([i \in DOMAIN nals |-> codes[i] \o nals[i]])
  <2>1. DOMAIN nals = 1 .. Len(nals)
    BY <1>1
  <2>2. [i \in DOMAIN nals |-> Code(i) \o nals[i]] = [i \in DOMAIN nals |-> codes[i] \o nals[i]]
    BY <1>6
  <2>3. Serialize(f, nals) = data
    BY <1>2, <2>2, Zenon
  <2>4. \A k \in 1 .. Len(nals) : codes[k] = BigEndian(Len(nals[k]))
    BY <2>1
  <2> HIDE DEF codes
  <2>5. ASSUME NEW k \in 1 .. Len(nals)
        PROVE  codes[k] \in Seq(Bytes) /\ Len(codes[k]) = 4 /\ Prefixed(nals, codes, k)
    <3> DEFINE l == Len(nals[k])
    <3>1. Clean(nals[k]) /\ InFourBytes(l) /\ codes[k] = BigEndian(l)
      BY <1>1, <2>4, Zenon
    <3>2. nals[k] \in Seq(Bytes) /\ l > 0
      BY <3>1, Zenon DEF Clean
    <3>3. l \in Nat
      BY <3>2
    <3>4. Prefixed(nals, codes, k)
      BY <3>1, <3>2, Zenon DEF Prefixed
    <3> HIDE DEF l
    <3>5. BigEndian(l) \in Seq(Bytes) /\ Len(BigEndian(l)) = 4
      BY <3>1, <3>3, BigEndianInverse
    <3> QED
      BY <3>1, <3>4, <3>5, Zenon
  <2>6. PICK pos : Laid(nals, codes, 4, pos, data)
    <3>1. 4 \in Nat
      OBVIOUS
    <3>2. \A k \in 1 .. Len(nals) : codes[k] \in Seq(Bytes) /\ Len(codes[k]) = 4
      BY <2>5, Zenon
    <3> QED
      BY <1>1, <3>1, <3>2, UnitsLaid, Zenon
  <2>7. ~ HasStartCode(data)
    BY <1>6, <2>3, Zenon DEF LengthsUnmistakable
  <2> HIDE DEF data
  <2>8. to_annex_b(data) = FlattenSeq([k \in DOMAIN nals |-> <<0, 0, 0, 1>> \o nals[k]])
    <3>1. \A k \in 1 .. Len(nals) : Prefixed(nals, codes, k)
      BY <2>5, Zenon
    <3> QED
      BY <1>1, <2>6, <2>7, <3>1, AvcConverted, Zenon
  <2>9. to_annex_b(data) = Behind(4, nals)
    BY <2>8 DEF Behind, CodeOf
  <2>10. splitAnnexB(Behind(4, nals)) = nals
    <3>1. 4 \in {3, 4}
      OBVIOUS
    <3> QED
      BY <1>1, <3>1, BehindSplit, Zenon
  <2> QED
    BY <2>3, <2>9, <2>10, Zenon
<1> QED
  BY <1>4, <1>5, <1>6, PathAssumption

-----------------------------------------------------------------------------
(* The invariant of the decoder *)

\* The first messages of a session: the hello, a keyframe, and other units.
Opening ==
  side = "ipad" =>
    \A i \in 1 .. Len(written) : /\ i = 1 => written[i].kind = "hello"
                                 /\ i > 1 => written[i].kind = "video"
                                 /\ i = 2 => written[i].nals \in Keyframes

\* What waits in the mailbox is newer than what was decoded.
MailboxNewest ==
  pending # 0 => written[pending].kind = "video" /\ \A k \in seen : k < pending

\* Decoded were access units, and the last picture is the slices of one.
SubmittedSlices ==
  /\ \A k \in seen : written[k].kind = "video"
  /\ submitted # NoPicture =>
       /\ submitted.message \in seen
       /\ submitted.nals = Slices(written[submitted.message].nals)

\* The last keyframe that was decoded.
LatestKey(k) ==
  /\ k \in seen /\ written[k].nals \in Keyframes
  /\ \A j \in seen : j > k => written[j].nals \notin Keyframes

\* The decoder's parameter sets are those.  So are its session's, or else no
\* format description could be made of them.
ParametersCurrent ==
  /\ session # <<>> => <<sps, pps>> \in {session, unmade}
  /\ \A k \in seen : LatestKey(k) => <<sps, pps>> = ParametersOf(k)

\* KeyOf, as a predicate.
KeyBefore(k, n) ==
  /\ k \in 1 .. n
  /\ written[k].kind = "video" /\ written[k].nals \in Keyframes
  /\ \A j \in k + 1 .. n : written[j].nals \notin Keyframes

PictureFits ==
  submitted # NoPicture =>
    \A k \in seen : KeyBefore(k, submitted.message) =>
                      ParametersOf(k) \in {submitted.session, submitted.unmade}

Mailbox == MailboxNewest /\ SubmittedSlices
Decoder == Opening /\ ParametersCurrent /\ PictureFits

\* What the decoder finds in a message.
LEMMA VideoMessage ==
  ASSUME IInv, NEW i \in 1 .. Len(written), written[i].kind = "video"
  PROVE  /\ side = "ipad"
         /\ written[i].nals \in Keyframes \cup Pframes
         /\ written[i].h264 = to_annex_b(Serialize(form, written[i].nals))
         /\ Meaning(written[i]).h264 = written[i].h264
<1>1. written[i] \in Messages
  BY DEF IInv, HandledIsWritten
<1>2. side = "ipad" /\ written[i] \in IpadMessages
  BY <1>1 DEF Messages, PcMessages
<1>3. PICK nals \in Keyframes \cup Pframes :
        written[i] = [kind |-> "video", nals |-> nals, h264 |-> to_annex_b(Serialize(form, nals))]
  BY <1>2 DEF IpadMessages
<1> QED
  BY <1>2, <1>3 DEF Meaning

LEMMA UnitsFound ==
  ASSUME IInv, LengthsUnmistakable, NEW i \in 1 .. Len(handled), written[i].kind = "video"
  PROVE  splitAnnexB(handled[i].h264) = written[i].nals
<1>1. i \in 1 .. Len(written) /\ handled[i] = Meaning(written[i]) /\ form \in Forms
  BY DEF IInv, HandledIsWritten, Sides
<1>2. /\ written[i].nals \in Keyframes \cup Pframes
      /\ handled[i].h264 = to_annex_b(Serialize(form, written[i].nals))
  BY <1>1, VideoMessage
<1>3. splitAnnexB(to_annex_b(Serialize(form, written[i].nals))) = written[i].nals
  BY <1>1, <1>2, SampleNormalized, Zenon
<1> QED
  BY <1>2, <1>3, Zenon

\* What is appended to a sequence.
LEMMA Appended ==
  ASSUME NEW S, NEW s \in Seq(S), NEW x
  PROVE  /\ Len(Append(s, x)) = Len(s) + 1 /\ Append(s, x)[Len(s) + 1] = x
         /\ \A i \in 1 .. Len(s) : Append(s, x)[i] = s[i]
  OBVIOUS

\* The numbers the decoder holds are those of messages written.
LEMMA NumbersWritten ==
  ASSUME IInv
  PROVE  /\ Len(written) \in Nat /\ Len(handled) \in 0 .. Len(written)
         /\ pending \in 0 .. Len(handled) /\ pending \in Nat
         /\ \A k \in seen : k \in 1 .. Len(handled) /\ k \in 1 .. Len(written) /\ k \in Nat
<1>1. Len(written) \in Nat /\ Len(handled) \in 0 .. Len(written)
  BY ComingFacts
<1>2. pending \in 0 .. Len(handled) /\ seen \subseteq 1 .. Len(handled)
  BY DEF IInv, TypeOK
<1> QED
  BY <1>1, <1>2

\* Writing adds a message and leaves the others.
LEMMA WriteAdds ==
  ASSUME IInv, NEW m, Write(m)
  PROVE  /\ Len(written') = Len(written) + 1 /\ written'[Len(written) + 1] = m
         /\ \A i \in 1 .. Len(written) : written'[i] = written[i]
         /\ UNCHANGED <<side, handled, pending, sps, pps, session, unmade, seen, submitted>>
<1>1. written' = Append(written, m) /\ written \in Seq(Messages)
  BY DEF Write, IInv, HandledIsWritten
<1>2. UNCHANGED <<side, handled, pending, sps, pps, session, unmade, seen, submitted>>
  BY DEF Write, readerVars, decoderVars
<1>3. /\ Len(Append(written, m)) = Len(written) + 1
      /\ Append(written, m)[Len(written) + 1] = m
      /\ \A i \in 1 .. Len(written) : Append(written, m)[i] = written[i]
  <2> PICK S : S = Messages
    OBVIOUS
  <2>1. written \in Seq(S)
    BY <1>1
  <2> QED
    BY <2>1, Appended
<1> QED
  BY <1>1, <1>2, <1>3, Zenon

LEMMA WriteMailbox ==
  ASSUME IInv, Mailbox, NEW m, Write(m)
  PROVE  Mailbox'
<1>1. /\ \A i \in 1 .. Len(written) : written'[i] = written[i]
      /\ UNCHANGED <<pending, seen, submitted>>
  BY WriteAdds
<1>2. /\ pending # 0 => pending \in 1 .. Len(written)
      /\ \A k \in seen : k \in 1 .. Len(written)
  BY NumbersWritten
<1>3. MailboxNewest'
  BY <1>1, <1>2 DEF Mailbox, MailboxNewest
<1>4. SubmittedSlices'
  <2>1. (\A k \in seen : written[k].kind = "video")'
    BY <1>1, <1>2 DEF Mailbox, SubmittedSlices
  <2>2. ASSUME submitted # NoPicture
        PROVE  /\ submitted.message \in seen
               /\ submitted.nals = Slices(written'[submitted.message].nals)
    <3>1. /\ submitted.message \in seen
          /\ submitted.nals = Slices(written[submitted.message].nals)
      BY <2>2, Zenon DEF Mailbox, SubmittedSlices
    <3>2. written'[submitted.message] = written[submitted.message]
      BY <1>1, <1>2, <3>1
    <3> QED
      BY <3>1, <3>2, Zenon
  <2>3. submitted' = submitted /\ seen' = seen
    BY <1>1
  <2> QED
    BY <2>1, <2>2, <2>3, Zenon DEF SubmittedSlices
<1> QED
  BY <1>3, <1>4, Zenon DEF Mailbox

LEMMA WriteDecoder ==
  ASSUME IInv, Mailbox, Decoder, NEW m, Write(m),
         side = "ipad" => /\ Len(written) = 0 => m.kind = "hello"
                          /\ Len(written) > 0 => m.kind = "video"
                          /\ Len(written) = 1 => m.nals \in Keyframes
  PROVE  Decoder'
<1> USE DEF Decoder
<1>1. /\ Len(written') = Len(written) + 1 /\ written'[Len(written) + 1] = m
      /\ \A i \in 1 .. Len(written) : written'[i] = written[i]
      /\ UNCHANGED <<side, pending, sps, pps, session, unmade, seen, submitted>>
  BY WriteAdds
<1>2. Len(written) \in Nat /\ \A k \in seen : k \in 1 .. Len(written)
  BY NumbersWritten
<1>3. Opening'
  <2> SUFFICES ASSUME side = "ipad", NEW i \in 1 .. Len(written')
               PROVE  /\ i = 1 => written'[i].kind = "hello"
                      /\ i > 1 => written'[i].kind = "video"
                      /\ i = 2 => written'[i].nals \in Keyframes
    BY <1>1 DEF Opening
  <2>1. CASE i \in 1 .. Len(written)
    BY <1>1, <2>1 DEF Opening
  <2>2. CASE i = Len(written) + 1
    <3>1. written'[i] = m
      BY <1>1, <2>2, Zenon
    <3>2. /\ i = 1 => Len(written) = 0
          /\ i > 1 => Len(written) > 0
          /\ i = 2 => Len(written) = 1
      <4> DEFINE n == Len(written)
      <4>1. n \in Nat /\ i = n + 1
        BY <1>2, <2>2
      <4> HIDE DEF n
      <4>2. (i = 1 => n = 0) /\ (i > 1 => n > 0) /\ (i = 2 => n = 1)
        BY <4>1
      <4> QED
        BY <4>2 DEF n
    <3> QED
      BY <3>1, <3>2, Zenon
  <2> QED
    BY <1>1, <1>2, <2>1, <2>2
<1>4. \A k \in seen : ParametersOf(k)' = ParametersOf(k)
  BY <1>1, <1>2 DEF ParametersOf
<1>5. ParametersCurrent'
  <2>1. \A k \in seen : LatestKey(k)' => LatestKey(k)
    BY <1>1, <1>2 DEF LatestKey
  <2>2. session' = session /\ unmade' = unmade /\ sps' = sps /\ pps' = pps /\ seen' = seen
    BY <1>1
  <2> QED
    BY <1>4, <2>1, <2>2, Zenon DEF ParametersCurrent
<1>6. PictureFits'
  <2> SUFFICES ASSUME submitted # NoPicture, NEW k \in seen, KeyBefore(k, submitted.message)'
               PROVE  ParametersOf(k)' \in {submitted.session, submitted.unmade}
    BY <1>1 DEF PictureFits
  <2>1. submitted.message \in 1 .. Len(written)
    BY <1>2 DEF Mailbox, SubmittedSlices
  <2>2. KeyBefore(k, submitted.message)
    BY <1>1, <1>2, <2>1 DEF KeyBefore
  <2> QED
    BY <1>4, <2>2, Zenon DEF PictureFits
<1> QED
  BY <1>3, <1>5, <1>6

\* The other steps before a unit is decoded: one may be put into the mailbox.
LEMMA DrainMailbox ==
  ASSUME IInv, IInv', Mailbox, DrainMessage
  PROVE  Mailbox'
<1>1. UNCHANGED <<written, seen, submitted>>
  BY DEF DrainMessage, streamVars, decoderVars
<1>2. SubmittedSlices'
  BY <1>1 DEF Mailbox, SubmittedSlices
<1>3. CASE pending' = pending
  <2>1. MailboxNewest
    BY DEF Mailbox
  <2>2. MailboxNewest'
    BY <1>1, <1>3, <2>1 DEF MailboxNewest
  <2> QED
    BY <1>2, <2>2, Zenon DEF Mailbox
<1>4. CASE pending' # pending
  <2> DEFINE got == popMessage(readBuffer)
             video == IF got.kind = "message" /\ got.type = MSG_VIDEO
                      THEN parseVideoPayload(got.payload) ELSE <<>>
  <2>1. /\ handled' = CASE video # <<>> ->
                             Append(handled, [kind |-> "video", h264 |-> video[1]])
                        [] got.kind = "message" /\ got.type = MSG_HELLO ->
                             Append(handled, [kind |-> "hello"])
                        [] OTHER -> handled
        /\ pending' = IF video # <<>> THEN Len(handled') ELSE pending
    BY DEF DrainMessage
  <2> HIDE DEF got
  <2>2. video # <<>> /\ ~ (got.kind = "message" /\ got.type = MSG_HELLO)
    <3>1. video # <<>>
      BY <1>4, <2>1, Zenon
    <3>2. got.type = MSG_VIDEO /\ MSG_VIDEO # MSG_HELLO
      <4>1. MSG_VIDEO # MSG_HELLO
        BY DEF MSG_VIDEO, MSG_HELLO
      <4> QED
        BY <3>1, <4>1, Zenon
    <3> QED
      BY <3>1, <3>2, Zenon
  <2> HIDE DEF video
  <2>3. pending' = Len(handled')
    BY <2>1, <2>2, Zenon
  <2> DEFINE x == [kind |-> "video", h264 |-> video[1]]
             S == {Meaning(m) : m \in Messages}
  <2>4. handled' = Append(handled, x)
    BY <2>1, <2>2
  <2>5. handled \in Seq(S) /\ Len(handled) \in Nat
    BY DEF IInv, HandledIsWritten
  <2>6. x.kind = "video"
    OBVIOUS
  <2> HIDE DEF S, x
  <2>7. Len(handled') = Len(handled) + 1 /\ handled'[Len(handled) + 1] = x
    BY <2>4, <2>5, Appended
  <2>8. handled'[pending'] = x /\ pending' \in 1 .. Len(handled') /\ pending' = Len(handled) + 1
    BY <2>3, <2>5, <2>7
  <2>9. written[pending'].kind = "video"
    <3>1. handled'[pending'] = Meaning(written[pending'])
      BY <1>1, <2>8 DEF IInv, HandledIsWritten
    <3>2. Meaning(written[pending']).kind = written[pending'].kind
      BY DEF Meaning
    <3> QED
      BY <2>6, <2>8, <3>1, <3>2, Zenon
  <2>10. \A k \in seen : k < pending'
    BY <2>5, <2>8, NumbersWritten
  <2>11. MailboxNewest'
    BY <1>1, <2>9, <2>10 DEF MailboxNewest
  <2> QED
    BY <1>2, <2>11, Zenon DEF Mailbox
<1> QED
  BY <1>2, <1>3, <1>4, Zenon DEF Mailbox

\* A decoded picture is the slices of its unit.
LEMMA DecodeMailbox ==
  ASSUME LengthsUnmistakable, IInv, Mailbox, DecodeOne
  PROVE  Mailbox'
<1>1. pending # 0 /\ pending \in 1 .. Len(handled) /\ written[pending].kind = "video"
  <2>1. pending # 0
    BY DEF DecodeOne
  <2>2. pending \in 0 .. Len(handled) /\ Len(handled) \in Nat
    BY NumbersWritten
  <2> QED
    BY <2>1, <2>2 DEF Mailbox, MailboxNewest
<1>2. splitAnnexB(handled[pending].h264) = written[pending].nals
  BY <1>1, UnitsFound
<1>3. /\ seen' = seen \cup {pending} /\ pending' = 0 /\ written' = written
      /\ \/ submitted' = submitted
         \/ /\ submitted'.message = pending
            /\ submitted'.nals = Slices(splitAnnexB(handled[pending].h264))
  BY DEF DecodeOne, Submit, streamVars
<1>4. MailboxNewest'
  BY <1>3 DEF MailboxNewest
<1>5. SubmittedSlices'
  <2>1. \A k \in seen' : written[k].kind = "video"
    BY <1>1, <1>3 DEF Mailbox, SubmittedSlices
  <2>2. CASE submitted' = submitted
    BY <1>3, <2>1, <2>2 DEF Mailbox, SubmittedSlices
  <2>3. CASE /\ submitted'.message = pending
             /\ submitted'.nals = Slices(splitAnnexB(handled[pending].h264))
    BY <1>2, <1>3, <2>1, <2>3 DEF SubmittedSlices
  <2> QED
    BY <1>3, <2>2, <2>3
<1> QED
  BY <1>4, <1>5, Zenon DEF Mailbox

\* The other steps change nothing of it.
LEMMA SameMailbox ==
  ASSUME Mailbox, UNCHANGED <<written, pending, seen, submitted>>
  PROVE  Mailbox'
BY DEF Mailbox, MailboxNewest, SubmittedSlices

LEMMA MailboxStep ==
  ASSUME LengthsUnmistakable, IInv, IInv', Mailbox, [Next]_vars
  PROVE  Mailbox'
<1>1. CASE WriteHello \/ WriteVideo \/ WriteTouch \/ WritePing
  <2>1. \E m : Write(m)
    BY <1>1 DEF WriteHello, WriteVideo, WriteTouch, WritePing
  <2> QED
    BY <2>1, WriteMailbox
<1>2. CASE ReceiveBytes
  BY <1>2, SameMailbox DEF ReceiveBytes, decoderVars
<1>3. CASE DrainMessage
  BY <1>3, DrainMailbox
<1>4. CASE DecodeOne
  BY <1>4, DecodeMailbox
<1>5. CASE ReadBytes
  BY <1>5, SameMailbox DEF ReadBytes, decoderVars
<1>6. CASE UNCHANGED vars
  BY <1>6, SameMailbox DEF vars, streamVars, decoderVars
<1> QED
  BY <1>1, <1>2, <1>3, <1>4, <1>5, <1>6 DEF Next

\* A picture is made of the slices the encoder returned in one sample, all of
\* them and in their order, however often units are overwritten in the mailbox,
\* unless the lengths in a sample read as a start code (to_annex_b, splitAnnexB,
\* decodeOne).
THEOREM PicturesWhole ==
  ASSUME LengthsUnmistakable
  PROVE  Spec => []PicturesIntact
<1>1. Init => Mailbox
  BY DEF Init, Mailbox, MailboxNewest, SubmittedSlices, NoPicture
<1>2. IInv /\ IInv' /\ Mailbox /\ [Next]_vars => Mailbox'
  BY MailboxStep
<1>3. Mailbox => PicturesIntact
  BY DEF Mailbox, SubmittedSlices, PicturesIntact, Slices
<1> QED
  BY <1>1, <1>2, <1>3, Invariant, PTL DEF Spec

\* What the client splits is what the encoder returned, in either of its forms,
\* unless the lengths in a sample read as a start code (to_annex_b, splitAnnexB).
THEOREM FormsNormalized ==
  ASSUME LengthsUnmistakable
  PROVE  Spec => []BothFormsNormalized
<1>1. IInv => BothFormsNormalized
  <2> SUFFICES ASSUME IInv, NEW i \in DOMAIN written, written[i].kind = "video"
               PROVE  splitAnnexB(written[i].h264) = written[i].nals
    BY DEF BothFormsNormalized
  <2>1. i \in 1 .. Len(written) /\ form \in Forms
    BY DEF IInv, HandledIsWritten, Sides
  <2>2. /\ written[i].nals \in Keyframes \cup Pframes
        /\ written[i].h264 = to_annex_b(Serialize(form, written[i].nals))
    BY <2>1, VideoMessage
  <2>3. splitAnnexB(to_annex_b(Serialize(form, written[i].nals))) = written[i].nals
    BY <2>1, <2>2, SampleNormalized, Zenon
  <2> QED
    BY <2>2, <2>3, Zenon
<1> QED
  BY <1>1, Invariant, PTL

-----------------------------------------------------------------------------
(* The parameter sets *)

LEMMA UnitsOfType ==
  ASSUME NEW nals \in Keyframes \cup Pframes, NEW types
  PROVE  OfType(nals, types) \in Seq(Seq(Bytes) \ {<<>>})
<1> PICK W : W = Seq(Bytes) \ {<<>>}
  OBVIOUS
<1> DEFINE piece(i) == IF nals[i] # <<>> /\ NalType(nals[i]) \in types
                       THEN <<nals[i]>> ELSE <<>>
           ss == [i \in DOMAIN nals |-> piece(i)]
<1>1. nals \in Seq(W)
  BY EncoderAssumption
<1>2. DOMAIN nals = 1 .. Len(nals) /\ Len(nals) \in Nat
  BY <1>1
<1>3. ASSUME NEW i \in DOMAIN nals PROVE piece(i) \in Seq(W)
  <2>1. nals[i] \in W
    BY <1>1
  <2>2. <<nals[i]>> \in Seq(W) /\ <<>> \in Seq(W)
    BY <2>1
  <2> QED
    BY <2>2, Zenon
<1>4. OfType(nals, types) = FlattenSeq(ss)
  BY DEF OfType
<1> HIDE DEF piece
<1>5. ss \in Seq(Seq(W))
  BY <1>2, <1>3
<1> HIDE DEF ss
<1>6. FlattenSeq(ss) \in Seq(W)
  BY <1>5, FlattenType, Zenon
<1> QED
  BY <1>4, <1>6

LEMMA LastUnit ==
  ASSUME NEW S, NEW s \in Seq(S), s # <<>>, NEW kept
  PROVE  LastOr(s, kept) = Last(s) /\ Last(s) \in ToSet(s) /\ Last(s) \in S
<1>1. Len(s) \in DOMAIN s /\ s[Len(s)] \in S
  OBVIOUS
<1> QED
  BY <1>1 DEF LastOr, Last, ToSet

\* A keyframe brings the parameter sets the session is made of, and another
\* frame leaves them.
LEMMA DecodeParameters ==
  ASSUME LengthsUnmistakable, KeyframesDecodable, IInv, Mailbox, ParametersCurrent, DecodeOne
  PROVE  /\ pending \in 1 .. Len(handled) /\ written[pending].kind = "video"
         /\ \A k \in seen : k < pending
         /\ seen' = seen \cup {pending} /\ pending' = 0 /\ UNCHANGED <<side, written>>
         /\ session' # <<>> => <<sps', pps'>> \in {session', unmade'}
         /\ written[pending].nals \in Keyframes => <<sps', pps'>> = ParametersOf(pending)
         /\ written[pending].nals \notin Keyframes => sps' = sps /\ pps' = pps
         /\ \/ submitted' = submitted
            \/ /\ submitted'.message = pending
               /\ submitted'.session = session' /\ submitted'.unmade = unmade'
               /\ session' # <<>>
<1> DEFINE nals == written[pending].nals
           a == OfType(nals, {7})
           b == OfType(nals, {8})
           vcl == Slices(nals)
           change == \/ \E nal \in ToSet(a) : nal # sps
                     \/ \E nal \in ToSet(b) : nal # pps
<1>1. /\ pending # 0 /\ pending \in 1 .. Len(handled) /\ written[pending].kind = "video"
      /\ \A k \in seen : k < pending
  <2>1. pending # 0
    BY DEF DecodeOne
  <2>2. pending \in 0 .. Len(handled) /\ Len(handled) \in Nat
    BY NumbersWritten
  <2> QED
    BY <2>1, <2>2 DEF Mailbox, MailboxNewest
<1>2. splitAnnexB(handled[pending].h264) = nals
  BY <1>1, UnitsFound
<1>3. nals \in Keyframes \cup Pframes
  <2>1. pending \in 1 .. Len(written)
    BY <1>1, NumbersWritten
  <2> QED
    BY <1>1, <2>1, VideoMessage
<1>4. /\ sps' = LastOr(a, sps) /\ pps' = LastOr(b, pps)
      /\ IF vcl # <<>> /\ (change \/ session = <<>>) /\ sps' # <<>> /\ pps' # <<>>
         THEN RebuildSession(sps', pps')
         ELSE UNCHANGED <<session, unmade>>
      /\ IF vcl # <<>> /\ session' # <<>> THEN Submit(vcl) ELSE UNCHANGED submitted
      /\ seen' = seen \cup {pending} /\ pending' = 0 /\ UNCHANGED <<side, written>>
  <2> DEFINE found == splitAnnexB(handled[pending].h264)
  <2>1. /\ sps' = LastOr(OfType(found, {7}), sps) /\ pps' = LastOr(OfType(found, {8}), pps)
        /\ IF /\ Slices(found) # <<>>
              /\ \/ \/ \E nal \in ToSet(OfType(found, {7})) : nal # sps
                    \/ \E nal \in ToSet(OfType(found, {8})) : nal # pps
                 \/ session = <<>>
              /\ sps' # <<>> /\ pps' # <<>>
           THEN RebuildSession(sps', pps')
           ELSE UNCHANGED <<session, unmade>>
        /\ IF Slices(found) # <<>> /\ session' # <<>>
           THEN Submit(Slices(found)) ELSE UNCHANGED submitted
        /\ seen' = seen \cup {pending} /\ pending' = 0 /\ UNCHANGED <<side, written>>
    BY DEF DecodeOne, streamVars
  <2>2. found = nals
    BY <1>2
  <2> HIDE DEF found, nals
  <2> QED
    BY <2>1, <2>2, Zenon
<1>5. session # <<>> => <<sps, pps>> \in {session, unmade}
  BY DEF ParametersCurrent
<1>6. \/ submitted' = submitted
      \/ /\ submitted'.message = pending
         /\ submitted'.session = session' /\ submitted'.unmade = unmade'
         /\ session' # <<>>
  <2> HIDE DEF nals, vcl
  <2>1. CASE vcl # <<>> /\ session' # <<>>
    <3>1. Submit(vcl)
      BY <1>4, <2>1, Zenon
    <3> QED
      BY <2>1, <3>1 DEF Submit
  <2>2. CASE ~ (vcl # <<>> /\ session' # <<>>)
    BY <1>4, <2>2, Zenon
  <2> QED
    BY <2>1, <2>2, Zenon
<1>7. ASSUME RebuildSession(sps', pps')
      PROVE  session' # <<>> => <<sps', pps'>> \in {session', unmade'}
  BY <1>7, Zenon DEF RebuildSession
<1>8. CASE nals \in Keyframes
  <2> PICK W : W = Seq(Bytes) \ {<<>>}
    OBVIOUS
  <2>1. a \in Seq(W) /\ b \in Seq(W) /\ <<>> \notin W
    BY <1>3, UnitsOfType
  <2>2. a # <<>> /\ b # <<>> /\ vcl # <<>>
    BY <1>8, Zenon DEF KeyframesDecodable
  <2>3. /\ <<sps', pps'>> = ParametersOf(pending)
        /\ sps' \in ToSet(a) /\ pps' \in ToSet(b)
        /\ sps' # <<>> /\ pps' # <<>>
    <3> HIDE DEF nals, a, b, vcl, change
    <3>1. sps' = Last(a) /\ Last(a) \in ToSet(a) /\ Last(a) \in W
      BY <1>4, <2>1, <2>2, LastUnit
    <3>2. pps' = Last(b) /\ Last(b) \in ToSet(b) /\ Last(b) \in W
      BY <1>4, <2>1, <2>2, LastUnit
    <3>3. ParametersOf(pending) = <<Last(a), Last(b)>>
      BY Zenon DEF ParametersOf, a, b, nals
    <3> QED
      BY <2>1, <3>1, <3>2, <3>3, Zenon
  <2> HIDE DEF nals, a, b, vcl
  <2>4. session' # <<>> => <<sps', pps'>> \in {session', unmade'}
    <3>1. CASE change \/ session = <<>>
      BY <1>4, <1>7, <2>2, <2>3, <3>1, Zenon
    <3>2. CASE ~ (change \/ session = <<>>)
      <4>1. sps' = sps /\ pps' = pps
        BY <2>3, <3>2, Zenon
      <4>2. UNCHANGED <<session, unmade>>
        BY <1>4, <3>2, Zenon
      <4>3. session' = session /\ unmade' = unmade
        BY <4>2
      <4> QED
        BY <1>5, <4>1, <4>3, Zenon
    <3> QED
      BY <3>1, <3>2, Zenon
  <2> QED
    BY <1>1, <1>4, <1>6, <1>8, <2>3, <2>4, Zenon DEF nals
<1>9. CASE nals \notin Keyframes
  <2>1. a = <<>> /\ b = <<>>
    BY <1>3, <1>9, Zenon DEF KeyframesDecodable
  <2>2. sps' = sps /\ pps' = pps
    BY <1>4, <2>1, Zenon DEF LastOr
  <2> HIDE DEF a, b, vcl, change
  <2>3. UNCHANGED <<session, unmade>> \/ RebuildSession(sps', pps')
    BY <1>4, Zenon
  <2>4. session' # <<>> => <<sps', pps'>> \in {session', unmade'}
    <3>1. CASE UNCHANGED <<session, unmade>>
      <4>1. session' = session /\ unmade' = unmade
        BY <3>1
      <4> QED
        BY <1>5, <2>2, <4>1, Zenon
    <3> QED
      BY <1>7, <2>3, <3>1, Zenon
  <2> QED
    BY <1>1, <1>4, <1>6, <1>9, <2>2, <2>4, Zenon DEF nals
<1> QED
  BY <1>8, <1>9

\* The parameter sets of the last keyframe decoded hold for the picture.
LEMMA DecodeDecoder ==
  ASSUME LengthsUnmistakable, KeyframesDecodable, IInv, Mailbox, Decoder, DecodeOne
  PROVE  Decoder'
<1> DEFINE m == pending
           key == written[m].nals \in Keyframes
<1>1. /\ m \in Nat
      /\ \A k \in seen : k < m /\ k \in Nat
      /\ seen' = seen \cup {m} /\ UNCHANGED <<side, written>>
      /\ session' # <<>> => <<sps', pps'>> \in {session', unmade'}
      /\ key => <<sps', pps'>> = ParametersOf(m)
      /\ ~ key => sps' = sps /\ pps' = pps
      /\ \/ submitted' = submitted
         \/ /\ submitted'.message = m
            /\ submitted'.session = session' /\ submitted'.unmade = unmade'
            /\ session' # <<>>
  <2>1. \A k \in seen : k \in Nat
    BY NumbersWritten
  <2>2. m \in Nat
    BY NumbersWritten
  <2> QED
    BY <2>1, <2>2, DecodeParameters, Zenon DEF Decoder
<1>2. /\ \A k \in seen : LatestKey(k) => <<sps, pps>> = ParametersOf(k)
      /\ PictureFits /\ Opening
  BY Zenon DEF Decoder, ParametersCurrent
<1> HIDE DEF m
<1>3. \A k : ParametersOf(k)' = ParametersOf(k) /\ \A n : KeyBefore(k, n)' = KeyBefore(k, n)
  BY <1>1 DEF ParametersOf, KeyBefore
<1>4. Opening'
  BY <1>1, <1>2 DEF Opening
<1>5. ASSUME NEW k \in seen', LatestKey(k)'
      PROVE  <<sps', pps'>> = ParametersOf(k)
  <2>1. /\ written[k].nals \in Keyframes
        /\ \A j \in seen \cup {m} : j > k => written[j].nals \notin Keyframes
    BY <1>1, <1>5 DEF LatestKey
  <2>2. CASE k = m
    BY <1>1, <2>1, <2>2
  <2>3. CASE k # m
    <3>1. k \in seen /\ m > k
      BY <1>1, <2>3
    <3>2. ~ key
      BY <2>1, <3>1
    <3>3. LatestKey(k)
      BY <2>1, <3>1 DEF LatestKey
    <3> QED
      BY <1>1, <1>2, <3>1, <3>2, <3>3
  <2> QED
    BY <2>2, <2>3
<1>6. ParametersCurrent'
  BY <1>1, <1>3, <1>5 DEF ParametersCurrent
<1>7. PictureFits'
  <2> SUFFICES ASSUME submitted' # NoPicture, NEW k \in seen', KeyBefore(k, submitted'.message)
               PROVE  ParametersOf(k) \in {submitted'.session, submitted'.unmade}
    BY <1>3 DEF PictureFits
  <2>1. CASE submitted' = submitted
    <3>1. submitted.message \in seen
      BY <2>1 DEF Mailbox, SubmittedSlices
    <3>2. k <= submitted.message /\ k \in Nat /\ submitted.message < m /\ submitted.message \in Nat
      <4>1. k \in 1 .. submitted.message
        BY <2>1 DEF KeyBefore
      <4>2. submitted.message < m /\ submitted.message \in Nat
        BY <1>1, <3>1
      <4> QED
        BY <4>1, <4>2
    <3>3. k \in seen
      BY <1>1, <3>2
    <3> QED
      BY <1>2, <2>1, <3>3 DEF PictureFits
  <2>2. CASE /\ submitted'.message = m
             /\ submitted'.session = session' /\ submitted'.unmade = unmade'
             /\ session' # <<>>
    <3>1. <<sps', pps'>> \in {submitted'.session, submitted'.unmade}
      BY <1>1, <2>2, Zenon
    <3>2. /\ written[k].nals \in Keyframes
          /\ \A j \in k + 1 .. m : written[j].nals \notin Keyframes
      BY <2>2 DEF KeyBefore
    <3>3. CASE k = m
      BY <1>1, <3>1, <3>2, <3>3
    <3>4. CASE k # m
      <4>1. k \in seen /\ k < m /\ k \in Nat
        BY <1>1, <3>4
      <4>2. \A j \in seen \cup {m} : j > k => j \in k + 1 .. m
        BY <1>1, <4>1
      <4>3. ~ key /\ LatestKey(k)
        BY <1>1, <3>2, <4>1, <4>2 DEF LatestKey
      <4> QED
        BY <1>1, <1>2, <3>1, <4>1, <4>3
    <3> QED
      BY <3>3, <3>4
  <2> QED
    BY <1>1, <2>1, <2>2
<1> QED
  BY <1>4, <1>6, <1>7, Zenon DEF Decoder

\* Steps outside the decoder change nothing of it.
LEMMA SameDecoder ==
  ASSUME Decoder, UNCHANGED <<side, written, sps, pps, session, unmade, seen, submitted>>
  PROVE  Decoder'
<1>1. Opening'
  BY DEF Decoder, Opening
<1>2. \A k : ParametersOf(k)' = ParametersOf(k) /\ \A n : KeyBefore(k, n)' = KeyBefore(k, n)
  BY DEF ParametersOf, KeyBefore
<1>3. \A k : LatestKey(k)' = LatestKey(k)
  BY DEF LatestKey
<1>4. ParametersCurrent'
  BY <1>2, <1>3 DEF Decoder, ParametersCurrent
<1>5. PictureFits'
  BY <1>2 DEF Decoder, PictureFits
<1> QED
  BY <1>1, <1>4, <1>5, Zenon DEF Decoder

LEMMA DecoderStep ==
  ASSUME LengthsUnmistakable, KeyframesDecodable, IInv, Mailbox, Decoder, [Next]_vars
  PROVE  Decoder'
<1>0. Len(written) \in Nat /\ written \in Seq(Messages)
  BY DEF IInv, HandledIsWritten
<1>1. CASE WriteHello
  <2>1. Write([kind |-> "hello"]) /\ Len(written) = 0
    BY <1>1 DEF WriteHello
  <2> QED
    BY <2>1, WriteDecoder
<1>2. CASE WriteVideo
  <2>1. PICK nals \in IF Len(written) = 1 THEN Keyframes ELSE Keyframes \cup Pframes :
          Write([kind |-> "video", nals |-> nals, h264 |-> to_annex_b(Serialize(form, nals))])
    BY <1>2, Zenon DEF WriteVideo
  <2> DEFINE m == [kind |-> "video", nals |-> nals, h264 |-> to_annex_b(Serialize(form, nals))]
  <2>2. Write(m) /\ m.kind = "video" /\ m.nals = nals
    BY <2>1
  <2>3. Len(written) # 0
    <3>1. written # <<>>
      BY <1>2 DEF WriteVideo
    <3> PICK S : S = Messages
      OBVIOUS
    <3>2. written \in Seq(S)
      BY <1>0
    <3> QED
      BY <3>1, <3>2
  <2>4. Len(written) = 1 => nals \in Keyframes
    BY <2>1, Zenon
  <2> HIDE DEF m
  <2> QED
    BY <2>2, <2>3, <2>4, WriteDecoder
<1>3. CASE WriteTouch
  <2>1. side = "pc" /\ \E m : Write(m)
    BY <1>3 DEF WriteTouch
  <2> QED
    BY <2>1, WriteDecoder
<1>4. CASE WritePing
  <2>1. side = "pc" /\ \E m : Write(m)
    BY <1>4 DEF WritePing
  <2> QED
    BY <2>1, WriteDecoder
<1>5. CASE ReceiveBytes
  BY <1>5, SameDecoder DEF ReceiveBytes, decoderVars
<1>6. CASE DrainMessage
  BY <1>6, SameDecoder DEF DrainMessage, streamVars, decoderVars
<1>7. CASE DecodeOne
  BY <1>7, DecodeDecoder
<1>8. CASE ReadBytes
  BY <1>8, SameDecoder DEF ReadBytes, decoderVars
<1>9. CASE UNCHANGED vars
  BY <1>9, SameDecoder DEF vars, streamVars, decoderVars
<1> QED
  BY <1>1, <1>2, <1>3, <1>4, <1>5, <1>6, <1>7, <1>8, <1>9 DEF Next

\* An access unit has a keyframe before it: the second message at the latest.
LEMMA KeyExists ==
  ASSUME IInv, Opening, NEW n \in 1 .. Len(written), written[n].kind = "video"
  PROVE  \E k : KeyBefore(k, n)
<1> DEFINE IsKey(k) == k \in 1 .. n /\ written[k].kind = "video" /\ written[k].nals \in Keyframes
           T == {x \in Nat : IsKey(n - x)}
<1>1. /\ Len(written) \in Nat /\ n \in Nat
      /\ \A i \in 1 .. Len(written) : /\ i = 1 => written[i].kind = "hello"
                                      /\ i > 1 => written[i].kind = "video"
                                      /\ i = 2 => written[i].nals \in Keyframes
  <2>1. side = "ipad"
    BY VideoMessage
  <2>2. Len(written) \in Nat
    BY NumbersWritten
  <2> QED
    BY <2>1, <2>2 DEF Opening
<1>2. n - 2 \in T
  <2>1. n # 1
    BY <1>1
  <2>2. 2 \in 1 .. n /\ 2 \in 1 .. Len(written) /\ n - 2 \in Nat /\ n - (n - 2) = 2
    BY <1>1, <2>1
  <2>3. IsKey(2)
    BY <1>1, <2>2
  <2> HIDE DEF IsKey
  <2> QED
    BY <2>2, <2>3
<1>3. PICK x \in T : \A y \in T : x <= y
  <2>1. T \in SUBSET Nat /\ T # {}
    BY <1>2
  <2> HIDE DEF T
  <2> QED
    BY <2>1, LeastElement
<1> DEFINE k == n - x
<1>4. x \in Nat /\ IsKey(k) /\ k \in 1 .. n
  OBVIOUS
<1>5. ASSUME NEW j \in k + 1 .. n PROVE written[j].nals \notin Keyframes
  <2>1. n - j \in Nat /\ n - j < x /\ n - (n - j) = j /\ j \in 1 .. n /\ j \in 1 .. Len(written)
        /\ j > 1
    BY <1>1, <1>4
  <2>2. n - j \notin T
    <3> DEFINE y == n - j
    <3>1. y \in Nat /\ ~ (x <= y)
      BY <1>4, <2>1
    <3> HIDE DEF T, y
    <3>2. y \notin T
      BY <1>3, <3>1, Zenon
    <3> QED
      BY <3>2 DEF y
  <2>3. ~ IsKey(j)
    <3> HIDE DEF IsKey
    <3> QED
      BY <2>1, <2>2
  <2> QED
    BY <1>1, <2>1, <2>3
<1> HIDE DEF k
<1>6. KeyBefore(k, n)
  BY <1>4, <1>5 DEF KeyBefore
<1> QED
  BY <1>6

\* A picture is decoded with the parameter sets of the keyframe before it, unless
\* that keyframe was overwritten in the mailbox or no format description could be
\* made of them when it was tried last.  No other failure changes that: not of
\* creating a session, nor of making the sample (decodeOne, rebuildSession).  It
\* holds whatever keyframes an encoder sends, as long as each brings its sets and
\* other frames bring none.
THEOREM SessionMatches ==
  ASSUME LengthsUnmistakable, KeyframesDecodable
  PROVE  Spec => []SessionFitsPicture
<1>1. Init => Mailbox /\ Decoder
  BY DEF Init, Mailbox, MailboxNewest, SubmittedSlices, NoPicture, Decoder, Opening,
         ParametersCurrent, PictureFits
<1>2. IInv /\ IInv' /\ (Mailbox /\ Decoder) /\ [Next]_vars => (Mailbox /\ Decoder)'
  BY MailboxStep, DecoderStep
<1>3. IInv /\ Mailbox /\ Decoder => SessionFitsPicture
  <2> SUFFICES ASSUME IInv, Mailbox, Decoder, submitted # NoPicture,
                      KeyOf(submitted.message) \in seen
               PROVE  ParametersOf(KeyOf(submitted.message))
                        \in {submitted.session, submitted.unmade}
    BY DEF SessionFitsPicture
  <2> DEFINE n == submitted.message
  <2>1. n \in seen /\ written[n].kind = "video"
    BY DEF Mailbox, SubmittedSlices
  <2>2. n \in 1 .. Len(written)
    BY <2>1, NumbersWritten
  <2>3. \E k : KeyBefore(k, n)
    BY <2>1, <2>2, KeyExists DEF Decoder
  <2> HIDE DEF n
  <2>4. KeyBefore(KeyOf(n), n)
    BY <2>3, Zenon DEF KeyOf, KeyBefore
  <2> QED
    BY <2>4 DEF Decoder, PictureFits, n
<1> QED
  BY <1>1, <1>2, <1>3, Invariant, PTL DEF Spec
=============================================================================
