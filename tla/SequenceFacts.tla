--------------------------- MODULE SequenceFacts ---------------------------
(***************************************************************************)
(* Facts about sequences that the proofs of several components rest on:    *)
(* induction over the naturals in a form the provers can use (a set, not   *)
(* an operator, is what is inductive), and what FlattenSeq and Reverse     *)
(* compute.                                                                *)
(***************************************************************************)
EXTENDS Integers, Sequences, SequencesExt, SequenceTheorems,
        WellFoundedInduction, TLAPS

LEMMA LeastNatural ==
    ASSUME NEW T, T \subseteq Nat, T # {}
    PROVE  \E x \in T : \A y \in T : x <= y
<1> DEFINE R == OpToRel(<, Nat)
<1>1. IsWellFoundedOn(R, Nat)
    BY NatLessThanWellFounded
<1>2. \A x, y \in Nat : x < y => <<x, y>> \in R
    BY DEF OpToRel
<1> HIDE DEF R
<1>3. PICK x \in T : \A y \in T : ~(<<y, x>> \in R)
    BY <1>1, WFMin
<1>4. ASSUME NEW y \in T PROVE x <= y
  <2>1. x \in Nat /\ y \in Nat
      OBVIOUS
  <2>2. ~(y < x)
      BY <1>2, <1>3, <2>1
  <2> QED
      BY <2>1, <2>2
<1> QED
    BY <1>4

LEMMA SetInduction ==
    ASSUME NEW T, 0 \in T, \A k \in Nat : k \in T => k + 1 \in T
    PROVE  \A k \in Nat : k \in T
<1> DEFINE U == Nat \ T
<1> SUFFICES ASSUME U # {} PROVE FALSE
    OBVIOUS
<1>1. PICK x \in U : \A y \in U : x <= y
    BY LeastNatural
<1>2. x # 0 /\ x \in Nat
    BY <1>1
<1>3. x - 1 \in Nat /\ x - 1 \in T
    BY <1>1, <1>2
<1> QED
    BY <1>1, <1>2, <1>3
-----------------------------------------------------------------------------
(***************************************************************************)
(* FlattenSeq, for the elements of any set of sequences that contains the  *)
(* empty one and is closed under \o.  The function it is defined by exists *)
(* and is determined, up to any place, by the sequence up to that place.   *)
(***************************************************************************)
Closed(Q) ==
    /\ <<>> \in Q
    /\ \A a, b \in Q : a \o b \in Q
    /\ \A a, b, c \in Q : (a \o b) \o c = a \o (b \o c)
    /\ \A a \in Q : a \o <<>> = a /\ <<>> \o a = a

LEMMA SeqClosed == ASSUME NEW S PROVE Closed(Seq(S))
<1>1. \A a, b, c \in Seq(S) : (a \o b) \o c = a \o (b \o c)
    BY ConcatAssociative
<1>2. <<>> \in Seq(S) /\ \A a, b \in Seq(S) : a \o b \in Seq(S)
    OBVIOUS
<1>3. \A a \in Seq(S) : a \o <<>> = a /\ <<>> \o a = a
    BY ConcatEmptySeq
<1> QED
    BY <1>1, <1>2, <1>3 DEF Closed

(* The first m values of that function, and their type.                    *)
Grows(f, s, m) ==
    \A i \in 1 .. m : f[i] = IF i = 1 THEN s[i] ELSE f[i - 1] \o s[i]
Flattening(f, s, m, Q) == f \in [1 .. m -> Q] /\ Grows(f, s, m)

LEMMA FlatteningUnique ==
    ASSUME NEW Q, NEW s \in Seq(Q), NEW t \in Seq(Q), NEW m \in Nat,
           \A i \in 1 .. m : s[i] = t[i],
           NEW f, NEW g, Grows(f, s, m), Grows(g, t, m)
    PROVE  \A i \in 1 .. m : f[i] = g[i]
<1> DEFINE T == {k \in Nat : k < m => f[k + 1] = g[k + 1]}
<1>1. 0 \in T
    BY DEF Grows
<1>2. ASSUME NEW k \in Nat, k \in T PROVE k + 1 \in T
  <2> SUFFICES ASSUME k + 1 < m PROVE f[(k + 1) + 1] = g[(k + 1) + 1]
      OBVIOUS
  <2>1. /\ (k + 1) + 1 \in 1 .. m /\ (k + 1) + 1 # 1
        /\ ((k + 1) + 1) - 1 = k + 1
      OBVIOUS
  <2>2. f[k + 1] = g[k + 1]
      BY <1>2
  <2>3. /\ f[(k + 1) + 1] = f[k + 1] \o s[(k + 1) + 1]
        /\ g[(k + 1) + 1] = g[k + 1] \o t[(k + 1) + 1]
      BY <2>1 DEF Grows
  <2> QED
      BY <2>1, <2>2, <2>3
<1> HIDE DEF T
<1>3. \A k \in Nat : k \in T
    BY <1>1, <1>2, SetInduction
<1>4. ASSUME NEW i \in 1 .. m PROVE f[i] = g[i]
  <2>1. i - 1 \in T /\ i - 1 \in Nat /\ i - 1 < m /\ (i - 1) + 1 = i
      BY <1>3
  <2> QED
      BY <2>1 DEF T
<1> QED
    BY <1>4

LEMMA FlatteningExtends ==
    ASSUME NEW Q, Closed(Q),
           NEW s, NEW m \in Nat \ {0}, s[m + 1] \in Q,
           NEW f, Flattening(f, s, m, Q)
    PROVE  \E g : Flattening(g, s, m + 1, Q)
<1> DEFINE x == f[m] \o s[m + 1]
           g == [i \in 1 .. m + 1 |-> IF i = m + 1 THEN x ELSE f[i]]
<1>1. m \in 1 .. m /\ f[m] \in Q
    BY DEF Flattening, Grows
<1>2. x \in Q
    BY <1>1 DEF Closed
<1>3. g[m + 1] = x
  <2>1. m + 1 \in 1 .. m + 1
      OBVIOUS
  <2> HIDE DEF x
  <2> QED
      BY <2>1
<1>6. ASSUME NEW i \in 1 .. m PROVE g[i] = f[i]
    OBVIOUS
<1>4. g \in [1 .. m + 1 -> Q]
    BY <1>2 DEF Flattening, Grows
<1>5. ASSUME NEW i \in 1 .. m + 1
      PROVE  g[i] = IF i = 1 THEN s[i] ELSE g[i - 1] \o s[i]
  <2> HIDE DEF g
  <2>1. CASE i = m + 1
    <3>1. i # 1 /\ i - 1 = m /\ g[m] = f[m]
        BY <1>1, <1>6, <2>1
    <3> QED
        BY <1>3, <2>1, <3>1
  <2>2. CASE i \in 1 .. m
    <3>1. i = 1 \/ i - 1 \in 1 .. m
        BY <2>2
    <3> QED
        BY <1>6, <2>2, <3>1 DEF Flattening, Grows
  <2> QED
      BY <2>1, <2>2
<1> QED
    BY <1>4, <1>5 DEF Flattening, Grows

LEMMA FlatteningExists ==
    ASSUME NEW Q, Closed(Q), NEW s \in Seq(Q), s # <<>>
    PROVE  \E f : Flattening(f, s, Len(s), Q)
<1> DEFINE T == {k \in Nat : k < Len(s) => \E f : Flattening(f, s, k + 1, Q)}
<1>1. Len(s) \in Nat \ {0} /\ \A i \in 1 .. Len(s) : s[i] \in Q
    BY EmptySeq, ElementOfSeq
<1>2. 0 \in T
  <2> DEFINE f == [i \in 1 .. 1 |-> s[i]]
  <2>1. Flattening(f, s, 0 + 1, Q)
      BY <1>1 DEF Flattening, Grows
  <2> QED
      BY <2>1
<1>3. ASSUME NEW k \in Nat, k \in T PROVE k + 1 \in T
  <2> SUFFICES ASSUME k + 1 < Len(s)
               PROVE  \E g : Flattening(g, s, (k + 1) + 1, Q)
      OBVIOUS
  <2>1. k + 1 \in Nat \ {0} /\ k < Len(s) /\ s[(k + 1) + 1] \in Q
      BY <1>1
  <2>2. PICK f : Flattening(f, s, k + 1, Q)
      BY <1>3, <2>1
  <2> QED
      BY <2>1, <2>2, FlatteningExtends
<1> HIDE DEF T
<1>4. \A k \in Nat : k \in T
    BY <1>2, <1>3, SetInduction
<1>5. Len(s) - 1 \in Nat /\ (Len(s) - 1) + 1 = Len(s) /\ Len(s) - 1 < Len(s)
    BY <1>1
<1> QED
    BY <1>4, <1>5 DEF T

LEMMA FlattenIs ==
    ASSUME NEW Q, Closed(Q), NEW s \in Seq(Q), s # <<>>
    PROVE  \E f : Flattening(f, s, Len(s), Q) /\ FlattenSeq(s) = f[Len(s)]
<1> DEFINE IsFlatten(f) ==
             f = [i \in 1 .. Len(s) |-> IF i = 1 THEN s[i] ELSE f[i - 1] \o s[i]]
           c == CHOOSE f : IsFlatten(f)
<1>1. Len(s) \in Nat \ {0}
    BY EmptySeq
<1>2. FlattenSeq(s) = c[Len(s)]
    BY <1>1 DEF FlattenSeq
<1>3. \A f : Flattening(f, s, Len(s), Q) => IsFlatten(f)
    BY DEF Flattening, Grows
<1>4. PICK f : Flattening(f, s, Len(s), Q)
    BY FlatteningExists
<1>5. IsFlatten(c)
    BY <1>3, <1>4
<1> HIDE DEF c
<1>6. Grows(c, s, Len(s)) /\ Grows(f, s, Len(s))
    BY <1>4, <1>5 DEF Grows, Flattening
<1>7. f[Len(s)] = c[Len(s)]
    BY <1>1, <1>6, FlatteningUnique
<1> QED
    BY <1>2, <1>4, <1>7

LEMMA FlattenEmpty == FlattenSeq(<<>>) = <<>>
    BY DEF FlattenSeq

LEMMA FlattenType ==
    ASSUME NEW Q, Closed(Q), NEW s \in Seq(Q)
    PROVE  FlattenSeq(s) \in Q
<1>1. CASE s = <<>>
    BY <1>1, FlattenEmpty DEF Closed
<1>2. CASE s # <<>>
  <2>1. Len(s) \in 1 .. Len(s)
      BY <1>2, EmptySeq
  <2>2. PICK f : Flattening(f, s, Len(s), Q) /\ FlattenSeq(s) = f[Len(s)]
      BY <1>2, FlattenIs
  <2> QED
      BY <2>1, <2>2 DEF Flattening
<1> QED
    BY <1>1, <1>2

(* What comes last in a sequence comes last in what it is flattened to ... *)
LEMMA FlattenAppend ==
    ASSUME NEW Q, Closed(Q), NEW s \in Seq(Q), NEW x \in Q
    PROVE  FlattenSeq(Append(s, x)) = FlattenSeq(s) \o x
<1> DEFINE t == Append(s, x)
<1>1. /\ t \in Seq(Q) /\ t # <<>>
      /\ Len(t) = Len(s) + 1 /\ Len(s) \in Nat
      /\ \A i \in 1 .. Len(s) : t[i] = s[i]
      /\ t[Len(s) + 1] = x
    BY AppendProperties, LenProperties
<1> HIDE DEF t
<1>2. PICK g : Flattening(g, t, Len(t), Q) /\ FlattenSeq(t) = g[Len(t)]
    BY <1>1, FlattenIs
<1>3. CASE s = <<>>
  <2>1. Len(t) = 1 /\ t[1] = x
      BY <1>1, <1>3
  <2>2. FlattenSeq(t) = x
      BY <1>2, <2>1 DEF Flattening, Grows
  <2> QED
      BY <1>3, <2>2, FlattenEmpty DEF t, Closed
<1>4. CASE s # <<>>
  <2>1. PICK f : Flattening(f, s, Len(s), Q) /\ FlattenSeq(s) = f[Len(s)]
      BY <1>4, FlattenIs
  <2>2. Grows(f, s, Len(s))
      BY <2>1 DEF Flattening
  <2>3. ASSUME NEW i \in 1 .. Len(s)
        PROVE  g[i] = IF i = 1 THEN t[i] ELSE g[i - 1] \o t[i]
    <3>1. i \in 1 .. Len(t)
        BY <1>1
    <3> QED
        BY <1>2, <3>1 DEF Flattening, Grows
  <2>4. Grows(g, t, Len(s))
      BY <2>3 DEF Grows
  <2>5. Len(s) \in 1 .. Len(s)
      BY <1>1, <1>4, EmptySeq
  <2>6. f[Len(s)] = g[Len(s)]
      BY <1>1, <2>2, <2>4, <2>5, FlatteningUnique
  <2>7. /\ Len(s) + 1 \in 1 .. Len(t) /\ Len(s) + 1 # 1
        /\ (Len(s) + 1) - 1 = Len(s)
      BY <1>1, <2>5
  <2>8. g[Len(s) + 1] = g[Len(s)] \o x
      BY <1>1, <1>2, <2>7 DEF Flattening, Grows
  <2> QED
      BY <1>1, <1>2, <2>1, <2>6, <2>8 DEF t
<1> QED
    BY <1>3, <1>4

(* ... and what comes first comes first.                                   *)
LEMMA FlattenCons ==
    ASSUME NEW Q, Closed(Q), NEW s \in Seq(Q), NEW x \in Q
    PROVE  FlattenSeq(<<x>> \o s) = x \o FlattenSeq(s)
<1> DEFINE T == {k \in Nat : \A u \in Seq(Q) : Len(u) = k =>
                    FlattenSeq(<<x>> \o u) = x \o FlattenSeq(u)}
<1>1. ASSUME NEW u \in Seq(Q), Len(u) = 0
      PROVE  FlattenSeq(<<x>> \o u) = x \o FlattenSeq(u)
  <2>1. u = <<>> /\ <<>> \in Seq(Q)
      BY <1>1, EmptySeq
  <2>2. <<x>> \o u = Append(u, x)
      BY <2>1
  <2>3. FlattenSeq(Append(u, x)) = <<>> \o x
      BY <2>1, FlattenAppend, FlattenEmpty
  <2> QED
      BY <2>1, <2>2, <2>3, FlattenEmpty DEF Closed
<1>2. ASSUME NEW k \in Nat, k \in T, NEW u \in Seq(Q), Len(u) = k + 1
      PROVE  FlattenSeq(<<x>> \o u) = x \o FlattenSeq(u)
  <2>1. u # <<>>
      BY <1>2, EmptySeq
  <2>2. PICK v \in Seq(Q), e \in Q : u = Append(v, e)
      BY <2>1, SequenceEmptyOrAppend
  <2>3. Len(v) = k
      BY <1>2, <2>2, AppendProperties, LenProperties
  <2>4. FlattenSeq(<<x>> \o v) = x \o FlattenSeq(v)
      BY <1>2, <2>3
  <2>5. <<x>> \in Seq(Q) /\ <<x>> \o v \in Seq(Q)
      OBVIOUS
  <2>6. <<x>> \o u = Append(<<x>> \o v, e)
    <3>1. u = v \o <<e>> /\ <<e>> \in Seq(Q)
        BY <2>2, AppendIsConcat
    <3>2. (<<x>> \o v) \o <<e>> = <<x>> \o (v \o <<e>>)
        BY <2>5, <3>1, ConcatAssociative
    <3>3. Append(<<x>> \o v, e) = (<<x>> \o v) \o <<e>>
        BY <2>5, AppendIsConcat
    <3> QED
        BY <3>1, <3>2, <3>3
  <2>7. FlattenSeq(<<x>> \o u) = (x \o FlattenSeq(v)) \o e
      BY <2>4, <2>5, <2>6, FlattenAppend
  <2>8. FlattenSeq(u) = FlattenSeq(v) \o e /\ FlattenSeq(v) \in Q
      BY <2>2, FlattenAppend, FlattenType
  <2>9. (x \o FlattenSeq(v)) \o e = x \o (FlattenSeq(v) \o e)
    <3>1. \A a, b, c \in Q : (a \o b) \o c = a \o (b \o c)
        BY DEF Closed
    <3> QED
        BY <2>8, <3>1
  <2> QED
      BY <2>7, <2>8, <2>9
<1>3. 0 \in T
    BY <1>1
<1>4. ASSUME NEW k \in Nat, k \in T PROVE k + 1 \in T
  <2>1. \A u \in Seq(Q) : Len(u) = k + 1 =>
           FlattenSeq(<<x>> \o u) = x \o FlattenSeq(u)
      BY <1>2, <1>4
  <2> QED
      BY <2>1
<1> HIDE DEF T
<1>5. \A k \in Nat : k \in T
    BY <1>3, <1>4, SetInduction
<1>6. Len(s) \in Nat
    BY LenProperties
<1> QED
    BY <1>5, <1>6 DEF T
-----------------------------------------------------------------------------
(***************************************************************************)
(* FlattenSeq of Reverse: a stack of chunks, read from its top.            *)
(***************************************************************************)
LEMMA ReverseType ==
    ASSUME NEW Q, NEW s \in Seq(Q)
    PROVE  Reverse(s) \in Seq(Q) /\ Len(Reverse(s)) = Len(s)
<1>1. Len(s) \in Nat
    BY LenProperties
<1>2. ASSUME NEW i \in 1 .. Len(s) PROVE s[(Len(s) - i) + 1] \in Q
  <2>1. (Len(s) - i) + 1 \in 1 .. Len(s)
      BY <1>1
  <2> QED
      BY <2>1, ElementOfSeq
<1> QED
    BY <1>1, <1>2 DEF Reverse

LEMMA ReverseAppend ==
    ASSUME NEW Q, NEW s \in Seq(Q), NEW x \in Q
    PROVE  Reverse(Append(s, x)) = <<x>> \o Reverse(s)
<1> DEFINE t == Append(s, x)
<1>1. /\ t \in Seq(Q) /\ Len(t) = Len(s) + 1 /\ Len(s) \in Nat
      /\ \A i \in 1 .. Len(s) : t[i] = s[i]
      /\ t[Len(s) + 1] = x
    BY AppendProperties, LenProperties
<1> HIDE DEF t
<1>2. Reverse(t) \in Seq(Q) /\ Len(Reverse(t)) = Len(s) + 1
    BY <1>1, ReverseType
<1>3. Reverse(s) \in Seq(Q) /\ Len(Reverse(s)) = Len(s)
    BY ReverseType
<1>4. <<x>> \in Seq(Q) /\ Len(<<x>>) = 1 /\ <<x>>[1] = x
    OBVIOUS
<1> DEFINE r == Reverse(s)
           u == <<x>> \o r
<1>5. /\ u \in Seq(Q) /\ Len(u) = 1 + Len(s)
      /\ \A i \in 1 .. 1 + Len(s) : u[i] = IF i <= 1 THEN <<x>>[i] ELSE r[i - 1]
    BY <1>3, <1>4, ConcatProperties
<1>6. \A i \in 1 .. Len(s) : r[i] = s[(Len(s) - i) + 1]
    BY DEF Reverse
<1>7. \A i \in 1 .. Len(t) : Reverse(t)[i] = t[(Len(t) - i) + 1]
    BY DEF Reverse
<1> HIDE DEF r, u
<1>8. ASSUME NEW i \in 1 .. Len(s) + 1 PROVE Reverse(t)[i] = u[i]
  <2>1. CASE i = 1
      BY <1>1, <1>4, <1>5, <1>7, <2>1
  <2>2. CASE i # 1
    <3>1. /\ i - 1 \in 1 .. Len(s) /\ ~(i <= 1)
          /\ (Len(s) - (i - 1)) + 1 = (Len(t) - i) + 1
          /\ (Len(t) - i) + 1 \in 1 .. Len(s)
        BY <1>1, <2>2
    <3>2. u[i] = s[(Len(t) - i) + 1]
        BY <1>1, <1>5, <1>6, <3>1
    <3> QED
        BY <1>1, <1>7, <3>1, <3>2
  <2> QED
      BY <2>1, <2>2
<1>9. Reverse(t) = u
    BY <1>1, <1>2, <1>5, <1>8, SeqEqual
<1> QED
    BY <1>9 DEF t, u, r

LEMMA StackEmpty == FlattenSeq(Reverse(<<>>)) = <<>>
<1>1. Reverse(<<>>) = <<>>
    BY DEF Reverse
<1> QED
    BY <1>1, FlattenEmpty

LEMMA StackType ==
    ASSUME NEW Q, Closed(Q), NEW s \in Seq(Q)
    PROVE  FlattenSeq(Reverse(s)) \in Q
BY ReverseType, FlattenType

LEMMA StackPush ==
    ASSUME NEW Q, Closed(Q), NEW s \in Seq(Q), NEW x \in Q
    PROVE  FlattenSeq(Reverse(Append(s, x))) = x \o FlattenSeq(Reverse(s))
BY ReverseType, ReverseAppend, FlattenCons

(* The top chunk of a stack that is not empty, and what is below it.       *)
LEMMA StackTop ==
    ASSUME NEW Q, NEW s \in Seq(Q), s # <<>>
    PROVE  /\ Front(s) \in Seq(Q) /\ Last(s) \in Q
           /\ s = Append(Front(s), Last(s))
<1>1. PICK v \in Seq(Q), e \in Q : s = Append(v, e)
    BY SequenceEmptyOrAppend
<1>2. /\ Len(s) = Len(v) + 1 /\ Len(v) \in Nat /\ s[Len(v) + 1] = e
      /\ \A i \in 1 .. Len(v) : s[i] = v[i]
    BY <1>1, AppendProperties, LenProperties
<1>3. Last(s) = e
    BY <1>2 DEF Last
<1>4. Front(s) = v
  <2>1. Front(s) = SubSeq(s, 1, Len(v))
      BY <1>2 DEF Front
  <2>2. /\ SubSeq(s, 1, Len(v)) \in Seq(Q)
        /\ Len(SubSeq(s, 1, Len(v))) = Len(v)
        /\ \A i \in 1 .. Len(v) : SubSeq(s, 1, Len(v))[i] = s[i]
    <3>1. \A i \in 1 .. Len(v) : s[i] \in Q
        BY <1>2, ElementOfSeq
    <3> QED
        BY <1>2, <3>1, SubSeqProperties
  <2> QED
      BY <1>2, <2>1, <2>2, SeqEqual
<1> QED
    BY <1>1, <1>3, <1>4

(* Flattening one more chunk, and chunks that are all empty.               *)
LEMMA FlattenExtend ==
    ASSUME NEW Q, Closed(Q), NEW n \in Nat,
           NEW h \in [1 .. n -> Q], NEW g \in [1 .. n + 1 -> Q],
           \A i \in 1 .. n : g[i] = h[i]
    PROVE  FlattenSeq(g) = FlattenSeq(h) \o g[n + 1]
<1>1. h \in Seq(Q) /\ Len(h) = n /\ g \in Seq(Q) /\ Len(g) = n + 1 /\ g[n + 1] \in Q
    OBVIOUS
<1> DEFINE t == Append(h, g[n + 1])
<1>2. /\ t \in Seq(Q) /\ Len(t) = n + 1
      /\ \A i \in 1 .. n : t[i] = h[i]
      /\ t[n + 1] = g[n + 1]
    BY <1>1, AppendProperties
<1> HIDE DEF t
<1>3. \A i \in 1 .. n + 1 : t[i] = g[i]
  <2>1. \A i \in 1 .. n + 1 : i \in 1 .. n \/ i = n + 1
      OBVIOUS
  <2> QED
      BY <1>2, <2>1
<1>4. t = g
    BY <1>1, <1>2, <1>3, SeqEqual
<1> QED
    BY <1>1, <1>4, FlattenAppend DEF t

LEMMA FlattenEmpties ==
    ASSUME NEW Q, Closed(Q)
    PROVE  \A n \in Nat : FlattenSeq([i \in 1 .. n |-> <<>>]) = <<>>
<1> DEFINE E(n) == [i \in 1 .. n |-> <<>>]
           T == {n \in Nat : FlattenSeq(E(n)) = <<>>}
<1>1. 0 \in T
  <2>1. E(0) = <<>>
      OBVIOUS
  <2> QED
      BY <2>1, FlattenEmpty
<1>2. ASSUME NEW n \in Nat, n \in T PROVE n + 1 \in T
  <2>1. <<>> \in Q /\ <<>> \o <<>> = <<>>
      BY DEF Closed
  <2>2. E(n) \in [1 .. n -> Q] /\ E(n + 1) \in [1 .. n + 1 -> Q]
      BY <2>1
  <2>3. (\A i \in 1 .. n : E(n + 1)[i] = E(n)[i]) /\ E(n + 1)[n + 1] = <<>>
      OBVIOUS
  <2>4. FlattenSeq(E(n)) = <<>>
      BY <1>2
  <2> HIDE DEF E
  <2>5. FlattenSeq(E(n + 1)) = FlattenSeq(E(n)) \o E(n + 1)[n + 1]
      BY <2>2, <2>3, FlattenExtend
  <2> QED
      BY <2>1, <2>3, <2>4, <2>5
<1> HIDE DEF T
<1>3. \A n \in Nat : n \in T
    BY <1>1, <1>2, SetInduction
<1> QED
    BY <1>3 DEF T

(* What is left of a sequence without its first m elements.                *)
LEMMA DropType ==
    ASSUME NEW S, NEW s \in Seq(S), NEW m \in 0 .. Len(s)
    PROVE  /\ SubSeq(s, m + 1, Len(s)) \in Seq(S)
           /\ Len(SubSeq(s, m + 1, Len(s))) = Len(s) - m
           /\ \A i \in 1 .. Len(s) - m : SubSeq(s, m + 1, Len(s))[i] = s[m + i]
<1>1. Len(s) \in Nat
    BY LenProperties
<1>2. \A i \in m + 1 .. Len(s) : s[i] \in S
    BY <1>1, ElementOfSeq
<1>3. \A i \in 1 .. Len(s) - (m + 1) + 1 :
          SubSeq(s, m + 1, Len(s))[i] = s[(m + 1) + i - 1]
    BY <1>1, <1>2, SubSeqProperties
<1>4. \A i \in 1 .. Len(s) - m : SubSeq(s, m + 1, Len(s))[i] = s[m + i]
    BY <1>1, <1>3
<1> QED
    BY <1>1, <1>2, <1>4, SubSeqProperties

(* The first m elements of a sequence.                                     *)
LEMMA TakeType ==
    ASSUME NEW S, NEW s \in Seq(S), NEW m \in 0 .. Len(s)
    PROVE  /\ SubSeq(s, 1, m) \in Seq(S)
           /\ Len(SubSeq(s, 1, m)) = m
           /\ \A i \in 1 .. m : SubSeq(s, 1, m)[i] = s[i]
<1>1. Len(s) \in Nat
    BY LenProperties
<1>2. \A i \in 1 .. m : s[i] \in S
    BY <1>1, ElementOfSeq
<1>3. \A i \in 1 .. m - 1 + 1 : SubSeq(s, 1, m)[i] = s[1 + i - 1]
    BY <1>1, <1>2, SubSeqProperties
<1>4. \A i \in 1 .. m : SubSeq(s, 1, m)[i] = s[i]
    BY <1>1, <1>3
<1> QED
    BY <1>1, <1>2, <1>4, SubSeqProperties

LEMMA TakeDrop ==
    ASSUME NEW S, NEW s \in Seq(S), NEW m \in 0 .. Len(s)
    PROVE  SubSeq(s, 1, m) \o SubSeq(s, m + 1, Len(s)) = s
<1>1. Len(s) \in Nat
    BY LenProperties
<1>2. 1 \in 1 .. Len(s) + 1 /\ m \in 1 - 1 .. Len(s) /\ Len(s) \in m .. Len(s)
    BY <1>1
<1>3. SubSeq(s, 1, m) \o SubSeq(s, m + 1, Len(s)) = SubSeq(s, 1, Len(s))
    BY <1>2, ConcatAdjacentSubSeq
<1> QED
    BY <1>3, SubSeqFull

LEMMA PrefixOfConcat ==
    ASSUME NEW S, NEW s \in Seq(S), NEW t \in Seq(S)
    PROVE  IsPrefix(s, s \o t)
<1>1. /\ Len(s) \in Nat /\ Len(t) \in Nat
      /\ s \o t \in Seq(S) /\ Len(s \o t) = Len(s) + Len(t)
      /\ \A i \in 1 .. Len(s) : (s \o t)[i] = s[i]
  <2>1. Len(s) \in Nat /\ Len(t) \in Nat
      BY LenProperties
  <2>2. /\ s \o t \in Seq(S) /\ Len(s \o t) = Len(s) + Len(t)
        /\ \A i \in 1 .. Len(s) + Len(t) :
              (s \o t)[i] = IF i <= Len(s) THEN s[i] ELSE t[i - Len(s)]
      BY ConcatProperties
  <2> QED
      BY <2>1, <2>2
<1>2. Len(s) \in 0 .. Len(s) /\ Len(s) \in 0 .. Len(s \o t)
    BY <1>1
<1>3. SubSeq(s \o t, 1, Len(s)) = s
    BY <1>1, <1>2, TakeType, SeqEqual
<1>4. SubSeq(s, 1, Len(s)) = s
    BY SubSeqFull
<1> QED
    BY <1>1, <1>3, <1>4 DEF IsPrefix

LEMMA PrefixRest ==
    ASSUME NEW S, NEW s \in Seq(S), NEW t \in Seq(S), IsPrefix(s, t)
    PROVE  \E r \in Seq(S) : s \o r = t
<1>1. Len(s) \in 0 .. Len(t) /\ SubSeq(s, 1, Len(s)) = SubSeq(t, 1, Len(s))
    BY LenProperties DEF IsPrefix
<1>2. SubSeq(t, 1, Len(s)) = s
    BY <1>1, SubSeqFull
<1>3. SubSeq(t, Len(s) + 1, Len(t)) \in Seq(S)
    BY <1>1, DropType
<1> QED
    BY <1>1, <1>2, <1>3, TakeDrop

(* When two splits of a sequence differ, the first part of the longer one  *)
(* begins with the first part of the shorter one.                          *)
LEMMA CutFront ==
    ASSUME NEW S, NEW a \in Seq(S), NEW x \in Seq(S),
           NEW u \in Seq(S), NEW y \in Seq(S),
           a \o x = u \o y, Len(u) <= Len(a)
    PROVE  /\ SubSeq(a, 1, Len(u)) = u
           /\ SubSeq(a, Len(u) + 1, Len(a)) \o x = y
<1> DEFINE m == Len(u)
           p == SubSeq(a, 1, m)
           r == SubSeq(a, m + 1, Len(a))
<1>1. Len(a) \in Nat /\ Len(u) \in Nat /\ m \in 0 .. Len(a)
    BY LenProperties
<1>2. /\ p \in Seq(S) /\ Len(p) = m
      /\ r \in Seq(S) /\ p \o r = a
    BY <1>1, TakeType, DropType, TakeDrop
<1> HIDE DEF p, r
<1>3. r \o x \in Seq(S) /\ p \o (r \o x) = u \o y
  <2>1. r \o x \in Seq(S)
      BY <1>2, ConcatProperties
  <2>2. (p \o r) \o x = p \o (r \o x)
    <3>1. Closed(Seq(S))
        BY SeqClosed
    <3> DEFINE Q == Seq(S)
    <3>2. Closed(Q) /\ p \in Q /\ r \in Q /\ x \in Q
        BY <1>2, <3>1
    <3> HIDE DEF Q
    <3> QED
        BY <3>2 DEF Closed
  <2>3. (p \o r) \o x = u \o y
      BY <1>2
  <2> QED
      BY <2>1, <2>2, <2>3
<1>4. p = u
  <2>1. ASSUME NEW i \in 1 .. m PROVE p[i] = u[i]
    <3>1. (p \o (r \o x))[i] = p[i]
        BY <1>1, <1>2, <1>3, ConcatProperties, LenProperties
    <3>2. (u \o y)[i] = u[i]
        BY <1>1, ConcatProperties, LenProperties
    <3> QED
        BY <1>3, <3>1, <3>2
  <2> QED
      BY <1>2, <2>1, SeqEqual
<1>5. u \o (r \o x) = u \o y
    BY <1>3, <1>4
<1>6. r \o x = y
    BY <1>3, <1>5, ConcatSimplifications
<1> QED
    BY <1>4, <1>6 DEF p, r
-----------------------------------------------------------------------------
(***************************************************************************)
(* The first g chunks of a sequence of chunks, flattened, and where in     *)
(* FlattenSeq the elements of a chunk come to stand.                       *)
(***************************************************************************)
Ahead(s, g) == FlattenSeq([i \in 1 .. g |-> s[i]])

LEMMA AheadEmpty == ASSUME NEW s PROVE Ahead(s, 0) = <<>>
<1>1. [i \in 1 .. 0 |-> s[i]] = <<>>
    OBVIOUS
<1> QED
    BY <1>1, FlattenEmpty DEF Ahead

LEMMA AheadAll ==
    ASSUME NEW Q, NEW s \in Seq(Q)
    PROVE  Ahead(s, Len(s)) = FlattenSeq(s)
<1>1. [i \in 1 .. Len(s) |-> s[i]] = s
    BY LenProperties
<1> QED
    BY <1>1 DEF Ahead

LEMMA AheadType ==
    ASSUME NEW S, NEW s \in Seq(Seq(S)), NEW g \in 0 .. Len(s)
    PROVE  Ahead(s, g) \in Seq(S) /\ Len(Ahead(s, g)) \in Nat
<1> DEFINE Q == Seq(S)
<1>1. Closed(Q) /\ s \in Seq(Q)
    BY SeqClosed
<1> HIDE DEF Q
<1>2. [i \in 1 .. g |-> s[i]] \in Seq(Q)
  <2>1. Len(s) \in Nat /\ \A i \in 1 .. g : s[i] \in Q
      BY <1>1, LenProperties, ElementOfSeq
  <2> QED
      BY <2>1
<1>3. Ahead(s, g) \in Q
    BY <1>1, <1>2, FlattenType DEF Ahead
<1>4. Ahead(s, g) \in Seq(S)
    BY <1>3 DEF Q
<1> QED
    BY <1>4, LenProperties

LEMMA AheadStep ==
    ASSUME NEW S, NEW s \in Seq(Seq(S)), NEW g \in 1 .. Len(s)
    PROVE  Ahead(s, g) = Ahead(s, g - 1) \o s[g]
<1> DEFINE Q == Seq(S)
           h == [i \in 1 .. g - 1 |-> s[i]]
           f == [i \in 1 .. g |-> s[i]]
<1>1. Closed(Q) /\ s \in Seq(Q)
    BY SeqClosed
<1> HIDE DEF Q
<1>2. Len(s) \in Nat /\ \A i \in 1 .. g : s[i] \in Q
    BY <1>1, LenProperties, ElementOfSeq
<1>3. g - 1 \in Nat /\ (g - 1) + 1 = g
    BY <1>2
<1>4. h \in [1 .. g - 1 -> Q] /\ f \in [1 .. (g - 1) + 1 -> Q]
    BY <1>2, <1>3
<1>5. (\A i \in 1 .. g - 1 : f[i] = h[i]) /\ f[g] = s[g]
    BY <1>2
<1> HIDE DEF h, f
<1>6. FlattenSeq(f) = FlattenSeq(h) \o f[(g - 1) + 1]
    BY <1>1, <1>3, <1>4, <1>5, FlattenExtend
<1> QED
    BY <1>3, <1>5, <1>6 DEF Ahead, f, h

LEMMA AheadGrows ==
    ASSUME NEW S, NEW s \in Seq(Seq(S)), NEW g \in 0 .. Len(s)
    PROVE  \A h \in g .. Len(s) :
               /\ Len(Ahead(s, g)) <= Len(Ahead(s, h))
               /\ \A i \in 1 .. Len(Ahead(s, g)) : Ahead(s, h)[i] = Ahead(s, g)[i]
<1> DEFINE T == {n \in Nat : g + n <= Len(s) =>
                    /\ Len(Ahead(s, g)) <= Len(Ahead(s, g + n))
                    /\ \A i \in 1 .. Len(Ahead(s, g)) :
                          Ahead(s, g + n)[i] = Ahead(s, g)[i]}
<1>0. Len(s) \in Nat
    BY LenProperties
<1>1. 0 \in T
    BY AheadType
<1>2. ASSUME NEW n \in Nat, n \in T PROVE n + 1 \in T
  <2> SUFFICES ASSUME g + (n + 1) <= Len(s)
               PROVE  /\ Len(Ahead(s, g)) <= Len(Ahead(s, g + (n + 1)))
                      /\ \A i \in 1 .. Len(Ahead(s, g)) :
                            Ahead(s, g + (n + 1))[i] = Ahead(s, g)[i]
      OBVIOUS
  <2>1. /\ g + (n + 1) \in 1 .. Len(s) /\ (g + (n + 1)) - 1 = g + n
        /\ g + n \in 0 .. Len(s)
      BY <1>0
  <2>2. /\ Len(Ahead(s, g)) <= Len(Ahead(s, g + n))
        /\ \A i \in 1 .. Len(Ahead(s, g)) : Ahead(s, g + n)[i] = Ahead(s, g)[i]
      BY <1>2, <2>1
  <2> HIDE DEF T
  <2> DEFINE a == Ahead(s, g)
             b == Ahead(s, g + n)
             c == Ahead(s, g + (n + 1))
             x == s[g + (n + 1)]
  <2>3. /\ a \in Seq(S) /\ b \in Seq(S) /\ x \in Seq(S)
        /\ Len(a) \in Nat /\ Len(b) \in Nat /\ Len(x) \in Nat
    <3>1. x \in Seq(S)
        BY <2>1, ElementOfSeq
    <3> QED
        BY <2>1, <3>1, AheadType, LenProperties
  <2>4. c = b \o x
      BY <2>1, AheadStep
  <2>5. Len(a) <= Len(b) /\ \A i \in 1 .. Len(a) : b[i] = a[i]
      BY <2>2
  <2> HIDE DEF a, b, c, x
  <2>6. /\ Len(c) = Len(b) + Len(x)
        /\ \A i \in 1 .. Len(b) + Len(x) : c[i] = IF i <= Len(b) THEN b[i] ELSE x[i - Len(b)]
      BY <2>3, <2>4, ConcatProperties
  <2>7. \A i \in 1 .. Len(a) : i \in 1 .. Len(b) + Len(x) /\ i <= Len(b)
      BY <2>3, <2>5
  <2>8. \A i \in 1 .. Len(a) : c[i] = a[i]
      BY <2>5, <2>6, <2>7
  <2>9. Len(a) <= Len(c)
      BY <2>3, <2>5, <2>6
  <2> QED
      BY <2>8, <2>9 DEF a, c
<1> HIDE DEF T
<1>3. \A n \in Nat : n \in T
    BY <1>1, <1>2, SetInduction
<1>4. ASSUME NEW h \in g .. Len(s)
      PROVE  /\ Len(Ahead(s, g)) <= Len(Ahead(s, h))
             /\ \A i \in 1 .. Len(Ahead(s, g)) : Ahead(s, h)[i] = Ahead(s, g)[i]
  <2>1. h - g \in Nat /\ g + (h - g) = h /\ h <= Len(s)
      BY <1>0
  <2>2. h - g \in T
      BY <1>3, <2>1
  <2> QED
      BY <2>1, <2>2 DEF T
<1> QED
    BY <1>4

LEMMA FlattenAt ==
    ASSUME NEW S, NEW s \in Seq(Seq(S)), NEW g \in 1 .. Len(s)
    PROVE  /\ s[g] \in Seq(S) /\ Len(s[g]) \in Nat
           /\ FlattenSeq(s) \in Seq(S)
           /\ Len(Ahead(s, g - 1)) \in Nat
           /\ Len(Ahead(s, g)) = Len(Ahead(s, g - 1)) + Len(s[g])
           /\ Len(Ahead(s, g)) <= Len(FlattenSeq(s))
           /\ \A q \in 1 .. Len(s[g]) :
                 FlattenSeq(s)[Len(Ahead(s, g - 1)) + q] = s[g][q]
<1> DEFINE a == Ahead(s, g - 1)
           b == Ahead(s, g)
           c == FlattenSeq(s)
           x == s[g]
<1>1. Len(s) \in Nat /\ g - 1 \in 0 .. Len(s) /\ g \in 0 .. Len(s) /\ Len(s) \in g .. Len(s)
    BY LenProperties
<1>2. c = Ahead(s, Len(s)) /\ c \in Seq(S)
    BY <1>1, AheadAll, AheadType
<1>3. Len(b) <= Len(c) /\ \A i \in 1 .. Len(b) : c[i] = b[i]
    BY <1>1, <1>2, AheadGrows
<1>4. b = a \o x
    BY AheadStep
<1>5. a \in Seq(S) /\ x \in Seq(S) /\ Len(a) \in Nat /\ Len(x) \in Nat
    BY <1>1, AheadType, ElementOfSeq, LenProperties
<1> HIDE DEF a, b, c, x
<1>6. /\ Len(b) = Len(a) + Len(x)
      /\ \A i \in 1 .. Len(a) + Len(x) : b[i] = IF i <= Len(a) THEN a[i] ELSE x[i - Len(a)]
    BY <1>4, <1>5, ConcatProperties
<1>7. ASSUME NEW q \in 1 .. Len(x) PROVE c[Len(a) + q] = x[q]
  <2>1. Len(a) + q \in 1 .. Len(b) /\ ~(Len(a) + q <= Len(a)) /\ (Len(a) + q) - Len(a) = q
      BY <1>5, <1>6
  <2> QED
      BY <1>3, <1>6, <2>1
<1> QED
    BY <1>2, <1>3, <1>5, <1>6, <1>7 DEF a, b, c, x
=============================================================================
