---------------------------- MODULE Codec_proofs ----------------------------
(***************************************************************************)
(* What is proved of LineDecoder, of the numbers of ttpkit-utils and of    *)
(* the frames of WebSockets, for inputs of any length: the decoder finds   *)
(* the lines of the reference definition, a number is read exactly if it   *)
(* is one and fits, and what is encoded, number or frame, is read back.    *)
(* An input is a sequence over any set of bytes.  The codecs and their     *)
(* references are recursive functions; the first lemmas show that such     *)
(* functions exist and are unique, and an induction is over a set of       *)
(* positions, by LeastNatural or SetInduction.                             *)
(***************************************************************************)
EXTENDS LineCodec, NumberCodec, FrameCodec, SequenceFacts

(***************************************************************************)
(* Recursive functions.  A function whose value at n is computed from its  *)
(* value at some smaller p[n] exists, so the recursive definitions of the  *)
(* codecs mean what they say.                                              *)
(***************************************************************************)
Solves(f, n, a, h, p, S) ==
    /\ f \in [0..n -> S]
    /\ f[0] = a
    /\ \A i \in 1..n : f[i] = h[i][f[p[i]]]

LEMMA RecursionUnique ==
    ASSUME NEW S, NEW a \in S, NEW h, NEW p,
           \A n \in Nat \ {0} : p[n] \in Nat /\ p[n] < n,
           NEW m \in Nat, NEW n \in Nat, NEW f, NEW g,
           Solves(f, m, a, h, p, S), Solves(g, n, a, h, p, S)
    PROVE  \A i \in Nat : i <= m /\ i <= n => f[i] = g[i]
<1> DEFINE T == {i \in Nat : i <= m /\ i <= n /\ f[i] # g[i]}
<1> SUFFICES ASSUME T # {} PROVE FALSE
    OBVIOUS
<1>1. PICK i \in T : \A j \in T : i <= j
    BY LeastNatural
<1>2. i # 0
    BY DEF Solves
<1>3. p[i] \in Nat /\ p[i] < i /\ f[p[i]] = g[p[i]]
  <2>1. p[i] \in Nat /\ p[i] < i
      BY <1>2
  <2>2. p[i] \notin T
      BY <1>1, <2>1
  <2> QED
      BY <2>1, <2>2
<1>4. i \in 1..m /\ i \in 1..n
    BY <1>2
<1>5. f[i] = g[i]
    BY <1>3, <1>4 DEF Solves
<1> QED
    BY <1>5

LEMMA RecursionBounded ==
    ASSUME NEW S, NEW a \in S, NEW h, NEW p,
           \A n \in Nat \ {0} : p[n] \in Nat /\ p[n] < n,
           \A n \in Nat \ {0} : \A x \in S : h[n][x] \in S
    PROVE  \A n \in Nat : \E f : Solves(f, n, a, h, p, S)
<1> DEFINE T == {n \in Nat : \E f : Solves(f, n, a, h, p, S)}
<1>1. 0 \in T
  <2> DEFINE f == [i \in 0..0 |-> a]
  <2>1. Solves(f, 0, a, h, p, S)
      BY DEF Solves
  <2> QED
      BY <2>1
<1>2. ASSUME NEW n \in Nat, n \in T PROVE n + 1 \in T
  <2>1. PICK f : Solves(f, n, a, h, p, S)
      BY <1>2
  <2> DEFINE x == h[n + 1][f[p[n + 1]]]
             g == [i \in 0..n + 1 |-> IF i = n + 1 THEN x ELSE f[i]]
  <2>2. p[n + 1] \in 0..n /\ f[p[n + 1]] \in S
    <3>1. p[n + 1] \in Nat /\ p[n + 1] < n + 1
        OBVIOUS
    <3>2. p[n + 1] \in 0..n
        BY <3>1
    <3> QED
        BY <2>1, <3>2 DEF Solves
  <2>3. x \in S
      BY <2>2
  <2>4. g[n + 1] = h[n + 1][g[p[n + 1]]]
    <3> HIDE DEF x
    <3>1. g[n + 1] = x
        OBVIOUS
    <3>2. g[p[n + 1]] = f[p[n + 1]]
        BY <2>2
    <3> QED
        BY <3>1, <3>2 DEF x
  <2>5. ASSUME NEW i \in 1..n PROVE g[i] = h[i][g[p[i]]]
    <3>1. p[i] \in Nat /\ p[i] < i
        OBVIOUS
    <3>2. g[i] = f[i] /\ g[p[i]] = f[p[i]]
        BY <3>1
    <3> QED
        BY <2>1, <3>2 DEF Solves
  <2>6. g \in [0..n + 1 -> S] /\ g[0] = a
    <3> HIDE DEF x
    <3> QED
        BY <2>1, <2>3 DEF Solves
  <2>7. Solves(g, n + 1, a, h, p, S)
    <3> HIDE DEF g
    <3> QED
        BY <2>4, <2>5, <2>6 DEF Solves
  <2> QED
      BY <2>7
<1> HIDE DEF T
<1>3. \A n \in Nat : n \in T
    BY <1>1, <1>2, SetInduction
<1> QED
    BY <1>3 DEF T

Recursive(f, a, h, p, S) ==
    f \in [Nat -> S] /\ f[0] = a /\ \A n \in Nat \ {0} : f[n] = h[n][f[p[n]]]

LEMMA RecursionExists ==
    ASSUME NEW S, NEW a \in S, NEW h, NEW p,
           \A n \in Nat \ {0} : p[n] \in Nat /\ p[n] < n,
           \A n \in Nat \ {0} : \A x \in S : h[n][x] \in S
    PROVE  \E f : Recursive(f, a, h, p, S)
<1> DEFINE F(n) == CHOOSE g : Solves(g, n, a, h, p, S)
           f == [n \in Nat |-> F(n)[n]]
<1>1. ASSUME NEW n \in Nat PROVE Solves(F(n), n, a, h, p, S)
  <2>1. \E g : Solves(g, n, a, h, p, S)
      BY RecursionBounded
  <2> QED
      BY <2>1, Zenon
<1> HIDE DEF F
<1>2. ASSUME NEW n \in Nat, NEW i \in 0..n PROVE F(n)[i] = f[i]
  <2>1. i \in Nat /\ i <= n /\ i <= i
      OBVIOUS
  <2>2. F(n)[i] = F(i)[i]
      BY <1>1, <2>1, RecursionUnique
  <2> QED
      BY <2>1, <2>2
<1>3. ASSUME NEW n \in Nat PROVE f[n] \in S
    BY <1>1 DEF Solves
<1>4. f[0] = a
    BY <1>1 DEF Solves
<1>5. ASSUME NEW n \in Nat \ {0} PROVE f[n] = h[n][f[p[n]]]
  <2>1. p[n] \in 0..n /\ n \in 1..n /\ n \in 0..n
    <3>1. p[n] \in Nat /\ p[n] < n
        OBVIOUS
    <3> QED
        BY <3>1
  <2>2. F(n)[n] = h[n][F(n)[p[n]]]
      BY <1>1, <2>1 DEF Solves
  <2> QED
      BY <1>2, <2>1, <2>2
<1>6. f \in [Nat -> S]
    BY <1>3
<1> QED
    BY <1>4, <1>5, <1>6 DEF Recursive

StepsIn(h, N, S) == \A i \in 1..N : \A x \in S : h[i][x] \in S
Computes(f, a, h, N, S) ==
    /\ f \in [0..N -> S]
    /\ f[0] = a
    /\ \A i \in 1..N : f[i] = h[i][f[i - 1]]

LEMMA RunExists ==
    ASSUME NEW S, NEW a \in S, NEW N \in Nat, NEW h, StepsIn(h, N, S)
    PROVE  \E f : Computes(f, a, h, N, S)
<1> DEFINE k == [i \in Nat \ {0} |-> IF i <= N THEN h[i] ELSE [x \in S |-> x]]
           p == [i \in Nat \ {0} |-> i - 1]
<1>1. \A n \in Nat \ {0} : p[n] \in Nat /\ p[n] < n
    OBVIOUS
<1>2. \A n \in Nat \ {0} : \A x \in S : k[n][x] \in S
    BY DEF StepsIn
<1>3. ASSUME NEW i \in 1..N PROVE k[i] = h[i] /\ p[i] = i - 1
    OBVIOUS
<1> HIDE DEF k, p
<1>4. PICK f : Solves(f, N, a, k, p, S)
    BY <1>1, <1>2, RecursionBounded
<1>5. f \in [0..N -> S] /\ f[0] = a
    BY <1>4 DEF Solves
<1>6. ASSUME NEW i \in 1..N PROVE f[i] = h[i][f[i - 1]]
    BY <1>3, <1>4 DEF Solves
<1> QED
    BY <1>5, <1>6 DEF Computes

(* Two functions on 0..N that start alike and go on alike.                 *)
SameSteps(f, g, N) ==
    /\ f[0] = g[0]
    /\ \A i \in 1..N : f[i - 1] = g[i - 1] => f[i] = g[i]

SameValues(f, g, N) == \A i \in 0..N : f[i] = g[i]

LEMMA RunUnique ==
    ASSUME NEW N \in Nat, NEW f, NEW g, SameSteps(f, g, N)
    PROVE  SameValues(f, g, N)
<1> DEFINE T == {k \in Nat : k <= N => f[k] = g[k]}
<1>1. 0 \in T
    BY DEF SameSteps
<1>2. ASSUME NEW k \in Nat, k \in T PROVE k + 1 \in T
  <2> SUFFICES ASSUME k + 1 <= N PROVE f[k + 1] = g[k + 1]
      OBVIOUS
  <2>1. k + 1 \in 1..N /\ (k + 1) - 1 = k /\ f[k] = g[k]
      BY <1>2
  <2> QED
      BY <2>1 DEF SameSteps
<1> HIDE DEF T
<1>3. \A k \in Nat : k \in T
    BY <1>1, <1>2, SetInduction
<1> QED
    BY <1>3 DEF T, SameValues
-----------------------------------------------------------------------------
(***************************************************************************)
(* Tables of digits.                                                       *)
(***************************************************************************)
LEMMA IndexInTable ==
    ASSUME NEW table, Len(table) \in Nat, NEW b
    PROVE  /\ IndexIn(table, b) \in 0..Len(table)
           /\ Contains(table, b) =>
                IndexIn(table, b) \in 1..Len(table) /\ table[IndexIn(table, b)] = b
<1> DEFINE I == {i \in 1..Len(table) : table[i] = b}
<1>1. IndexIn(table, b) = IF I # {} THEN Min(I) ELSE 0
    BY DEF IndexIn, SelectInSeq
<1>2. Contains(table, b) => I # {}
    BY DEF Contains
<1>3. ASSUME I # {} PROVE Min(I) \in I
  <2>1. \E x \in I : \A y \in I : x <= y
    <3>1. I \subseteq Nat
        OBVIOUS
    <3> HIDE DEF I
    <3> QED
        BY <1>3, <3>1, LeastNatural
  <2> HIDE DEF I
  <2> QED
      BY <2>1 DEF Min
<1> QED
    BY <1>1, <1>2, <1>3

LEMMA HexTables ==
    /\ Len(LowerHexDigits) = 16 /\ Len(UpperHexDigits) = 16
    /\ \A i, j \in 1..16 : LowerHexDigits[i] = LowerHexDigits[j] => i = j
<1>1. Len(LowerHexDigits) = 16
    BY DEF LowerHexDigits
<1>2. Len(UpperHexDigits) = 16
    BY DEF UpperHexDigits
<1>3. ASSUME NEW i \in 1..16, NEW j \in 1..16,
             LowerHexDigits[i] = LowerHexDigits[j]
      PROVE  i = j
    BY <1>3 DEF LowerHexDigits
<1> QED
    BY <1>1, <1>2, <1>3

LEMMA DecTable ==
    /\ Len(DecDigits) = 10
    /\ \A i, j \in 1..10 : DecDigits[i] = DecDigits[j] => i = j
    BY DEF DecDigits

LEMMA HexDigitType ==
    ASSUME NEW b
    PROVE  HexDigitValue(b) \in Int /\ (IsHexDigit(b) => HexDigitValue(b) \in 0..15)
<1>1. Len(LowerHexDigits) \in Nat /\ Len(UpperHexDigits) \in Nat
    BY HexTables
<1>2. /\ IndexIn(LowerHexDigits, b) \in 0..Len(LowerHexDigits)
      /\ Contains(LowerHexDigits, b) =>
           IndexIn(LowerHexDigits, b) \in 1..Len(LowerHexDigits)
    BY <1>1, IndexInTable
<1>3. /\ IndexIn(UpperHexDigits, b) \in 0..Len(UpperHexDigits)
      /\ Contains(UpperHexDigits, b) =>
           IndexIn(UpperHexDigits, b) \in 1..Len(UpperHexDigits)
    BY <1>1, IndexInTable
<1> QED
    BY <1>2, <1>3, HexTables DEF HexDigitValue, IsHexDigit

LEMMA DecDigitType ==
    ASSUME NEW b
    PROVE  DecValue(b) \in Int /\ (IsDecDigit(b) => DecValue(b) \in 0..9)
<1>1. DecValue(b) = IndexIn(DecDigits, b) - 1
    BY DEF DecValue, IndexIn
<1>2. IndexIn(DecDigits, b) \in 0..10
    BY DecTable, IndexInTable
<1>3. Contains(DecDigits, b) => IndexIn(DecDigits, b) \in 1..10
    BY DecTable, IndexInTable
<1> QED
    BY <1>1, <1>2, <1>3 DEF IsDecDigit

LEMMA HexDigitOf ==
    ASSUME NEW d \in 0..15
    PROVE  /\ IsHexDigit(LowerHexDigits[d + 1])
           /\ HexDigitValue(LowerHexDigits[d + 1]) = d
<1> DEFINE b == LowerHexDigits[d + 1]
<1>1. Contains(LowerHexDigits, b)
    BY HexTables DEF Contains
<1>2. IndexIn(LowerHexDigits, b) \in 1..16 /\ LowerHexDigits[IndexIn(LowerHexDigits, b)] = b
  <2>1. Len(LowerHexDigits) = 16 /\ Len(LowerHexDigits) \in Nat
      BY HexTables
  <2> HIDE DEF b
  <2> QED
      BY <1>1, <2>1, IndexInTable
<1>3. IndexIn(LowerHexDigits, b) = d + 1
    BY <1>2, HexTables
<1> QED
    BY <1>1, <1>3 DEF HexDigitValue, IsHexDigit

LEMMA DecDigitOf ==
    ASSUME NEW d \in 0..9
    PROVE  /\ IsDecDigit(DecDigits[d + 1])
           /\ DecValue(DecDigits[d + 1]) = d
<1> DEFINE b == DecDigits[d + 1]
<1>1. Contains(DecDigits, b)
    BY DecTable DEF Contains
<1>2. IndexIn(DecDigits, b) \in 1..10 /\ DecDigits[IndexIn(DecDigits, b)] = b
  <2>1. Len(DecDigits) = 10 /\ Len(DecDigits) \in Nat
      BY DecTable
  <2> HIDE DEF b
  <2> QED
      BY <1>1, <2>1, IndexInTable
<1>3. IndexIn(DecDigits, b) = d + 1
    BY <1>2, DecTable
<1>4. DecValue(b) = IndexIn(DecDigits, b) - 1
    BY DEF DecValue, IndexIn
<1> QED
    BY <1>1, <1>3, <1>4 DEF IsDecDigit
-----------------------------------------------------------------------------
(***************************************************************************)
(* Hexadecimal numbers.                                                    *)
(***************************************************************************)
LEMMA HexSumsAre ==
    ASSUME NEW s, Len(s) \in Nat
    PROVE  /\ HexSums(s) \in [0..Len(s) -> Int]
           /\ HexSums(s)[0] = 0
           /\ \A i \in 1..Len(s) :
                HexSums(s)[i] = 16 * HexSums(s)[i - 1] + HexDigitValue(s[i])
<1> DEFINE N == Len(s)
           h == [i \in 1..N |-> [x \in Int |-> 16 * x + HexDigitValue(s[i])]]
           D(g) == g = [i \in 0..N |-> IF i = 0 THEN 0
                            ELSE 16 * g[i - 1] + HexDigitValue(s[i])]
<1>1. \A i \in 1..N : \A x \in Int : h[i][x] = 16 * x + HexDigitValue(s[i])
    OBVIOUS
<1>2. \A i \in 1..N : \A x \in Int : h[i][x] \in Int
    BY <1>1, HexDigitType
<1> HIDE DEF h
<1>3. PICK f : Computes(f, 0, h, N, Int)
  <2> DEFINE S == Int
             zero == 0
  <2>1. StepsIn(h, N, S) /\ N \in Nat /\ zero \in S
      BY <1>2 DEF StepsIn
  <2> HIDE DEF N, S, zero
  <2>2. \E f : Computes(f, zero, h, N, S)
      BY <2>1, RunExists
  <2> QED
      BY <2>2 DEF S, zero
<1>4. ASSUME NEW i \in 1..N PROVE f[i] = 16 * f[i - 1] + HexDigitValue(s[i])
  <2>1. i - 1 \in 0..N /\ f[i - 1] \in Int
      BY <1>3 DEF Computes
  <2> QED
      BY <1>1, <1>3, <2>1 DEF Computes
<1>5. D(f)
    BY <1>3, <1>4 DEF Computes
<1>6. D(CHOOSE g : D(g))
    BY <1>5, Zenon
<1>7. HexSums(s) = CHOOSE g : D(g)
    BY DEF HexSums
<1>8. HexSums(s) = f
    <2>1. D(HexSums(s))
        BY <1>6, <1>7
    <2>2. f[0] = HexSums(s)[0]
        BY <1>3, <2>1 DEF Computes
    <2>3. ASSUME NEW i \in 1..N, f[i - 1] = HexSums(s)[i - 1]
          PROVE  f[i] = HexSums(s)[i]
        BY <1>4, <2>1, <2>3
    <2>4. SameSteps(f, HexSums(s), N)
        BY <2>2, <2>3 DEF SameSteps
    <2>6. SameValues(f, HexSums(s), N)
        BY <2>4, RunUnique
    <2>5. f = [i \in 0..N |-> f[i]] /\ HexSums(s) = [i \in 0..N |-> HexSums(s)[i]]
        BY <1>3, <2>1 DEF Computes
    <2> QED
        BY <2>5, <2>6 DEF SameValues
<1> QED
    BY <1>3, <1>4, <1>8 DEF Computes

OptionOf(S) == {None} \union {Some(x) : x \in S}

LEMMA OptionCases ==
    ASSUME NEW S, NEW x \in OptionOf(S)
    PROVE  x = None \/ (x # None /\ x[1] \in S /\ x = Some(x[1]))
    BY DEF OptionOf, None, Some

LEMMA OptionSome ==
    ASSUME NEW S, NEW x \in S
    PROVE  Some(x) \in OptionOf(S) /\ Some(x) # None /\ Some(x)[1] = x
    BY DEF OptionOf, None, Some

LEMMA PushByteType ==
    ASSUME NEW digits, NEW x \in OptionOf(Nat), NEW b
    PROVE  PushByteOf(digits, x, b) \in OptionOf(Nat)
<1>1. CASE x = None \/ ~IsHexDigit(b)
    BY <1>1 DEF PushByteOf, OptionOf
<1>2. CASE x # None /\ IsHexDigit(b)
  <2>1. x[1] \in Nat
      BY <1>2, OptionCases
  <2> DEFINE y == 16 * x[1] + HexDigitValue(b)
  <2>2. y \in Nat
      BY <1>2, <2>1, HexDigitType
  <2>3. PushByteOf(digits, x, b) = None \/ PushByteOf(digits, x, b) = Some(y)
      BY <1>2 DEF PushByteOf, PushHexDigit
  <2> HIDE DEF y
  <2> QED
      BY <2>2, <2>3 DEF OptionOf
<1> QED
    BY <1>1, <1>2

LEMMA DecodeHexRun ==
    ASSUME NEW digits, NEW s, Len(s) \in Nat
    PROVE  \E v : /\ v \in [0..Len(s) -> OptionOf(Nat)]
                  /\ v[0] = Some(0)
                  /\ \A i \in 1..Len(s) :
                       v[i] = PushByteOf(digits, v[i - 1], s[i])
                  /\ DecodeHex(s, digits) = IF s = <<>> THEN None ELSE v[Len(s)]
<1> DEFINE N == Len(s)
           S == OptionOf(Nat)
           h == [i \in 1..N |-> [x \in S |-> PushByteOf(digits, x, s[i])]]
           D(g) == g = [i \in 0..N |-> IF i = 0 THEN Some(0)
                            ELSE PushByteOf(digits, g[i - 1], s[i])]
           start == Some(0)
<1>1. \A i \in 1..N : \A x \in S : h[i][x] = PushByteOf(digits, x, s[i])
    OBVIOUS
<1>2. StepsIn(h, N, S)
    BY <1>1, PushByteType DEF StepsIn
<1>3. start \in S /\ N \in Nat
    BY DEF OptionOf
<1> HIDE DEF h, S, start
<1>4. PICK f : Computes(f, start, h, N, S)
  <2> HIDE DEF N
  <2> QED
      BY <1>2, <1>3, RunExists
<1>5. ASSUME NEW i \in 1..N PROVE f[i] = PushByteOf(digits, f[i - 1], s[i])
  <2>1. i - 1 \in 0..N /\ f[i - 1] \in S
      BY <1>4 DEF Computes
  <2> QED
      BY <1>1, <1>4, <2>1 DEF Computes
<1>6. D(f)
    BY <1>4, <1>5 DEF Computes, start
<1> DEFINE v == CHOOSE g : D(g)
<1>7. D(v)
    BY <1>6, Zenon
<1>8. DecodeHex(s, digits) = IF s = <<>> THEN None ELSE v[N]
    BY DEF DecodeHex
<1> HIDE DEF v
<1>9. f = v
  <2>1. f[0] = v[0]
      BY <1>4, <1>7 DEF Computes, start
  <2>2. ASSUME NEW i \in 1..N, f[i - 1] = v[i - 1] PROVE f[i] = v[i]
      BY <1>5, <1>7, <2>2
  <2>3. SameValues(f, v, N)
    <3>1. SameSteps(f, v, N) /\ N \in Nat
        BY <1>3, <2>1, <2>2 DEF SameSteps
    <3> HIDE DEF N
    <3> QED
        BY <3>1, RunUnique
  <2>4. f = [i \in 0..N |-> f[i]] /\ v = [i \in 0..N |-> v[i]]
      BY <1>4, <1>7 DEF Computes
  <2> QED
      BY <2>3, <2>4 DEF SameValues
<1> QED
    BY <1>4, <1>5, <1>8, <1>9 DEF Computes, S, start

LEMMA HexValuesAre ==
    /\ HexValues \in [Nat -> Nat]
    /\ HexValues[0] = 1
    /\ \A n \in Nat \ {0} : HexValues[n] = 16 * HexValues[n - 1]
    /\ \A n \in Nat : HexValues[n] > 0
<1> DEFINE S == Nat \ {0}
           h == [n \in Nat \ {0} |-> [x \in S |-> 16 * x]]
           p == [n \in Nat \ {0} |-> n - 1]
           D(g) == g = [n \in Nat |-> IF n = 0 THEN 1 ELSE 16 * g[n - 1]]
           one == 1
<1>1. \A n \in Nat \ {0} : p[n] \in Nat /\ p[n] < n /\ p[n] = n - 1
    OBVIOUS
<1>2. \A n \in Nat \ {0} : \A x \in S : h[n][x] \in S /\ h[n][x] = 16 * x
    OBVIOUS
<1>3. one \in S
    OBVIOUS
<1> HIDE DEF S, h, p, one
<1>4. PICK f : Recursive(f, one, h, p, S)
    BY <1>1, <1>2, <1>3, RecursionExists
<1>5. ASSUME NEW n \in Nat \ {0} PROVE f[n] = 16 * f[n - 1]
    BY <1>1, <1>2, <1>4 DEF Recursive
<1>6. D(f)
    BY <1>4, <1>5 DEF one, Recursive
<1>7. D(CHOOSE g : D(g))
    BY <1>6, Zenon
<1>8. D(HexValues)
    BY <1>7 DEF HexValues
<1> DEFINE v == HexValues
<1> HIDE DEF v
<1>9. f = v
  <2> DEFINE T == {n \in Nat : f[n] = v[n]}
  <2>1. 0 \in T
      BY <1>4, <1>8 DEF one, v, Recursive
  <2>2. ASSUME NEW n \in Nat, n \in T PROVE n + 1 \in T
    <3>1. n + 1 \in Nat \ {0} /\ (n + 1) - 1 = n
        OBVIOUS
    <3>2. f[n + 1] = 16 * f[n] /\ v[n + 1] = 16 * v[n]
        BY <1>5, <1>8, <3>1 DEF v
    <3> QED
        BY <2>2, <3>2
  <2> HIDE DEF T
  <2>3. \A n \in Nat : n \in T
      BY <2>1, <2>2, SetInduction
  <2>4. f = [n \in Nat |-> f[n]] /\ v = [n \in Nat |-> v[n]]
      BY <1>4, <1>8 DEF v, Recursive
  <2> QED
      BY <2>3, <2>4 DEF T
<1>10. f = HexValues
    BY <1>9 DEF v
<1> HIDE <1>8
<1> QED
    BY <1>4, <1>5, <1>10 DEF S, one, Recursive

(* A digit more fits exactly if there is nothing in the top digit.         *)
LEMMA PushFits ==
    ASSUME NEW H \in Nat, H > 0, NEW n \in Nat, NEW d \in 0..15
    PROVE  (n \div H = 0) = (16 * n + d < 16 * H)
<1>1. n < H => n \div H = 0
    OBVIOUS
<1>2. n >= H => n \div H # 0
    OBVIOUS
<1> QED
    BY <1>1, <1>2

(* One byte, when what was read before it is the sum of its digits if they *)
(* are digits and the sum fits.                                            *)
Fits(good, sum, bound) == IF good /\ sum < bound THEN Some(sum) ELSE None

LEMMA PushExact ==
    ASSUME NEW digits \in Nat \ {0}, NEW good \in BOOLEAN, NEW n \in Int,
           good => n \in Nat, NEW b
    PROVE  PushByteOf(digits, Fits(good, n, HexValues[digits]), b)
             = Fits(good /\ IsHexDigit(b), 16 * n + HexDigitValue(b),
                    HexValues[digits])
<1> DEFINE H == HexValues[digits - 1]
           V == HexValues[digits]
           d == HexDigitValue(b)
<1>1. H \in Nat /\ H > 0 /\ V = 16 * H
    BY HexValuesAre
<1>2. d \in Int /\ (IsHexDigit(b) => d \in 0..15)
    BY HexDigitType
<1>3. PushHexDigit(digits, n, d) = IF n \div H # 0 THEN None ELSE Some(16 * n + d)
    BY DEF PushHexDigit
<1> HIDE DEF H, V, d
<1>4. CASE ~good \/ ~IsHexDigit(b)
    BY <1>4 DEF Fits, PushByteOf, None, Some
<1>5. CASE good /\ IsHexDigit(b) /\ n < V
  <2>1. Fits(good, n, V) = Some(n) /\ Some(n) # None /\ Some(n)[1] = n
      BY <1>5 DEF Fits, Some, None
  <2>2. (n \div H = 0) = (16 * n + d < V)
      BY <1>1, <1>2, <1>5, PushFits
  <2>3. PushByteOf(digits, Some(n), b) = PushHexDigit(digits, n, d)
      BY <1>5, <2>1 DEF PushByteOf, d
  <2> QED
      BY <1>3, <1>5, <2>1, <2>2, <2>3 DEF Fits, V, d
<1>6. CASE good /\ IsHexDigit(b) /\ ~(n < V)
  <2>1. ~(16 * n + d < V)
      BY <1>1, <1>2, <1>6
  <2> QED
      BY <1>6, <2>1 DEF Fits, PushByteOf, V, d
<1> QED
    BY <1>1, <1>4, <1>5, <1>6

HexUpTo(s, i) == \A j \in 1..i : IsHexDigit(s[j])

LEMMA HexUpToNext ==
    ASSUME NEW s, NEW i \in Nat
    PROVE  /\ HexUpTo(s, i) \in BOOLEAN /\ HexUpTo(s, 0)
           /\ HexUpTo(s, i + 1) = (HexUpTo(s, i) /\ IsHexDigit(s[i + 1]))
<1>1. \A j \in 1..i + 1 : j \in 1..i \/ j = i + 1
    OBVIOUS
<1>2. i + 1 \in 1..i + 1 /\ 1..i \subseteq 1..i + 1
    OBVIOUS
<1>3. HexUpTo(s, i + 1) => HexUpTo(s, i) /\ IsHexDigit(s[i + 1])
    BY <1>2 DEF HexUpTo
<1>4. HexUpTo(s, i) /\ IsHexDigit(s[i + 1]) => HexUpTo(s, i + 1)
    BY <1>1 DEF HexUpTo
<1>5. HexUpTo(s, i) \in BOOLEAN /\ HexUpTo(s, i + 1) \in BOOLEAN /\ HexUpTo(s, 0)
    BY DEF HexUpTo
<1> QED
    BY <1>3, <1>4, <1>5

(* decode_hex reads exactly the texts of digits whose number has no more   *)
(* digits than the type, leading zeros not counted, and gives the number.  *)
LEMMA HexDecoded ==
    ASSUME NEW digits \in Nat \ {0}, NEW Byte, NEW s \in Seq(Byte)
    PROVE  HexExact(digits, s)
<1> DEFINE N == Len(s)
           V == HexValues[digits]
           sum == HexSums(s)
           Good(i) == HexUpTo(s, i)
<1>1. N \in Nat /\ (s = <<>> <=> N = 0) /\ DOMAIN s = 1..N
    BY EmptySeq
<1>2. PICK v : /\ v \in [0..N -> OptionOf(Nat)]
               /\ v[0] = Some(0)
               /\ \A i \in 1..N : v[i] = PushByteOf(digits, v[i - 1], s[i])
               /\ DecodeHex(s, digits) = IF s = <<>> THEN None ELSE v[N]
    BY <1>1, DecodeHexRun
<1>3. /\ sum \in [0..N -> Int] /\ sum[0] = 0
      /\ \A i \in 1..N : sum[i] = 16 * sum[i - 1] + HexDigitValue(s[i])
    BY <1>1, HexSumsAre
<1> DEFINE Exact(i) == (Good(i) => sum[i] \in Nat) /\ v[i] = Fits(Good(i), sum[i], V)
           T == {i \in Nat : i <= N => Exact(i)}
<1>4. Exact(0)
  <2>1. V > 0 /\ V \in Nat
      BY HexValuesAre
  <2> QED
      BY <1>2, <1>3, <2>1, HexUpToNext DEF Fits
<1>5. ASSUME NEW i \in Nat, i + 1 <= N, Exact(i) PROVE Exact(i + 1)
  <2>1. i + 1 \in 1..N /\ i \in 0..N /\ (i + 1) - 1 = i
      BY <1>5
  <2>3. sum[i + 1] = 16 * sum[i] + HexDigitValue(s[i + 1]) /\ sum[i] \in Int
      BY <1>3, <2>1
  <2>5. v[i + 1] = PushByteOf(digits, v[i], s[i + 1])
      BY <1>2, <2>1
  <2> DEFINE good == Good(i)
             n == sum[i]
             b == s[i + 1]
  <2>2. good \in BOOLEAN /\ Good(i + 1) = (good /\ IsHexDigit(b))
      BY HexUpToNext
  <2>4. (good => n \in Nat) /\ v[i] = Fits(good, n, V)
      BY <1>5
  <2> HIDE DEF good, n, b, sum, Good
  <2>7. good /\ IsHexDigit(b) => 16 * n + HexDigitValue(b) \in Nat
      BY SMTT(20), <2>4, HexDigitType
  <2>8. PushByteOf(digits, Fits(good, n, V), b)
          = Fits(good /\ IsHexDigit(b), 16 * n + HexDigitValue(b), V)
      BY <2>2, <2>3, <2>4, PushExact DEF n
  <2>9. sum[i + 1] = 16 * n + HexDigitValue(b)
      BY <2>3 DEF n, b
  <2>10. v[i + 1] = PushByteOf(digits, Fits(good, n, V), b)
      BY <2>4, <2>5 DEF b
  <2> QED
      BY <2>2, <2>7, <2>8, <2>9, <2>10
<1> HIDE DEF Exact
<1>6. \A i \in Nat : i \in T
  <2>1. 0 \in T
      BY <1>4
  <2>2. ASSUME NEW i \in Nat, i \in T PROVE i + 1 \in T
      BY <1>1, <1>5, <2>2
  <2> HIDE DEF T
  <2> QED
      BY <2>1, <2>2, SetInduction
<1>7. Exact(N)
    BY <1>1, <1>6
<1>8. DecodeHex(s, digits)
        = IF s # <<>> /\ Good(N) /\ sum[N] < V THEN Some(sum[N]) ELSE None
    BY <1>2, <1>7 DEF Exact, Fits
<1> QED
    BY <1>1, <1>8 DEF HexExact, HexSum, HexUpTo
-----------------------------------------------------------------------------
(***************************************************************************)
(* Decimal numbers.                                                        *)
(***************************************************************************)
LEMMA DecSumsAre ==
    ASSUME NEW s, Len(s) \in Nat
    PROVE  /\ DecSums(s) \in [0..Len(s) -> Int]
           /\ DecSums(s)[0] = 0
           /\ \A i \in 1..Len(s) :
                DecSums(s)[i] = 10 * DecSums(s)[i - 1] + DecValue(s[i])
<1> DEFINE N == Len(s)
           h == [i \in 1..N |-> [x \in Int |-> 10 * x + DecValue(s[i])]]
           D(g) == g = [i \in 0..N |-> IF i = 0 THEN 0
                            ELSE 10 * g[i - 1] + DecValue(s[i])]
<1>1. \A i \in 1..N : \A x \in Int : h[i][x] = 10 * x + DecValue(s[i])
    OBVIOUS
<1>2. \A i \in 1..N : \A x \in Int : h[i][x] \in Int
    BY <1>1, DecDigitType
<1> HIDE DEF h
<1>3. PICK f : Computes(f, 0, h, N, Int)
  <2> DEFINE S == Int
             zero == 0
  <2>1. StepsIn(h, N, S) /\ N \in Nat /\ zero \in S
      BY <1>2 DEF StepsIn
  <2> HIDE DEF N, S, zero
  <2>2. \E f : Computes(f, zero, h, N, S)
      BY <2>1, RunExists
  <2> QED
      BY <2>2 DEF S, zero
<1>4. ASSUME NEW i \in 1..N PROVE f[i] = 10 * f[i - 1] + DecValue(s[i])
  <2>1. i - 1 \in 0..N /\ f[i - 1] \in Int
      BY <1>3 DEF Computes
  <2> QED
      BY <1>1, <1>3, <2>1 DEF Computes
<1>5. D(f)
    BY <1>3, <1>4 DEF Computes
<1>6. D(CHOOSE g : D(g))
    BY <1>5, Zenon
<1>7. DecSums(s) = CHOOSE g : D(g)
    BY DEF DecSums
<1>8. DecSums(s) = f
    <2>1. D(DecSums(s))
        BY <1>6, <1>7
    <2>2. f[0] = DecSums(s)[0]
        BY <1>3, <2>1 DEF Computes
    <2>3. ASSUME NEW i \in 1..N, f[i - 1] = DecSums(s)[i - 1]
          PROVE  f[i] = DecSums(s)[i]
        BY <1>4, <2>1, <2>3
    <2>4. SameSteps(f, DecSums(s), N)
        BY <2>2, <2>3 DEF SameSteps
    <2>6. SameValues(f, DecSums(s), N)
        BY <2>4, RunUnique
    <2>5. f = [i \in 0..N |-> f[i]] /\ DecSums(s) = [i \in 0..N |-> DecSums(s)[i]]
        BY <1>3, <2>1 DEF Computes
    <2> QED
        BY <2>5, <2>6 DEF SameValues
<1> QED
    BY <1>3, <1>4, <1>8 DEF Computes

(* The type of a decimal number: a range of integers with 0 in it.         *)
DecType(type) == type.min \in Int /\ type.max \in Int /\ type.min <= 0 /\ 0 <= type.max

LEMMA AtoiDigitType ==
    ASSUME NEW type, NEW sign \in {-1, 1}, NEW x \in OptionOf(Int), NEW b
    PROVE  AtoiDigit(type, sign, x, b) \in OptionOf(Int)
<1> DEFINE y == 10 * x[1] + sign * DecValue(b)
<1>1. CASE x = None
    BY <1>1 DEF AtoiDigit, OptionOf
<1>2. CASE x # None
  <2>1. x[1] \in Int /\ sign * DecValue(b) \in Int
      BY <1>2, OptionCases, DecDigitType
  <2>2. y \in Int
      BY <2>1
  <2>3. AtoiDigit(type, sign, x, b) = None \/ AtoiDigit(type, sign, x, b) = Some(y)
      BY <1>2 DEF AtoiDigit, InType
  <2> HIDE DEF y
  <2> QED
      BY <2>2, <2>3 DEF OptionOf
<1> QED
    BY <1>1, <1>2

LEMMA AccumulatedRun ==
    ASSUME NEW type, NEW sign \in {-1, 1}, NEW s, Len(s) \in Nat
    PROVE  \E v : /\ v \in [0..Len(s) -> OptionOf(Int)]
                  /\ v[0] = Some(0)
                  /\ \A i \in 1..Len(s) : v[i] = AtoiDigit(type, sign, v[i - 1], s[i])
                  /\ Accumulated(type, sign, s) = v[Len(s)]
<1> DEFINE N == Len(s)
           S == OptionOf(Int)
           h == [i \in 1..N |-> [x \in S |-> AtoiDigit(type, sign, x, s[i])]]
           D(g) == g = [i \in 0..N |-> IF i = 0 THEN Some(0)
                            ELSE AtoiDigit(type, sign, g[i - 1], s[i])]
           start == Some(0)
<1>1. \A i \in 1..N : \A x \in S : h[i][x] = AtoiDigit(type, sign, x, s[i])
    OBVIOUS
<1>2. StepsIn(h, N, S)
    BY <1>1, AtoiDigitType DEF StepsIn
<1>3. start \in S /\ N \in Nat
    BY DEF OptionOf
<1> HIDE DEF h, S, start
<1>4. PICK f : Computes(f, start, h, N, S)
  <2> HIDE DEF N
  <2> QED
      BY <1>2, <1>3, RunExists
<1>5. ASSUME NEW i \in 1..N PROVE f[i] = AtoiDigit(type, sign, f[i - 1], s[i])
  <2>1. i - 1 \in 0..N /\ f[i - 1] \in S
      BY <1>4 DEF Computes
  <2> QED
      BY <1>1, <1>4, <2>1 DEF Computes
<1>6. D(f)
    BY <1>4, <1>5 DEF Computes, start
<1> DEFINE v == CHOOSE g : D(g)
<1>7. D(v)
    BY <1>6, Zenon
<1>8. Accumulated(type, sign, s) = v[N]
    BY DEF Accumulated
<1> HIDE DEF v
<1>9. f = v
  <2>1. f[0] = v[0]
      BY <1>4, <1>7 DEF Computes, start
  <2>2. ASSUME NEW i \in 1..N, f[i - 1] = v[i - 1] PROVE f[i] = v[i]
      BY <1>5, <1>7, <2>2
  <2>3. SameValues(f, v, N)
    <3>1. SameSteps(f, v, N) /\ N \in Nat
        BY <1>3, <2>1, <2>2 DEF SameSteps
    <3> HIDE DEF N
    <3> QED
        BY <3>1, RunUnique
  <2>4. f = [i \in 0..N |-> f[i]] /\ v = [i \in 0..N |-> v[i]]
      BY <1>4, <1>7 DEF Computes
  <2> QED
      BY <2>3, <2>4 DEF SameValues
<1> QED
    BY <1>4, <1>5, <1>8, <1>9 DEF Computes, S, start

(* One digit: once out of range, the number stays out of range.            *)
NextDigit(sign, n, b, next, x, y) ==
    /\ sign \in {-1, 1} /\ n \in Nat /\ IsDecDigit(b)
    /\ next = 10 * n + DecValue(b) /\ x = sign * n /\ y = sign * next

LEMMA AtoiExact ==
    ASSUME NEW type, DecType(type), NEW sign, NEW n, NEW b, NEW next, NEW x, NEW y,
           NextDigit(sign, n, b, next, x, y)
    PROVE  /\ next \in Nat
           /\ AtoiDigit(type, sign, InType(type, x), b) = InType(type, y)
<1> DEFINE d == DecValue(b)
           low == type.min
           high == type.max
<1>1. d \in 0..9 /\ low \in Int /\ high \in Int /\ low <= 0 /\ 0 <= high
    BY DecDigitType DEF DecType, NextDigit
<1>2. /\ x \in Int /\ y \in Int /\ 10 * x + sign * d = y /\ next \in Nat
      /\ sign \in {-1, 1} /\ n \in Nat /\ next = 10 * n + d
      /\ x = sign * n /\ y = sign * next
    BY <1>1 DEF NextDigit
<1>3. ~(x \in low..high) => ~(y \in low..high)
  <2> HIDE DEF d, low, high
  <2>1. CASE sign = 1
      BY <1>1, <1>2, <2>1
  <2>2. CASE sign = -1
      BY <1>1, <1>2, <2>2
  <2> QED
      BY <1>2, <2>1, <2>2
<1> HIDE DEF d, low, high
<1>4. CASE x \in low..high
  <2>1. InType(type, x) = Some(x) /\ Some(x) # None /\ Some(x)[1] = x
      BY <1>4 DEF InType, Some, None, low, high
  <2>2. AtoiDigit(type, sign, InType(type, x), b) = InType(type, 10 * x + sign * d)
      BY <2>1 DEF AtoiDigit, d
  <2> QED
      BY <1>2, <2>2
<1>5. CASE ~(x \in low..high)
    BY <1>2, <1>3, <1>5 DEF InType, AtoiDigit, low, high
<1> QED
    BY <1>2, <1>4, <1>5

LEMMA AccumulatedExact ==
    ASSUME NEW type, DecType(type), NEW sign \in {-1, 1}, NEW s, Len(s) \in Nat,
           \A i \in 1..Len(s) : IsDecDigit(s[i])
    PROVE  /\ DecSum(s) \in Nat
           /\ Accumulated(type, sign, s) = InType(type, sign * DecSum(s))
<1> DEFINE N == Len(s)
           sum == DecSums(s)
<1>1. PICK v : /\ v \in [0..N -> OptionOf(Int)]
               /\ v[0] = Some(0)
               /\ \A i \in 1..N : v[i] = AtoiDigit(type, sign, v[i - 1], s[i])
               /\ Accumulated(type, sign, s) = v[N]
    BY SMTT(20), AccumulatedRun
<1>2. /\ sum \in [0..N -> Int] /\ sum[0] = 0
      /\ \A i \in 1..N : sum[i] = 10 * sum[i - 1] + DecValue(s[i])
    BY DecSumsAre
<1>3. DecSum(s) = sum[N]
    BY DEF DecSum
<1> DEFINE Exact(i) == sum[i] \in Nat /\ v[i] = InType(type, sign * sum[i])
           T == {i \in Nat : i <= N => Exact(i)}
<1> HIDE DEF sum
<1>4. Exact(0)
  <2>1. sign * 0 = 0 /\ 0 \in type.min..type.max
      BY DEF DecType
  <2> QED
      BY <1>1, <1>2, <2>1 DEF InType
<1>5. ASSUME NEW i \in Nat, i + 1 <= N, Exact(i) PROVE Exact(i + 1)
  <2>1. i + 1 \in 1..N /\ (i + 1) - 1 = i
      BY <1>5
  <2> DEFINE n == sum[i]
             b == s[i + 1]
             next == sum[i + 1]
             x == sign * n
             y == sign * next
  <2>2. next = 10 * n + DecValue(b)
      BY <1>2, <2>1
  <2>3. v[i + 1] = AtoiDigit(type, sign, v[i], b)
      BY <1>1, <2>1
  <2>4. n \in Nat /\ v[i] = InType(type, sign * n) /\ IsDecDigit(b)
      BY <1>5, <2>1
  <2>5. v[i] = InType(type, x) /\ NextDigit(sign, n, b, next, x, y)
      BY <2>2, <2>4 DEF NextDigit
  <2> HIDE DEF n, b, x, y, next
  <2>6. next \in Nat /\ AtoiDigit(type, sign, InType(type, x), b) = InType(type, y)
      BY <2>5, AtoiExact
  <2> QED
      BY <2>3, <2>5, <2>6 DEF next, y
<1> HIDE DEF Exact
<1>6. \A i \in Nat : i \in T
  <2>1. 0 \in T
      BY <1>4
  <2>2. ASSUME NEW i \in Nat, i \in T PROVE i + 1 \in T
      BY <1>5, <2>2
  <2> HIDE DEF T
  <2> QED
      BY <2>1, <2>2, SetInduction
<1>7. Exact(N)
    BY <1>6
<1> QED
    BY <1>1, <1>3, <1>7 DEF Exact

(* decode_dec reads exactly the texts of digits, with a sign or without,   *)
(* whose number is in the range of the type, and gives the number.         *)
LEMMA DecDecoded ==
    ASSUME NEW type, DecType(type), NEW Byte, NEW s \in Seq(Byte)
    PROVE  DecExact(type, s)
<1> SUFFICES ASSUME s # <<"-">> PROVE DecExact(type, s)
    BY DEF DecExact
<1>1. Len(s) \in Nat /\ DOMAIN s = 1..Len(s)
    OBVIOUS
<1>2. CASE s = <<>>
    BY <1>2 DEF DecExact, DecodeDec, IsDecimal
<1>3. CASE s # <<>> /\ s[1] # "-"
  <2>1. IsDecimal(s) <=> \A i \in DOMAIN s : IsDecDigit(s[i])
      BY <1>3 DEF IsDecimal
  <2>2. Atoi(s, type) = Accumulated(type, 1, s)
      BY <1>3 DEF Atoi
  <2>3. ASSUME IsDecimal(s)
        PROVE  DecSum(s) \in Nat /\ Accumulated(type, 1, s) = InType(type, 1 * DecSum(s))
    <3>1. \A i \in 1..Len(s) : IsDecDigit(s[i])
        BY <1>1, <2>1, <2>3
    <3> DEFINE one == 1
    <3>2. one \in {-1, 1}
        OBVIOUS
    <3> HIDE DEF one
    <3>3. DecSum(s) \in Nat /\ Accumulated(type, one, s) = InType(type, one * DecSum(s))
        BY <1>1, <3>1, <3>2, AccumulatedExact
    <3> QED
        BY <3>3 DEF one
  <2>4. IsDecimal(s) => DecodeDec(s, type) = InType(type, DecSum(s))
      BY <2>2, <2>3 DEF DecodeDec
  <2> QED
      BY <1>3, <2>1, <2>4 DEF DecExact, DecodeDec, InType
<1>4. CASE s # <<>> /\ s[1] = "-"
  <2> DEFINE t == Tail(s)
  <2>1. /\ t \in Seq(Byte) /\ Len(t) = Len(s) - 1
        /\ \A i \in 1..Len(t) : t[i] = s[i + 1]
      BY <1>4
  <2>2. t # <<>>
    <3>1. Len(s) # 1
      <4>1. Len(s) = 1 => s = <<s[1]>>
          OBVIOUS
      <4> QED
          BY <1>4, <4>1
    <3>2. Len(s) \in Nat \ {0}
        BY <1>4
    <3> HIDE DEF t
    <3>3. Len(t) # 0
        BY <2>1, <3>1, <3>2
    <3> QED
        BY <3>3
  <2> HIDE DEF t
  <2>3. DOMAIN t = 1..Len(t) /\ Len(t) \in Nat
      BY <2>1
  <2>4. IsDecimal(s) <=> \A i \in DOMAIN t : IsDecDigit(t[i])
    <3>1. ASSUME \A i \in DOMAIN t : IsDecDigit(t[i]), NEW i \in DOMAIN s
          PROVE  (i = 1 /\ s[i] = "-") \/ IsDecDigit(s[i])
      <4>1. CASE i = 1
          BY <1>4, <4>1
      <4>2. CASE i # 1
        <5>1. i - 1 \in DOMAIN t /\ (i - 1) + 1 = i
            BY <1>1, <2>1, <2>3, <4>2
        <5> QED
            BY <2>1, <2>3, <3>1, <5>1
      <4> QED
          BY <4>1, <4>2
    <3>2. ASSUME IsDecimal(s), NEW i \in DOMAIN t PROVE IsDecDigit(t[i])
      <4>1. i + 1 \in DOMAIN s /\ i + 1 # 1 /\ t[i] = s[i + 1]
          BY <1>1, <2>1, <2>3
      <4> QED
          BY <3>2, <4>1 DEF IsDecimal
    <3> QED
        BY <1>4, <3>1, <3>2 DEF IsDecimal
  <2>5. Atoi(s, type) = Accumulated(type, -1, t)
      BY <1>4 DEF Atoi, t
  <2>6. ASSUME IsDecimal(s)
        PROVE  DecSum(t) \in Nat /\ Accumulated(type, -1, t) = InType(type, -1 * DecSum(t))
    <3>1. \A i \in 1..Len(t) : IsDecDigit(t[i])
        BY <2>3, <2>4, <2>6
    <3> DEFINE minus == -1
    <3>2. minus \in {-1, 1}
        OBVIOUS
    <3> HIDE DEF minus
    <3>3. DecSum(t) \in Nat /\ Accumulated(type, minus, t) = InType(type, minus * DecSum(t))
        BY <2>3, <3>1, <3>2, AccumulatedExact
    <3> QED
        BY <3>3 DEF minus
  <2>7. IsDecimal(s) => DecodeDec(s, type) = InType(type, -DecSum(t))
    <3>1. IsDecimal(s) => -1 * DecSum(t) = -DecSum(t)
        BY <2>6
    <3> QED
        BY <2>5, <2>6, <3>1 DEF DecodeDec
  <2> QED
      BY <1>4, <2>2, <2>4, <2>7 DEF DecExact, DecodeDec, InType, t
<1> QED
    BY <1>2, <1>3, <1>4

(* What the decimal encoder writes.                                        *)
DecBytes == {DecDigits[i] : i \in 1..10}
DecTextOf(n, shorter) ==
    IF n < 10 THEN <<DecDigits[n + 1]>>
    ELSE Append(shorter, DecDigits[(n % 10) + 1])

LEMMA DecTextType ==
    ASSUME NEW n \in Nat, NEW x \in Seq(DecBytes)
    PROVE  DecTextOf(n, x) \in Seq(DecBytes)
<1>1. CASE n < 10
  <2>1. n + 1 \in 1..10
      BY <1>1
  <2>2. DecDigits[n + 1] \in DecBytes
      BY <2>1 DEF DecBytes
  <2> QED
      BY <1>1, <2>2 DEF DecTextOf
<1>2. CASE ~(n < 10)
  <2>1. (n % 10) + 1 \in 1..10
      OBVIOUS
  <2>2. DecDigits[(n % 10) + 1] \in DecBytes
      BY <2>1 DEF DecBytes
  <2> QED
      BY <1>2, <2>2 DEF DecTextOf
<1> QED
    BY <1>1, <1>2

LEMMA DecTextIs ==
    /\ DecText \in [Nat -> Seq(DecBytes)]
    /\ \A n \in Nat : DecText[n] = DecTextOf(n, DecText[n \div 10])
<1> DEFINE S == Seq(DecBytes)
           p == [n \in Nat \ {0} |-> n \div 10]
           h == [n \in Nat \ {0} |-> [x \in S |-> DecTextOf(n, x)]]
           zero == <<DecDigits[0 + 1]>>
           D(g) == g = [n \in Nat |-> IF n < 10 THEN <<DecDigits[n + 1]>>
                            ELSE Append(g[n \div 10], DecDigits[(n % 10) + 1])]
<1>1. \A n \in Nat \ {0} : p[n] \in Nat /\ p[n] < n /\ p[n] = n \div 10
    OBVIOUS
<1>2. \A n \in Nat \ {0} : \A x \in S : h[n][x] \in S /\ h[n][x] = DecTextOf(n, x)
    BY DecTextType
<1>3. zero \in S
    BY DEF DecBytes
<1>4. \A x : DecTextOf(0, x) = zero
    BY DEF DecTextOf
<1> HIDE DEF S, p, h, zero
<1>5. PICK f : Recursive(f, zero, h, p, S)
    BY <1>1, <1>2, <1>3, RecursionExists
<1>6. ASSUME NEW n \in Nat PROVE f[n] = DecTextOf(n, f[n \div 10])
  <2>1. CASE n = 0
      BY <1>4, <1>5, <2>1 DEF Recursive
  <2>2. CASE n # 0
    <3>1. p[n] \in Nat /\ f[p[n]] \in S
        BY <1>1, <1>5, <2>2 DEF Recursive
    <3> QED
        BY <1>1, <1>2, <1>5, <2>2, <3>1 DEF Recursive
  <2> QED
      BY <2>1, <2>2
<1>7. D(f)
    BY <1>5, <1>6 DEF Recursive, DecTextOf
<1>8. D(CHOOSE g : D(g))
    BY <1>7, Zenon
<1>9. D(DecText)
    BY <1>8 DEF DecText
<1> DEFINE v == DecText
<1> HIDE DEF v
<1>10. f = v
  <2> DEFINE T == {n \in Nat : f[n] # v[n]}
  <2>1. \A n \in Nat : v[n] = DecTextOf(n, v[n \div 10])
      BY <1>9 DEF v, DecTextOf
  <2>2. T = {}
    <3> SUFFICES ASSUME T # {} PROVE FALSE
        OBVIOUS
    <3>1. PICK n \in T : \A k \in T : n <= k
        BY LeastNatural
    <3>2. CASE n < 10
      <4>1. \A x, y : DecTextOf(n, x) = DecTextOf(n, y)
          BY <3>2 DEF DecTextOf
      <4>2. f[n] = DecTextOf(n, f[n \div 10]) /\ v[n] = DecTextOf(n, v[n \div 10])
          BY <1>6, <2>1
      <4>3. DecTextOf(n, f[n \div 10]) = DecTextOf(n, v[n \div 10])
          BY <4>1
      <4> QED
          BY <4>2, <4>3
    <3>3. CASE ~(n < 10)
      <4>1. n \div 10 \in Nat /\ n \div 10 < n
          BY <3>3
      <4>2. f[n \div 10] = v[n \div 10]
          BY <3>1, <4>1
      <4>3. f[n] = DecTextOf(n, f[n \div 10])
          BY <1>6
      <4>4. v[n] = DecTextOf(n, v[n \div 10])
          BY <2>1
      <4> QED
          BY <4>2, <4>3, <4>4
    <3> QED
        BY <3>2, <3>3
  <2>3. f = [n \in Nat |-> f[n]] /\ v = [n \in Nat |-> v[n]]
      BY <1>5, <1>9 DEF v, Recursive
  <2> QED
      BY <2>2, <2>3
<1>11. f = DecText
    BY <1>10 DEF v
<1> HIDE <1>9
<1> QED
    BY <1>5, <1>6, <1>11 DEF Recursive, S

LEMMA DecSumAppend ==
    ASSUME NEW B, NEW s \in Seq(B), NEW b \in B
    PROVE  DecSum(Append(s, b)) = 10 * DecSum(s) + DecValue(b)
<1> DEFINE N == Len(s)
           t == Append(s, b)
           f == DecSums(s)
           g == DecSums(t)
<1>1. N \in Nat /\ Len(t) = N + 1 /\ t[N + 1] = b /\ \A i \in 1..N : t[i] = s[i]
    OBVIOUS
<1> HIDE DEF t, N
<1>2. /\ f \in [0..N -> Int] /\ f[0] = 0
      /\ \A i \in 1..N : f[i] = 10 * f[i - 1] + DecValue(s[i])
    BY <1>1, DecSumsAre DEF N
<1>3. /\ g[0] = 0
      /\ \A i \in 1..N + 1 : g[i] = 10 * g[i - 1] + DecValue(t[i])
  <2>1. Len(t) \in Nat
      BY <1>1
  <2> QED
      BY <1>1, <2>1, DecSumsAre
<1> HIDE DEF f, g
<1>4. ASSUME NEW i \in 1..N, f[i - 1] = g[i - 1] PROVE f[i] = g[i]
  <2>1. i \in 1..N + 1 /\ t[i] = s[i]
      BY <1>1
  <2> QED
      BY <1>2, <1>3, <1>4, <2>1
<1>5. \A i \in 0..N : f[i] = g[i]
  <2>1. SameSteps(f, g, N) /\ N \in Nat
      BY <1>1, <1>2, <1>3, <1>4 DEF SameSteps
  <2>2. SameValues(f, g, N)
      BY <2>1, RunUnique
  <2> QED
      BY <2>2 DEF SameValues
<1>6. N \in 0..N /\ N + 1 \in 1..N + 1 /\ (N + 1) - 1 = N
    BY <1>1
<1>7. g[N + 1] = 10 * f[N] + DecValue(b)
    BY <1>1, <1>3, <1>5, <1>6
<1>8. DecSum(s) = f[N] /\ DecSum(t) = g[N + 1]
    BY <1>1 DEF DecSum, f, g, N
<1> QED
    BY <1>7, <1>8 DEF t

(* The encoder writes a number in its digits, the first of which is not 0  *)
(* unless it is the only one.                                              *)
LEMMA DecTextExact ==
    ASSUME NEW n \in Nat
    PROVE  /\ DecText[n] \in Seq(DecBytes) /\ DecText[n] # <<>>
           /\ DecSum(DecText[n]) = n
           /\ Len(DecText[n]) > 1 => DecText[n][1] # DecDigits[1]
<1> DEFINE s(k) == DecText[k]
           Good(k) == /\ s(k) \in Seq(DecBytes) /\ Len(s(k)) > 0
                      /\ DecSum(s(k)) = k
                      /\ s(k)[1] = DecDigits[1] => k = 0 /\ Len(s(k)) = 1
           T == {k \in Nat : ~Good(k)}
<1>1. ASSUME NEW k \in Nat, k < 10 PROVE Good(k)
  <2>1. s(k) = <<DecDigits[k + 1]>>
      BY <1>1, DecTextIs DEF DecTextOf
  <2>2. k + 1 \in 1..10 /\ k \in 0..9
      BY <1>1
  <2> DEFINE b == DecDigits[k + 1]
             e == <<>>
  <2>3. b \in DecBytes /\ DecValue(b) = k
      BY <2>2, DecDigitOf DEF DecBytes
  <2>4. s(k) = Append(e, b) /\ e \in Seq(DecBytes) /\ DecSum(e) = 0
    <3>1. Len(e) = 0 /\ 0 \in Nat
        OBVIOUS
    <3>2. DecSums(e)[0] = 0
        BY <3>1, DecSumsAre
    <3> QED
        BY <2>1, <3>1, <3>2 DEF DecSum
  <2>5. b = DecDigits[1] => k = 0
    <3>1. 1 \in 1..10
        OBVIOUS
    <3> QED
        BY <2>2, <3>1, DecTable
  <2>6. Len(s(k)) = 1 /\ s(k)[1] = b /\ s(k) \in Seq(DecBytes)
      BY <2>1, <2>3
  <2> HIDE DEF b, e, s
  <2>7. DecSum(s(k)) = 10 * 0 + k
      BY <2>3, <2>4, DecSumAppend
  <2> QED
      BY <2>5, <2>6, <2>7
<1>2. ASSUME NEW k \in Nat, ~(k < 10), Good(k \div 10) PROVE Good(k)
  <2> DEFINE q == k \div 10
             r == k % 10
             b == DecDigits[r + 1]
  <2>1. q \in Nat /\ q # 0 /\ r \in 0..9 /\ r + 1 \in 1..10 /\ 10 * q + r = k
      BY <1>2
  <2>2. s(k) = Append(s(q), b)
      BY <1>2, DecTextIs DEF DecTextOf
  <2>3. b \in DecBytes /\ DecValue(b) = r
      BY <2>1, DecDigitOf DEF DecBytes
  <2>4. s(q) \in Seq(DecBytes) /\ Len(s(q)) > 0 /\ DecSum(s(q)) = q
        /\ s(q)[1] # DecDigits[1]
      BY <1>2, <2>1
  <2> HIDE DEF b, q, r, s
  <2>5. DecSum(Append(s(q), b)) = 10 * DecSum(s(q)) + DecValue(b)
      BY <2>3, <2>4, DecSumAppend
  <2>6. s(k) \in Seq(DecBytes) /\ Len(s(k)) > 0 /\ s(k)[1] = s(q)[1]
      BY <2>2, <2>3, <2>4
  <2> QED
      BY <2>1, <2>2, <2>3, <2>4, <2>5, <2>6
<1> HIDE DEF Good
<1>3. T = {}
  <2> SUFFICES ASSUME T # {} PROVE FALSE
      OBVIOUS
  <2>1. PICK k \in T : \A j \in T : k <= j
      BY LeastNatural
  <2>2. ~(k < 10)
      BY <1>1, <2>1
  <2>3. k \div 10 \in Nat /\ k \div 10 < k
      BY <2>2
  <2>4. Good(k \div 10)
      BY <2>1, <2>3
  <2> QED
      BY <1>2, <2>1, <2>2, <2>4
<1>4. Good(n)
    BY <1>3
<1> DEFINE t == DecText[n]
<1>5. /\ t \in Seq(DecBytes) /\ Len(t) > 0 /\ DecSum(t) = n
      /\ t[1] = DecDigits[1] => n = 0 /\ Len(t) = 1
    BY <1>4 DEF Good
<1> HIDE DEF t
<1>6. t # <<>>
    BY <1>5
<1>7. Len(t) > 1 => t[1] # DecDigits[1]
  <2> DEFINE zero == DecDigits[1]
             l == Len(t)
  <2>1. l \in Nat /\ (t[1] = zero => l = 1)
      BY <1>5
  <2> HIDE DEF zero, l
  <2>2. l > 1 => t[1] # zero
      BY <2>1
  <2> QED
      BY <2>2 DEF zero, l
<1> QED
    BY <1>5, <1>6, <1>7 DEF t

(* What the encoder writes, also of a negative number, is read back by     *)
(* every type that has the number.                                         *)
THEOREM DecRoundTrip ==
    ASSUME NEW type, DecType(type), NEW n \in Int, n \in type.min..type.max
    PROVE  DecodeDec(EncodeDec(n), type) = Some(n)
<1> DEFINE m == IF n < 0 THEN -n ELSE n
           t == DecText[m]
           s == EncodeDec(n)
           Byte == DecBytes \union {"-"}
<1>1. m \in Nat
    OBVIOUS
<1>2. t \in Seq(DecBytes) /\ t # <<>> /\ DecSum(t) = m
    BY <1>1, DecTextExact
<1>3. \A i \in 1..Len(t) : t[i] \in DecBytes /\ IsDecDigit(t[i])
  <2>1. ASSUME NEW i \in 1..Len(t) PROVE t[i] \in DecBytes
      BY <1>2
  <2>2. ASSUME NEW b \in DecBytes PROVE IsDecDigit(b)
      BY DecTable DEF DecBytes, IsDecDigit, Contains
  <2> QED
      BY <2>1, <2>2
<1>4. ~("-" \in DecBytes)
    BY DEF DecBytes, DecDigits
<1> HIDE DEF t, Byte
<1>5. t \in Seq(Byte) /\ "-" \in Byte
    BY <1>2 DEF Byte
<1>6. CASE n < 0
  <2>1. s = <<"-">> \o t /\ m = -n
      BY <1>6 DEF EncodeDec, t
  <2> HIDE DEF s, m
  <2> DEFINE minus == "-"
  <2> HIDE DEF minus
  <2>6. Len(t) \in Nat /\ Len(t) > 0 /\ minus \in Byte /\ s = <<minus>> \o t
      BY <1>2, <1>5, <2>1 DEF minus
  <2>7. /\ s \in Seq(Byte) /\ Len(s) = Len(t) + 1 /\ s[1] = minus
        /\ \A i \in 1..Len(t) : s[i + 1] = t[i]
      BY <1>5, <2>6
  <2>8. Tail(s) = t
    <3>1. Tail(s) \in Seq(Byte) /\ Len(Tail(s)) = Len(t)
        BY <2>6, <2>7
    <3>2. \A i \in 1..Len(t) : Tail(s)[i] = t[i]
        BY <2>6, <2>7
    <3> QED
        BY <1>5, <3>1, <3>2, SeqEqual
  <2>9. Len(s) # 1 /\ Len(s) # 0
      BY <2>6, <2>7
  <2>10. s # <<>> /\ s # <<"-">>
      BY <2>9
  <2>2. s \in Seq(Byte) /\ s # <<>> /\ s[1] = "-" /\ Tail(s) = t /\ s # <<"-">>
      BY <2>7, <2>8, <2>10 DEF minus
  <2>3. DecExact(type, s)
      BY <2>2, DecDecoded
  <2>4. -m = n
      BY <1>1, <1>6, <2>1
  <2>5. DOMAIN t = 1..Len(t)
      BY <1>2
  <2> QED
      BY <1>2, <1>3, <2>2, <2>3, <2>4, <2>5 DEF DecExact, s
<1>7. CASE ~(n < 0)
  <2>1. s = t /\ m = n
      BY <1>7 DEF EncodeDec, t
  <2> HIDE DEF s, m
  <2>2. 1 \in 1..Len(t) /\ DOMAIN t = 1..Len(t)
      BY <1>2
  <2>3. s \in Seq(Byte) /\ s # <<>> /\ s[1] # "-"
      BY <1>2, <1>3, <1>4, <1>5, <2>1, <2>2
  <2>4. s # <<"-">>
      BY <2>3
  <2>5. DecExact(type, s)
      BY <2>3, DecDecoded
  <2> QED
      BY <1>2, <1>3, <2>1, <2>2, <2>3, <2>4, <2>5 DEF DecExact, s
<1> QED
    BY <1>6, <1>7
-----------------------------------------------------------------------------
(***************************************************************************)
(* What the hexadecimal encoder writes, for a buffer of any length with    *)
(* anything in it.                                                         *)
(***************************************************************************)
HexBytes == {LowerHexDigits[i] : i \in 1..16}
HexStates(Byte, N) == [buffer : [1..N -> Byte], idx : Int, n : Nat]

LEMMA PopHexDigitType ==
    ASSUME NEW Byte, HexBytes \subseteq Byte, NEW N \in Nat,
           NEW s \in HexStates(Byte, N)
    PROVE  PopHexDigit(s) \in HexStates(Byte, N)
<1> DEFINE b == LowerHexDigits[(s.n % 16) + 1]
           q == s.n \div 16
<1>1. s.n \in Nat /\ s.idx \in Int /\ s.buffer \in [1..N -> Byte]
    BY DEF HexStates
<1>2. q \in Nat /\ (s.n % 16) + 1 \in 1..16
  <2> DEFINE m == s.n
  <2>1. m \in Nat
      BY <1>1
  <2> HIDE DEF m
  <2>2. m \div 16 \in Nat /\ (m % 16) + 1 \in 1..16
      BY <2>1
  <2> QED
      BY <2>2 DEF m
<1>3. b \in Byte
    BY <1>2 DEF HexBytes
<1> HIDE DEF b, q
<1>4. [s.buffer EXCEPT ![s.idx] = b] \in [1..N -> Byte]
    BY <1>1, <1>3
<1>5. CASE s.n = 0
    BY <1>5 DEF PopHexDigit
<1>6. CASE s.n # 0
  <2>1. PopHexDigit(s) = [buffer |-> [s.buffer EXCEPT ![s.idx] = b],
                          idx |-> s.idx - 1, n |-> q]
      BY <1>6 DEF PopHexDigit, b, q
  <2> DEFINE c == [s.buffer EXCEPT ![s.idx] = b]
             j == s.idx - 1
  <2>2. c \in [1..N -> Byte] /\ j \in Int /\ q \in Nat
      BY <1>1, <1>2, <1>4
  <2> HIDE DEF c, j
  <2>3. [buffer |-> c, idx |-> j, n |-> q] \in HexStates(Byte, N)
      BY <2>2 DEF HexStates
  <2> QED
      BY <2>1, <2>3 DEF c, j
<1> QED
    BY <1>5, <1>6

LEMMA HexStoreRun ==
    ASSUME NEW Byte, HexBytes \subseteq Byte, NEW buffer \in Seq(Byte), NEW n \in Nat
    PROVE  \E v : /\ v \in [0..Len(buffer) -> HexStates(Byte, Len(buffer))]
                  /\ v[0] = [buffer |-> buffer, idx |-> Len(buffer), n |-> n]
                  /\ \A i \in 1..Len(buffer) : v[i] = PopHexDigit(v[i - 1])
                  /\ HexStore(buffer, n) = v[Len(buffer)]
<1> DEFINE N == Len(buffer)
           S == HexStates(Byte, N)
           h == [i \in 1..N |-> [x \in S |-> PopHexDigit(x)]]
           start == [buffer |-> buffer, idx |-> N, n |-> n]
           D(g) == g = [i \in 0..N |-> IF i = 0 THEN start
                            ELSE PopHexDigit(g[i - 1])]
<1>1. \A i \in 1..N : \A x \in S : h[i][x] = PopHexDigit(x)
    OBVIOUS
<1>2. N \in Nat /\ buffer \in [1..N -> Byte]
    OBVIOUS
<1>3. start \in S
    BY <1>2 DEF HexStates
<1>4. StepsIn(h, N, S)
  <2> HIDE DEF h
  <2> QED
      BY <1>1, <1>2, PopHexDigitType DEF StepsIn
<1> HIDE DEF h, S, start
<1>5. PICK f : Computes(f, start, h, N, S)
  <2> HIDE DEF N
  <2> QED
      BY <1>2, <1>3, <1>4, RunExists
<1>6. ASSUME NEW i \in 1..N PROVE f[i] = PopHexDigit(f[i - 1])
  <2>1. i - 1 \in 0..N /\ f[i - 1] \in S
      BY <1>5 DEF Computes
  <2> QED
      BY <1>1, <1>5, <2>1 DEF Computes
<1>7. D(f)
    BY <1>5, <1>6 DEF Computes
<1> DEFINE v == CHOOSE g : D(g)
<1>8. D(v)
    BY <1>7, Zenon
<1>9. HexStore(buffer, n) = v[N]
    BY DEF HexStore, start
<1> HIDE DEF v
<1>10. f = v
  <2>1. f[0] = v[0]
      BY <1>5, <1>8 DEF Computes
  <2>2. ASSUME NEW i \in 1..N, f[i - 1] = v[i - 1] PROVE f[i] = v[i]
      BY <1>6, <1>8, <2>2
  <2>3. SameValues(f, v, N)
    <3>1. SameSteps(f, v, N) /\ N \in Nat
        BY <1>2, <2>1, <2>2 DEF SameSteps
    <3> HIDE DEF N
    <3> QED
        BY <3>1, RunUnique
  <2>4. f = [i \in 0..N |-> f[i]] /\ v = [i \in 0..N |-> v[i]]
      BY <1>5, <1>8 DEF Computes
  <2> QED
      BY <2>3, <2>4 DEF SameValues
<1> QED
    BY <1>5, <1>6, <1>9, <1>10 DEF Computes, S, start

(* The number and what is left of it after every digit.                    *)
Quotients(q, n, N) ==
    /\ q \in [0..N -> Nat]
    /\ q[0] = n
    /\ \A i \in 1..N : q[i] = q[i - 1] \div 16

LEMMA QuotientsExist ==
    ASSUME NEW n \in Nat, NEW N \in Nat
    PROVE  \E q : Quotients(q, n, N)
<1> DEFINE h == [i \in 1..N |-> [x \in Nat |-> x \div 16]]
           S == Nat
<1>1. \A i \in 1..N : \A x \in Nat : h[i][x] = x \div 16 /\ h[i][x] \in Nat
    OBVIOUS
<1>2. StepsIn(h, N, S) /\ n \in S
    BY <1>1 DEF StepsIn
<1> HIDE DEF h, S
<1>3. PICK f : Computes(f, n, h, N, S)
    BY <1>2, RunExists
<1>4. ASSUME NEW i \in 1..N PROVE f[i] = f[i - 1] \div 16
  <2>1. i - 1 \in 0..N /\ f[i - 1] \in Nat
      BY <1>3 DEF Computes, S
  <2> QED
      BY <1>1, <1>3, <2>1 DEF Computes
<1>5. Quotients(f, n, N)
    BY <1>3, <1>4 DEF Computes, Quotients, S
<1> QED
    BY <1>5

(* A number that has at most N digits is used up after N of them.          *)
LEMMA QuotientsEnd ==
    ASSUME NEW N \in Nat, NEW n \in Nat, n < HexValues[N], NEW q, Quotients(q, n, N)
    PROVE  q[N] = 0
<1> DEFINE Below(i) == q[i] < HexValues[N - i]
           T == {i \in Nat : i <= N => Below(i)}
<1>1. 0 \in T
  <2>1. N - 0 = N
      OBVIOUS
  <2> QED
      BY <2>1 DEF Quotients
<1>2. ASSUME NEW i \in Nat, i \in T PROVE i + 1 \in T
  <2> SUFFICES ASSUME i + 1 <= N PROVE Below(i + 1)
      OBVIOUS
  <2> DEFINE H == HexValues[N - (i + 1)]
             x == q[i]
  <2>1. i + 1 \in 1..N /\ (i + 1) - 1 = i /\ i \in 0..N
      OBVIOUS
  <2>2. N - i \in Nat \ {0} /\ (N - i) - 1 = N - (i + 1) /\ N - (i + 1) \in Nat
      OBVIOUS
  <2>3. HexValues[N - i] = 16 * H /\ H \in Nat
      BY <2>2, HexValuesAre
  <2>4. x < HexValues[N - i] /\ x \in Nat
      BY <1>2, <2>1 DEF Quotients
  <2>5. q[i + 1] = x \div 16
      BY <2>1 DEF Quotients
  <2> HIDE DEF H, x
  <2>6. x \div 16 < H
      BY <2>3, <2>4
  <2> QED
      BY <2>5, <2>6 DEF H
<1> HIDE DEF T
<1>3. \A i \in Nat : i \in T
    BY <1>1, <1>2, SetInduction
<1>4. N \in T /\ N - N = 0 /\ q[N] \in Nat
    BY <1>3 DEF Quotients
<1> QED
    BY <1>4, HexValuesAre DEF T

(* The last m places of the buffer hold the digits, and nothing is left.   *)
DigitAt(x) == LowerHexDigits[(x % 16) + 1]
Holds(buffer, N, q, m) ==
    \A j \in 0..m - 1 : q[j] # 0 /\ buffer[N - j] = DigitAt(q[j])

LEMMA HexStored ==
    ASSUME NEW Byte, HexBytes \subseteq Byte, NEW buffer \in Seq(Byte), NEW n \in Nat,
           n < HexValues[Len(buffer)], NEW q, Quotients(q, n, Len(buffer))
    PROVE  \E m \in 0..Len(buffer) :
              /\ HexStore(buffer, n).idx = Len(buffer) - m
              /\ HexStore(buffer, n).buffer \in [1..Len(buffer) -> Byte]
              /\ q[m] = 0
              /\ Holds(HexStore(buffer, n).buffer, Len(buffer), q, m)
<1> DEFINE N == Len(buffer)
<1>1. PICK v : /\ v \in [0..N -> HexStates(Byte, N)]
               /\ v[0] = [buffer |-> buffer, idx |-> N, n |-> n]
               /\ \A i \in 1..N : v[i] = PopHexDigit(v[i - 1])
               /\ HexStore(buffer, n) = v[N]
    BY HexStoreRun
<1>2. N \in Nat
    OBVIOUS
<1> HIDE DEF N
<1>3. q[N] = 0
    BY <1>2, QuotientsEnd DEF N
<1>4. /\ q \in [0..N -> Nat] /\ q[0] = n
      /\ \A i \in 1..N : q[i] = q[i - 1] \div 16
    BY DEF Quotients, N
<1> DEFINE M(i) == N - v[i].idx
           Stored(i) == /\ M(i) \in 0..i
                        /\ v[i].n = q[M(i)]
                        /\ v[i].n # 0 => M(i) = i
                        /\ Holds(v[i].buffer, N, q, M(i))
           T == {i \in Nat : i <= N => Stored(i)}
<1>5. \A i \in 0..N : /\ v[i].buffer \in [1..N -> Byte]
                      /\ v[i].idx \in Int /\ v[i].n \in Nat
    BY <1>1 DEF HexStates
<1>6. Stored(0)
  <2>1. v[0].idx = N /\ v[0].n = n
      BY <1>1
  <2>2. M(0) = 0
      BY <1>2, <2>1
  <2> HIDE DEF M
  <2> QED
      BY <1>4, <2>1, <2>2 DEF Holds
<1>7. ASSUME NEW i \in Nat, i + 1 <= N, Stored(i) PROVE Stored(i + 1)
  <2>1. i + 1 \in 1..N /\ (i + 1) - 1 = i /\ i \in 0..N /\ i + 1 \in 0..N
      BY <1>2, <1>7
  <2> DEFINE s == v[i]
             r == v[i + 1]
  <2>2. r = PopHexDigit(s)
      BY <1>1, <2>1
  <2>3. CASE s.n = 0
    <3>1. r = s
        BY <2>2, <2>3 DEF PopHexDigit
    <3>2. M(i + 1) = M(i)
        BY <3>1
    <3> HIDE DEF M
    <3>3. M(i) \in 0..i + 1 /\ r.n = 0
        BY <1>7, <2>3, <3>1
    <3> QED
        BY <1>7, <3>1, <3>2, <3>3
  <2>4. CASE s.n # 0
    <3> DEFINE b == DigitAt(q[i])
               c == [s.buffer EXCEPT ![s.idx] = b]
    <3>1. M(i) = i /\ s.idx = N - i /\ s.n = q[i] /\ N - i \in 1..N
      <4>1. M(i) = i /\ s.n = q[i]
          BY <1>7, <2>4
      <4>2. s.idx \in Int
          BY <1>5, <2>1
      <4> DEFINE k == s.idx
      <4>3. N - k = i /\ k \in Int
          BY <4>1, <4>2
      <4> HIDE DEF k
      <4>4. k = N - i /\ N - i \in 1..N
          BY <1>2, <1>7, <4>3
      <4> QED
          BY <4>1, <4>4 DEF k
    <3>2. r = [buffer |-> c, idx |-> s.idx - 1, n |-> s.n \div 16]
        BY <2>2, <2>4, <3>1 DEF PopHexDigit, DigitAt
    <3>3. r.buffer = c /\ r.idx = (N - i) - 1 /\ r.n = q[i + 1]
        BY <1>4, <2>1, <3>1, <3>2
    <3>4. M(i + 1) = i + 1
        BY <1>2, <3>3
    <3>5. s.buffer \in [1..N -> Byte]
        BY <1>5, <2>1
    <3>6. c[N - i] = b /\ \A k \in 1..N : k # N - i => c[k] = s.buffer[k]
        BY <3>1, <3>5
    <3>7. q[i] # 0
        BY <2>4, <3>1
    <3> HIDE DEF c, b, M
    <3>8. ASSUME NEW j \in 0..(i + 1) - 1 PROVE q[j] # 0 /\ c[N - j] = DigitAt(q[j])
      <4>1. CASE j = i
          BY <3>6, <3>7, <4>1 DEF b
      <4>2. CASE j # i
        <5>1. j \in 0..i - 1 /\ N - j \in 1..N /\ N - j # N - i
            BY <1>2, <1>7, <4>2
        <5>2. q[j] # 0 /\ s.buffer[N - j] = DigitAt(q[j])
            BY <1>7, <3>1, <5>1 DEF Holds
        <5> QED
            BY <3>6, <5>1, <5>2
      <4> QED
          BY <4>1, <4>2
    <3>9. Holds(c, N, q, i + 1)
        BY <3>8 DEF Holds
    <3> QED
        BY <3>3, <3>4, <3>9
  <2> QED
      BY <2>3, <2>4
<1> HIDE DEF Stored
<1>8. \A i \in Nat : i \in T
  <2>1. 0 \in T
      BY <1>6
  <2>2. ASSUME NEW i \in Nat, i \in T PROVE i + 1 \in T
      BY <1>2, <1>7, <2>2
  <2> HIDE DEF T
  <2> QED
      BY <2>1, <2>2, SetInduction
<1>9. Stored(N)
    BY <1>2, <1>8
<1> DEFINE m == M(N)
<1>10. /\ m \in 0..N /\ q[m] = 0 /\ v[N].idx = N - m
       /\ v[N].buffer \in [1..N -> Byte] /\ Holds(v[N].buffer, N, q, m)
  <2>1. m \in 0..N /\ v[N].n = q[m] /\ (v[N].n # 0 => m = N)
      BY <1>9 DEF Stored
  <2>2. v[N].idx \in Int /\ v[N].buffer \in [1..N -> Byte]
      BY <1>2, <1>5
  <2>3. v[N].idx = N - m
      BY <1>2, <2>2
  <2>4. Holds(v[N].buffer, N, q, m)
      BY <1>9 DEF Stored
  <2> HIDE DEF M
  <2> QED
      BY <1>3, <2>1, <2>2, <2>3, <2>4
<1> HIDE DEF m, M
<1> QED
    BY <1>1, <1>10 DEF N

LEMMA DigitFacts ==
    ASSUME NEW x \in Nat
    PROVE  /\ DigitAt(x) \in HexBytes /\ IsHexDigit(DigitAt(x))
           /\ HexDigitValue(DigitAt(x)) = x % 16
           /\ DigitAt(x) = LowerHexDigits[1] => x % 16 = 0
<1> DEFINE d == x % 16
<1>1. d \in 0..15 /\ d + 1 \in 1..16
    OBVIOUS
<1> HIDE DEF d
<1>2. DigitAt(x) = LowerHexDigits[d + 1]
    BY DEF DigitAt, d
<1>3. LowerHexDigits[d + 1] \in HexBytes
    BY <1>1 DEF HexBytes
<1>4. LowerHexDigits[d + 1] = LowerHexDigits[1] => d + 1 = 1
    BY <1>1, HexTables
<1> QED
    BY <1>1, <1>2, <1>3, <1>4, HexDigitOf DEF d

(* The digits from the most significant one on add up to the number.       *)
Shows(t, q, m) == Len(t) = m /\ \A j \in 1..m : t[j] = DigitAt(q[m - j])

LEMMA HexSumOf ==
    ASSUME NEW N \in Nat, NEW n \in Nat, NEW q, Quotients(q, n, N), NEW m \in 0..N,
           q[m] = 0, NEW t, Shows(t, q, m)
    PROVE  HexSum(t) = n
<1> DEFINE sum == HexSums(t)
           Exact(j) == sum[j] = q[m - j]
           T == {j \in Nat : j <= m => Exact(j)}
<1>1. sum[0] = 0 /\ \A j \in 1..m : sum[j] = 16 * sum[j - 1] + HexDigitValue(t[j])
  <2>1. Len(t) \in Nat /\ Len(t) = m
      BY DEF Shows
  <2> QED
      BY <2>1, HexSumsAre
<1>2. HexSum(t) = sum[m]
    BY DEF HexSum, Shows
<1> HIDE DEF sum
<1>3. Exact(0)
  <2>1. m - 0 = m
      OBVIOUS
  <2> QED
      BY <1>1, <2>1
<1>4. ASSUME NEW j \in Nat, j + 1 <= m, Exact(j) PROVE Exact(j + 1)
  <2>1. j + 1 \in 1..m /\ (j + 1) - 1 = j
      BY <1>4
  <2> DEFINE k == m - (j + 1)
             x == q[k]
  <2>2. k \in 0..N /\ k + 1 \in 1..N /\ (k + 1) - 1 = k /\ m - j = k + 1
      BY <1>4
  <2>3. q[k + 1] = x \div 16 /\ x \in Nat
      BY <2>2 DEF Quotients
  <2>4. HexDigitValue(DigitAt(x)) = x % 16
      BY <2>3, DigitFacts
  <2>5. t[j + 1] = DigitAt(x)
      BY <2>1 DEF Shows
  <2>6. sum[j + 1] = 16 * sum[j] + HexDigitValue(t[j + 1])
      BY <1>1, <2>1
  <2>7. sum[j] = x \div 16
      BY <1>4, <2>2, <2>3
  <2> HIDE DEF x, k
  <2>8. 16 * (x \div 16) + (x % 16) = x
      BY <2>3
  <2> QED
      BY <2>4, <2>5, <2>6, <2>7, <2>8 DEF x, k
<1> HIDE DEF Exact
<1>5. \A j \in Nat : j \in T
  <2>1. 0 \in T
      BY <1>3
  <2>2. ASSUME NEW j \in Nat, j \in T PROVE j + 1 \in T
      BY <1>4, <2>2
  <2> HIDE DEF T
  <2> QED
      BY <2>1, <2>2, SetInduction
<1>6. Exact(m) /\ m - m = 0
    BY <1>5
<1> QED
    BY <1>2, <1>6 DEF Exact, Quotients

(* The text is the number in its digits, the first of which is not 0       *)
(* unless it is the only one, whatever the buffer held.                    *)
LEMMA HexTextExact ==
    ASSUME NEW Byte, HexBytes \subseteq Byte, NEW buffer \in Seq(Byte), NEW n \in Nat,
           Len(buffer) > 0, n < HexValues[Len(buffer)]
    PROVE  /\ HexEncode(buffer, n) \in Seq(Byte)
           /\ Len(HexEncode(buffer, n)) = Len(buffer)
           /\ HexText(buffer, n) \in Seq(HexBytes) /\ HexText(buffer, n) # <<>>
           /\ HexSum(HexText(buffer, n)) = n
           /\ Len(HexText(buffer, n)) > 1 => HexText(buffer, n)[1] # LowerHexDigits[1]
<1> DEFINE N == Len(buffer)
           s == HexStore(buffer, n)
           e == HexEncode(buffer, n)
           t == HexText(buffer, n)
           zero == LowerHexDigits[1]
<1>1. N \in Nat /\ N > 0
    OBVIOUS
<1>2. PICK q : Quotients(q, n, N)
    BY <1>1, QuotientsExist
<1>3. PICK m \in 0..N : /\ s.idx = N - m /\ s.buffer \in [1..N -> Byte]
                        /\ q[m] = 0 /\ Holds(s.buffer, N, q, m)
    BY <1>2, HexStored
<1>4. zero = "0" /\ zero \in HexBytes /\ IsHexDigit(zero) /\ HexDigitValue(zero) = 0
  <2>1. zero = "0"
      BY DEF LowerHexDigits
  <2>2. 0 \in 0..15 /\ 0 + 1 = 1 /\ 1 \in 1..16
      OBVIOUS
  <2> QED
      BY <2>1, <2>2, HexDigitOf DEF HexBytes
<1>5. e = IF s.idx = N THEN [s.buffer EXCEPT ![N] = zero] ELSE s.buffer
    BY <1>4 DEF HexEncode
<1>6. t = SubSeq(e, IF s.idx = N THEN N ELSE s.idx + 1, N)
    BY DEF HexText
<1> HIDE DEF N, s, e, t, zero
<1>7. e \in [1..N -> Byte]
    BY <1>1, <1>3, <1>4, <1>5
<1>8. e \in Seq(Byte) /\ Len(e) = N
    BY <1>1, <1>7
<1>9. CASE m = 0
  <2>1. s.idx = N
      BY <1>1, <1>3, <1>9
  <2>2. e[N] = zero /\ t = SubSeq(e, N, N)
      BY <1>1, <1>3, <1>5, <1>6, <2>1
  <2>3. t = <<zero>>
    <3>1. t \in Seq(Byte) /\ Len(t) = 1 /\ t[1] = zero
        BY <1>1, <1>8, <2>2
    <3> QED
        BY <3>1
  <2>4. n = 0
      BY <1>3, <1>9, <1>2 DEF Quotients
  <2>5. HexSum(t) = 0
    <3>1. Len(t) = 1 /\ t[1] = zero
        BY <2>3
    <3>2. HexSums(t)[0] = 0 /\ HexSums(t)[1] = 16 * HexSums(t)[1 - 1] + HexDigitValue(t[1])
        BY <3>1, HexSumsAre
    <3> QED
        BY <1>4, <3>1, <3>2 DEF HexSum
  <2>6. t \in Seq(HexBytes) /\ t # <<>> /\ Len(t) = 1
      BY <1>4, <2>3
  <2>7. ~(Len(t) > 1) /\ HexSum(t) = n
      BY <2>4, <2>5, <2>6
  <2> QED
      BY <1>8, <2>6, <2>7 DEF N, e, t
<1>10. CASE m # 0
  <2> DEFINE a == N - m + 1
  <2>1. s.idx # N /\ s.idx + 1 = a /\ a \in 1..N
      BY <1>1, <1>3, <1>10
  <2>2. e = s.buffer /\ t = SubSeq(e, a, N) /\ a \in 1..N
    <3> HIDE DEF a
    <3> QED
        BY <1>5, <1>6, <2>1
  <2>3. Len(t) = m /\ \A j \in 1..m : t[j] = e[N - (m - j)]
    <3>1. Len(t) = m /\ \A j \in 1..m : t[j] = e[a + j - 1]
        BY SMTT(20), <1>1, <1>8, <2>2
    <3>2. \A j \in 1..m : a + j - 1 = N - (m - j)
        BY <1>1
    <3> HIDE DEF a
    <3> QED
        BY <3>1, <3>2
  <2>4. ASSUME NEW j \in 1..m
        PROVE  t[j] = DigitAt(q[m - j]) /\ q[m - j] # 0 /\ q[m - j] \in Nat
    <3>1. m - j \in 0..m - 1 /\ m - j \in 0..N
        BY <1>1
    <3> DEFINE k == m - j
    <3> HIDE DEF k
    <3>2. q[k] # 0 /\ s.buffer[N - k] = DigitAt(q[k]) /\ q[k] \in Nat
        BY <1>2, <1>3, <3>1 DEF Holds, Quotients, k
    <3> QED
        BY <2>2, <2>3, <3>2 DEF k
  <2>5. HexSum(t) = n
    <3>1. Shows(t, q, m)
        BY <2>3, <2>4 DEF Shows
    <3> QED
        BY <1>1, <1>2, <1>3, <3>1, HexSumOf
  <2>6. t \in Seq(HexBytes)
    <3>1. \A j \in 1..m : t[j] \in HexBytes
        BY <2>4, DigitFacts
    <3>2. t \in Seq(Byte)
        BY <1>1, <1>8, <2>2
    <3>3. t \in [1..m -> HexBytes]
        BY <2>3, <3>1, <3>2
    <3> QED
        BY <1>1, <3>3
  <2>7. t[1] # zero
    <3>1. 1 \in 1..m /\ m - 1 \in 0..N /\ m \in 1..N
        BY <1>1, <1>10
    <3> DEFINE x == q[m - 1]
    <3>2. x # 0 /\ x \in Nat /\ t[1] = DigitAt(x)
        BY <2>4, <3>1
    <3>3. x \div 16 = 0
        BY <1>2, <1>3, <3>1 DEF Quotients
    <3> HIDE DEF x
    <3>4. x % 16 # 0
        BY <3>2, <3>3
    <3> QED
        BY <3>2, <3>4, DigitFacts DEF zero
  <2>8. t # <<>>
      BY <1>10, <2>3
  <2> QED
      BY <1>8, <2>5, <2>6, <2>7, <2>8 DEF N, e, t, zero
<1> QED
    BY <1>9, <1>10

(* HexEncoder writes, and decode_hex reads, every number of every type,    *)
(* into whatever the buffer of the encoder held before; the text has no    *)
(* leading zeros.                                                          *)
THEOREM HexRoundTrip ==
    ASSUME NEW Byte, HexBytes \subseteq Byte, NEW buffer \in Seq(Byte), NEW n \in Nat,
           Len(buffer) > 0, n < HexValues[Len(buffer)],
           NEW digits \in Nat \ {0}, n < HexValues[digits]
    PROVE  /\ DecodeHex(HexText(buffer, n), digits) = Some(n)
           /\ Len(HexText(buffer, n)) > 1 => HexText(buffer, n)[1] # LowerHexDigits[1]
<1> DEFINE t == HexText(buffer, n)
<1>1. t \in Seq(HexBytes) /\ t # <<>> /\ HexSum(t) = n
    BY HexTextExact
<1>2. Len(t) > 1 => t[1] # LowerHexDigits[1]
    BY HexTextExact
<1> HIDE DEF t
<1>3. HexExact(digits, t)
    BY <1>1, HexDecoded
<1>4. ASSUME NEW i \in DOMAIN t PROVE IsHexDigit(t[i])
  <2>1. t[i] \in HexBytes
      BY <1>1
  <2>2. PICK j \in 1..16 : t[i] = LowerHexDigits[j]
      BY <2>1 DEF HexBytes
  <2>3. j - 1 \in 0..15 /\ (j - 1) + 1 = j
      OBVIOUS
  <2> DEFINE d == j - 1
  <2>4. d \in 0..15 /\ d + 1 = j
      BY <2>3
  <2> HIDE DEF d
  <2> QED
      BY <2>2, <2>4, HexDigitOf
<1>5. DecodeHex(t, digits) = Some(n)
    BY <1>1, <1>3, <1>4 DEF HexExact
<1> QED
    BY <1>2, <1>5 DEF t

LEMMA TwoDigits == HexValues[1] = 16 /\ HexValues[2] = 256
<1>1. HexValues[0] = 1
    BY HexValuesAre
<1>2. 1 \in Nat \ {0} /\ 1 - 1 = 0 /\ 2 \in Nat \ {0} /\ 2 - 1 = 1
    OBVIOUS
<1>3. HexValues[1] = 16 * HexValues[0]
    BY <1>2, HexValuesAre
<1>4. HexValues[2] = 16 * HexValues[1]
    BY <1>2, HexValuesAre
<1> QED
    BY <1>1, <1>3, <1>4

LEMMA BothEncoded ==
    ASSUME NEW first \in 0..255, NEW second \in 0..255
    PROVE  Encoded(first, second)
<1> DEFINE used == HexEncode(NewHexBuffer, first)
           hex == HexText(used, second)
           two == 2
<1>1. first \in Nat /\ second \in Nat /\ first < HexValues[2] /\ second < HexValues[2]
    BY TwoDigits
<1>2. LowerHexDigits[1] = "0"
    BY DEF LowerHexDigits
<1>3. NewHexBuffer \in Seq(HexBytes) /\ Len(NewHexBuffer) = 2
  <2>1. "0" \in HexBytes
    <3>1. 1 \in 1..16
        OBVIOUS
    <3> QED
        BY <1>2, <3>1 DEF HexBytes
  <2> QED
      BY <2>1 DEF NewHexBuffer
<1> DEFINE Byte == HexBytes
           new == NewHexBuffer
<1>9. /\ HexBytes \subseteq Byte /\ new \in Seq(Byte) /\ Len(new) = 2
      /\ Len(new) > 0 /\ first < HexValues[Len(new)]
    BY <1>1, <1>3
<1> HIDE DEF Byte, new
<1>4. used \in Seq(Byte) /\ Len(used) = 2
  <2>1. HexEncode(new, first) \in Seq(Byte) /\ Len(HexEncode(new, first)) = Len(new)
      BY <1>1, <1>9, HexTextExact
  <2> QED
      BY <1>9, <2>1 DEF new
<1>5. two \in Nat \ {0} /\ second < HexValues[two]
    BY <1>1
<1> HIDE DEF used, two
<1>10. Len(used) > 0 /\ second < HexValues[Len(used)]
    BY <1>1, <1>4
<1>6. /\ DecodeHex(hex, two) = Some(second)
      /\ Len(hex) > 1 => hex[1] # LowerHexDigits[1]
    BY <1>1, <1>4, <1>5, <1>9, <1>10, HexRoundTrip
<1>7. Len(hex) > 1 => hex[1] # "0"
    BY <1>2, <1>6
<1>8. ASSUME NEW n \in {second, -second} \cap (I8.min..I8.max)
      PROVE  DecodeDec(EncodeDec(n), I8) = Some(n)
  <2>1. DecType(I8) /\ n \in Int
      BY DEF DecType, I8
  <2> QED
      BY <1>8, <2>1, DecRoundTrip
<1> QED
    BY <1>6, <1>7, <1>8 DEF Encoded, used, two

(* num.rs, for texts of any length, types of any width and range: a number *)
(* is read exactly when it is one and fits, with the value of its digits,  *)
(* and the encoders write what is read back.                               *)
THEOREM ExactNumbers ==
    ASSUME NEW Byte, text \in Seq(Byte),
           topic = "hex" => params \in Nat \ {0},
           topic = "dec" => DecType(params),
           topic = "encode" => params \in (0..255) \X (0..255)
    PROVE  NumbersExact
<1>1. ASSUME topic = "hex" PROVE HexExact(params, text)
    BY <1>1, HexDecoded
<1>2. ASSUME topic = "dec" PROVE DecExact(params, text)
    BY <1>2, DecDecoded
<1>3. ASSUME topic = "encode" PROVE Encoded(params[1], params[2])
  <2>1. params[1] \in 0..255 /\ params[2] \in 0..255
      BY <1>3
  <2> QED
      BY <2>1, BothEncoded
<1> QED
    BY <1>1, <1>2, <1>3 DEF NumbersExact
-----------------------------------------------------------------------------
(***************************************************************************)
(* Lines: the reference.                                                   *)
(***************************************************************************)
EndsAt(o, t, start, end) ==
    /\ end \in start..Len(t) + 1
    /\ \A i \in start..end - 1 : SeparatorAt(o, t, i) = 0
    /\ end <= Len(t) => SeparatorAt(o, t, end) # 0

LEMMA SeparatorType ==
    ASSUME NEW o, NEW t, NEW i
    PROVE  /\ SeparatorAt(o, t, i) \in 0..2
           /\ SeparatorAt(o, t, i) = 2 => i < Len(t)
    BY DEF SeparatorAt

LEMMA LineEnd ==
    ASSUME NEW o, NEW Byte, NEW t \in Seq(Byte), NEW start \in 1..Len(t) + 1
    PROVE  \E end : EndsAt(o, t, start, end) /\ LineAt(o, t, start) = Line(o, t, start, end)
<1> DEFINE E == Ends(o, t, start)
           P(i) == i \in E /\ \A j \in E : i <= j
           end == CHOOSE i \in E : \A j \in E : i <= j
<1>1. Len(t) \in Nat /\ Len(t) + 1 \in E /\ E \subseteq Nat
    BY DEF Ends
<1>2. \E i \in E : \A j \in E : i <= j
  <2>1. E # {}
      BY <1>1
  <2> HIDE DEF E
  <2> QED
      BY <1>1, <2>1, LeastNatural
<1>3. end \in E /\ \A j \in E : end <= j
  <2> HIDE DEF E
  <2> QED
      BY <1>2
<1>4. LineAt(o, t, start) = Line(o, t, start, end)
    BY DEF LineAt
<1> HIDE DEF end
<1>5. EndsAt(o, t, start, end)
  <2>1. end \in start..Len(t) + 1
      BY <1>1, <1>3 DEF Ends
  <2>2. ASSUME NEW i \in start..end - 1 PROVE SeparatorAt(o, t, i) = 0
    <3>1. ~(i \in E) /\ i \in start..Len(t)
        BY <1>1, <1>3, <2>1
    <3> QED
        BY <3>1, SeparatorType DEF Ends
  <2>3. end <= Len(t) => SeparatorAt(o, t, end) # 0
      BY <1>1, <1>3 DEF Ends
  <2> QED
      BY <2>1, <2>2, <2>3 DEF EndsAt
<1> QED
    BY <1>4, <1>5

(* Where the next line starts.                                             *)
Size(o, t, end) == IF end <= Len(t) THEN SeparatorAt(o, t, end) ELSE 0

FieldsOf(o, t, start, end, f, Byte) ==
    /\ f.line = SubSeq(t, start, end - 1) /\ f.line \in Seq(Byte)
    /\ f.ended = (end <= Len(t)) /\ f.size = Size(o, t, end)
    /\ start + Len(f.line) + f.size = end + Size(o, t, end)
    /\ end \in Nat /\ Size(o, t, end) \in 0..2
    /\ end + Size(o, t, end) <= Len(t) + 1
    /\ start <= Len(t) => start < end + Size(o, t, end)

LEMMA LineFields ==
    ASSUME NEW o, NEW Byte, NEW t \in Seq(Byte), NEW start \in 1..Len(t) + 1,
           NEW end, EndsAt(o, t, start, end), NEW f, f = Line(o, t, start, end)
    PROVE  FieldsOf(o, t, start, end, f, Byte)
<1>1. Len(t) \in Nat /\ start \in Nat /\ end \in Nat /\ end \in start..Len(t) + 1
    BY DEF EndsAt
<1>2. f.line = SubSeq(t, start, end - 1) /\ f.ended = (end <= Len(t))
      /\ f.size = Size(o, t, end)
    BY DEF Line, Size
<1>3. f.line \in Seq(Byte) /\ Len(f.line) = end - start
    BY <1>1, <1>2
<1> DEFINE z == Size(o, t, end)
<1>4. z \in 0..2 /\ (end <= Len(t) => z # 0) /\ (z = 2 => end < Len(t))
      /\ (~(end <= Len(t)) => z = 0)
    BY SeparatorType DEF Size, EndsAt
<1> HIDE DEF z
<1>5. start + Len(f.line) + z = end + z /\ end + z <= Len(t) + 1
      /\ (start <= Len(t) => start < end + z)
    BY <1>1, <1>3, <1>4
<1> QED
    BY <1>1, <1>2, <1>3, <1>4, <1>5 DEF z, FieldsOf

(***************************************************************************)
(* Lines: the decoder.                                                     *)
(***************************************************************************)
Decoders(Byte) ==
    {d \in [buffer : Seq(Byte), drop_lf : BOOLEAN] : d.drop_lf => d.buffer # <<>>}
Texts(Byte) == Seq(Seq(Byte))
RunStates(Byte) == [decoder : Decoders(Byte), ok : BOOLEAN, lines : Texts(Byte)]

LEMMA TextsJoin ==
    ASSUME NEW Byte
    PROVE  /\ <<>> \in Texts(Byte)
           /\ \A a, b \in Texts(Byte) : a \o b \in Texts(Byte)
           /\ \A a \in Texts(Byte) : a \o <<>> = a /\ <<>> \o a = a
           /\ \A x \in Seq(Byte) : <<x>> \in Texts(Byte)
<1> DEFINE S == Seq(Byte)
<1> HIDE DEF S
<1>1. Closed(Seq(S))
    BY SeqClosed
<1>2. \A x \in S : <<x>> \in Seq(S)
    OBVIOUS
<1> QED
    BY <1>1, <1>2 DEF Closed, Texts, S

Associate(a, b, c) == (a \o b) \o c = a \o (b \o c)

LEMMA TextsAssociate ==
    ASSUME NEW Byte, NEW a \in Texts(Byte), NEW b \in Texts(Byte), NEW c \in Texts(Byte)
    PROVE  Associate(a, b, c)
<1> DEFINE S == Seq(Byte)
<1> HIDE DEF S
<1>1. a \in Seq(S) /\ b \in Seq(S) /\ c \in Seq(S)
    BY DEF Texts, S
<1> QED
    BY <1>1, ConcatAssociative DEF Associate

LEMMA NewDecoderType == ASSUME NEW Byte PROVE NewDecoder \in Decoders(Byte)
    BY DEF NewDecoder, Decoders

LEMMA DropLfType ==
    ASSUME NEW Byte, NEW d \in Decoders(Byte), d.drop_lf, NEW byte
    PROVE  LET turn == DropLf(d, byte)
           IN  /\ turn.decoder = NewDecoder /\ turn.ok = TRUE
               /\ turn.lines = << SubSeq(d.buffer, 1, Len(d.buffer) - 1) >>
               /\ turn.lines \in Texts(Byte)
               /\ turn.taken = IF byte = LF THEN 1 ELSE 0
<1> DEFINE line == SubSeq(d.buffer, 1, Len(d.buffer) - 1)
<1>1. line \in Seq(Byte)
    BY DEF Decoders
<1> HIDE DEF line
<1>2. <<line>> \in Texts(Byte)
    BY <1>1, TextsJoin
<1> QED
    BY <1>2 DEF DropLf, Turn, line

LEMMA SeparatorRange ==
    ASSUME NEW o, NEW b
    PROVE  /\ Separator(o, b) \in 0..2
           /\ Separator(o, b) = 2 => EndsWith(b, <<CR, LF>>)
    BY DEF Separator

LEMMA PushByteOutcome ==
    ASSUME NEW Byte, NEW o, NEW d \in Decoders(Byte), NEW byte \in Byte, ~d.drop_lf
    PROVE  LET turn == PushByte(o, d, byte)
           IN  /\ turn.decoder \in Decoders(Byte) /\ turn.ok = TRUE
               /\ turn.lines \in Texts(Byte) /\ turn.taken = 1
<1> DEFINE buffer == Append(d.buffer, byte)
           n == Separator(o, buffer)
           pending == n = 1 /\ byte = CR /\ o.crlf
           line == SubSeq(buffer, 1, Len(buffer) - n)
<1>1. buffer \in Seq(Byte) /\ buffer # <<>> /\ Len(buffer) \in Nat /\ Len(buffer) >= 1
    BY DEF Decoders
<1>2. n \in 0..2 /\ (n = 2 => Len(buffer) >= 2)
  <2> HIDE DEF buffer
  <2> QED
    BY SeparatorRange DEF EndsWith
<1> HIDE DEF buffer, n
<1>3. line \in Seq(Byte)
    BY <1>1, <1>2
<1> HIDE DEF line
<1>4. <<line>> \in Texts(Byte) /\ <<>> \in Texts(Byte)
    BY <1>3, TextsJoin
<1>5. PushByte(o, d, byte) =
        IF n = 0 \/ pending
        THEN Turn([buffer |-> buffer, drop_lf |-> pending], 1, <<>>, TRUE)
        ELSE Turn(NewDecoder, 1, <<line>>, TRUE)
    BY DEF PushByte, line, n, buffer
<1>6. pending \in BOOLEAN
    OBVIOUS
<1> HIDE DEF pending
<1>7. [buffer |-> buffer, drop_lf |-> pending] \in Decoders(Byte)
    BY <1>1, <1>6 DEF Decoders
<1> QED
    BY <1>4, <1>5, <1>7, NewDecoderType DEF Turn

LEMMA DecodeByteType ==
    ASSUME NEW Byte, NEW o, NEW d \in Decoders(Byte), NEW byte \in Byte
    PROVE  LET turn == DecodeByte(o, d, byte)
           IN  /\ turn.decoder \in Decoders(Byte) /\ turn.ok \in BOOLEAN
               /\ turn.lines \in Texts(Byte)
<1>1. CASE d.drop_lf
    BY <1>1, DropLfType, NewDecoderType DEF DecodeByte
<1>2. CASE ~d.drop_lf /\ Len(d.buffer) >= o.max_line_length
    BY <1>2, TextsJoin DEF DecodeByte, Turn
<1>3. CASE ~d.drop_lf /\ ~(Len(d.buffer) >= o.max_line_length)
    BY <1>3, PushByteOutcome DEF DecodeByte
<1> QED
    BY <1>1, <1>2, <1>3

LEMMA AfterType ==
    ASSUME NEW Byte, NEW run \in RunStates(Byte), NEW turn,
           turn.decoder \in Decoders(Byte), turn.ok \in BOOLEAN,
           turn.lines \in Texts(Byte)
    PROVE  /\ After(run, turn) \in RunStates(Byte)
           /\ After(run, turn).decoder = turn.decoder
           /\ After(run, turn).ok = turn.ok
           /\ After(run, turn).lines = run.lines \o turn.lines
<1>1. run.lines \o turn.lines \in Texts(Byte)
    BY TextsJoin DEF RunStates
<1> QED
    BY <1>1 DEF After, RunStates

LEMMA FeedType ==
    ASSUME NEW Byte, NEW o, NEW run \in RunStates(Byte), NEW byte \in Byte
    PROVE  Feed(o, run, byte) \in RunStates(Byte)
<1> DEFINE turn == DecodeByte(o, run.decoder, byte)
           next == After(run, turn)
           turn2 == DecodeByte(o, next.decoder, byte)
<1>1. next \in RunStates(Byte)
    BY DecodeByteType, AfterType DEF RunStates
<1> HIDE DEF next
<1>2. After(next, turn2) \in RunStates(Byte)
    BY <1>1, DecodeByteType, AfterType DEF RunStates
<1>3. Feed(o, run, byte) = run \/ Feed(o, run, byte) = next
      \/ Feed(o, run, byte) = After(next, turn2)
    BY DEF Feed, next
<1> QED
    BY <1>1, <1>2, <1>3

FirstRun == [decoder |-> NewDecoder, ok |-> TRUE, lines |-> <<>>]

LEMMA FirstRunType == ASSUME NEW Byte PROVE FirstRun \in RunStates(Byte)
    BY NewDecoderType, TextsJoin DEF FirstRun, RunStates

LEMMA RunsAre ==
    ASSUME NEW Byte, NEW o, NEW t \in Seq(Byte)
    PROVE  /\ Runs(o, t) \in [0..Len(t) -> RunStates(Byte)]
           /\ Runs(o, t)[0] = FirstRun
           /\ \A i \in 1..Len(t) : Runs(o, t)[i] = Feed(o, Runs(o, t)[i - 1], t[i])
<1> DEFINE N == Len(t)
           S == RunStates(Byte)
           h == [i \in 1..N |-> [x \in S |-> Feed(o, x, t[i])]]
           D(g) == g = [i \in 0..N |-> IF i = 0 THEN FirstRun
                            ELSE Feed(o, g[i - 1], t[i])]
<1>1. \A i \in 1..N : \A x \in S : h[i][x] = Feed(o, x, t[i])
    OBVIOUS
<1>2. StepsIn(h, N, S)
    BY <1>1, FeedType DEF StepsIn
<1>3. FirstRun \in S /\ N \in Nat
    BY FirstRunType
<1> HIDE DEF h, S
<1>4. PICK f : Computes(f, FirstRun, h, N, S)
  <2> HIDE DEF N
  <2> QED
      BY <1>2, <1>3, RunExists
<1>5. ASSUME NEW i \in 1..N PROVE f[i] = Feed(o, f[i - 1], t[i])
  <2>1. i - 1 \in 0..N /\ f[i - 1] \in S
      BY <1>4 DEF Computes
  <2> QED
      BY <1>1, <1>4, <2>1 DEF Computes
<1>6. D(f)
    BY <1>4, <1>5 DEF Computes
<1> DEFINE v == CHOOSE g : D(g)
<1>7. D(v)
    BY <1>6, Zenon
<1>8. Runs(o, t) = v
    BY DEF Runs, FirstRun
<1> HIDE DEF v
<1>9. f = v
  <2>1. f[0] = v[0]
      BY <1>4, <1>7 DEF Computes
  <2>2. ASSUME NEW i \in 1..N, f[i - 1] = v[i - 1] PROVE f[i] = v[i]
      BY <1>5, <1>7, <2>2
  <2>3. SameValues(f, v, N)
    <3>1. SameSteps(f, v, N) /\ N \in Nat
        BY <1>3, <2>1, <2>2 DEF SameSteps
    <3> HIDE DEF N
    <3> QED
        BY <3>1, RunUnique
  <2>4. f = [i \in 0..N |-> f[i]] /\ v = [i \in 0..N |-> v[i]]
      BY <1>4, <1>7 DEF Computes
  <2> QED
      BY <2>3, <2>4 DEF SameValues
<1> QED
    BY <1>4, <1>5, <1>8, <1>9 DEF Computes, S

(* An error is final.                                                      *)
LEMMA FailureStays ==
    ASSUME NEW Byte, NEW o, NEW t \in Seq(Byte), NEW m \in 0..Len(t),
           ~Runs(o, t)[m].ok
    PROVE  ~Runs(o, t)[Len(t)].ok
<1> DEFINE v == Runs(o, t)
           T == {k \in Nat : m + k <= Len(t) => ~v[m + k].ok}
<1>1. m \in Nat /\ Len(t) \in Nat
    OBVIOUS
<1>2. \A i \in 1..Len(t) : v[i] = Feed(o, v[i - 1], t[i])
    BY RunsAre
<1>3. 0 \in T
    BY <1>1
<1>4. ASSUME NEW k \in Nat, k \in T PROVE k + 1 \in T
  <2> SUFFICES ASSUME m + (k + 1) <= Len(t) PROVE ~v[m + (k + 1)].ok
      OBVIOUS
  <2>1. m + (k + 1) \in 1..Len(t) /\ (m + (k + 1)) - 1 = m + k /\ ~v[m + k].ok
      BY <1>1, <1>4
  <2> QED
      BY <1>2, <2>1 DEF Feed
<1> HIDE DEF T
<1>5. \A k \in Nat : k \in T
    BY <1>3, <1>4, SetInduction
<1>6. Len(t) - m \in T /\ m + (Len(t) - m) = Len(t)
    BY <1>1, <1>5
<1> QED
    BY <1>6 DEF T

(***************************************************************************)
(* The separators of the buffer and those of the input.                    *)
(***************************************************************************)
LEMMA EndsWithByte ==
    ASSUME NEW S, NEW b \in Seq(S), NEW x, b # <<>>
    PROVE  EndsWith(b, <<x>>) = (b[Len(b)] = x)
<1>1. Len(<<x>>) = 1 /\ Len(b) \in Nat \ {0} /\ (Len(b) - 1) + 1 = Len(b)
    OBVIOUS
<1> DEFINE c == SubSeq(b, Len(b), Len(b))
<1>2. c \in Seq(S) /\ Len(c) = 1 /\ c[1] = b[Len(b)]
    BY <1>1
<1>3. EndsWith(b, <<x>>) = (c = <<x>>)
    BY <1>1 DEF EndsWith
<1> HIDE DEF c
<1> QED
    BY <1>2, <1>3

LEMMA EndsWithTwo ==
    ASSUME NEW S, NEW b \in Seq(S), NEW x, NEW y, b # <<>>
    PROVE  EndsWith(b, <<x, y>>) =
             (Len(b) >= 2 /\ b[Len(b) - 1] = x /\ b[Len(b)] = y)
<1>1. Len(<<x, y>>) = 2 /\ Len(b) \in Nat \ {0} /\ (Len(b) - 2) + 1 = Len(b) - 1
    OBVIOUS
<1> DEFINE c == SubSeq(b, Len(b) - 1, Len(b))
<1>2. EndsWith(b, <<x, y>>) = (Len(b) >= 2 /\ c = <<x, y>>)
    BY <1>1 DEF EndsWith
<1>3. CASE Len(b) >= 2
  <2>1. c \in Seq(S) /\ Len(c) = 2 /\ c[1] = b[Len(b) - 1] /\ c[2] = b[Len(b)]
      BY <1>1, <1>3
  <2> HIDE DEF c
  <2>2. (c = <<x, y>>) = (c[1] = x /\ c[2] = y)
      BY <2>1
  <2> QED
      BY <1>2, <1>3, <2>1, <2>2
<1> QED
    BY <1>2, <1>3

LEMMA Piece ==
    ASSUME NEW Byte, NEW t \in Seq(Byte), NEW i \in 1..Len(t), NEW k \in i..Len(t)
    PROVE  LET b == SubSeq(t, i, k)
           IN  /\ b \in Seq(Byte) /\ Len(b) = k - i + 1 /\ b # <<>>
               /\ b[Len(b)] = t[k]
               /\ k > i => b[Len(b) - 1] = t[k - 1]
<1> DEFINE b == SubSeq(t, i, k)
<1>1. b \in Seq(Byte) /\ Len(b) = k - i + 1 /\ Len(b) \in Nat \ {0}
    OBVIOUS
<1>2. \A j \in 1..Len(b) : b[j] = t[i + j - 1]
    OBVIOUS
<1>3. i + Len(b) - 1 = k /\ (k > i => i + (Len(b) - 1) - 1 = k - 1)
    BY <1>1
<1>4. Len(b) \in 1..Len(b) /\ (k > i => Len(b) - 1 \in 1..Len(b))
    BY <1>1
<1> HIDE DEF b
<1>5. b[Len(b)] = t[k] /\ (k > i => b[Len(b) - 1] = t[k - 1])
    BY <1>2, <1>3, <1>4
<1> QED
    BY <1>1, <1>5 DEF b

Single(o, x) == (o.cr /\ x = CR) \/ (o.lf /\ x = LF)

LEMMA PieceSeparator ==
    ASSUME NEW o, NEW Byte, NEW t \in Seq(Byte), NEW i \in 1..Len(t), NEW k \in i..Len(t)
    PROVE  Separator(o, SubSeq(t, i, k)) =
             IF o.crlf /\ k > i /\ t[k - 1] = CR /\ t[k] = LF THEN 2
             ELSE IF Single(o, t[k]) THEN 1 ELSE 0
<1> DEFINE b == SubSeq(t, i, k)
<1>1. /\ b \in Seq(Byte) /\ Len(b) = k - i + 1 /\ b # <<>>
      /\ b[Len(b)] = t[k]
      /\ k > i => b[Len(b) - 1] = t[k - 1]
    BY Piece
<1> HIDE DEF b
<1>3. EndsWith(b, <<CR>>) = (t[k] = CR) /\ EndsWith(b, <<LF>>) = (t[k] = LF)
    BY <1>1, EndsWithByte
<1>4. EndsWith(b, <<CR, LF>>) = (Len(b) >= 2 /\ b[Len(b) - 1] = CR /\ b[Len(b)] = LF)
    BY <1>1, EndsWithTwo
<1>5. (Len(b) >= 2) = (k > i)
    BY <1>1
<1>6. EndsWith(b, <<CR, LF>>) = (k > i /\ t[k - 1] = CR /\ t[k] = LF)
    BY <1>1, <1>4, <1>5
<1> QED
    BY <1>3, <1>6 DEF Separator, Single, b

LEMMA PieceAppend ==
    ASSUME NEW Byte, NEW t \in Seq(Byte), NEW i \in 1..Len(t), NEW k \in i..Len(t)
    PROVE  /\ SubSeq(t, i, k - 1) \in Seq(Byte)
           /\ Len(SubSeq(t, i, k - 1)) = k - i
           /\ Append(SubSeq(t, i, k - 1), t[k]) = SubSeq(t, i, k)
           /\ SubSeq(SubSeq(t, i, k), 1, k - i) = SubSeq(t, i, k - 1)
<1> DEFINE a == SubSeq(t, i, k - 1)
           b == SubSeq(t, i, k)
           c == SubSeq(b, 1, k - i)
<1>1. /\ a \in Seq(Byte) /\ Len(a) = k - i
      /\ \A j \in 1..Len(a) : a[j] = t[i + j - 1]
    OBVIOUS
<1>2. /\ b \in Seq(Byte) /\ Len(b) = k - i + 1
      /\ \A j \in 1..Len(b) : b[j] = t[i + j - 1]
    OBVIOUS
<1>3. k - i \in Nat /\ t[k] \in Byte /\ i + (k - i + 1) - 1 = k
    OBVIOUS
<1> HIDE DEF a, b
<1>4. Append(a, t[k]) = b
  <2>1. /\ Append(a, t[k]) \in Seq(Byte) /\ Len(Append(a, t[k])) = k - i + 1
        /\ Append(a, t[k])[k - i + 1] = t[k]
        /\ \A j \in 1..k - i : Append(a, t[k])[j] = a[j]
      BY <1>1, <1>3
  <2>2. ASSUME NEW j \in 1..k - i + 1 PROVE Append(a, t[k])[j] = b[j]
    <3>1. CASE j = k - i + 1
        BY <1>2, <1>3, <2>1, <3>1
    <3>2. CASE j \in 1..k - i
        BY <1>1, <1>2, <2>1, <3>2
    <3>3. j = k - i + 1 \/ j \in 1..k - i
        BY <1>3
    <3> QED
        BY <3>1, <3>2, <3>3
  <2> QED
      BY <1>2, <2>1, <2>2, SeqEqual
<1>5. c = a
  <2>1. c \in Seq(Byte) /\ Len(c) = k - i /\ \A j \in 1..k - i : c[j] = b[j]
      BY <1>2, <1>3
  <2> HIDE DEF c
  <2>2. \A j \in 1..k - i : c[j] = a[j]
      BY <1>1, <1>2, <1>3, <2>1
  <2> QED
      BY <1>1, <2>1, <2>2, SeqEqual
<1> QED
    BY <1>1, <1>4, <1>5 DEF a, b

(* A decoder in the middle of a line, or waiting for LF.                   *)
Reading(b, drop, lines) ==
    [decoder |-> [buffer |-> b, drop_lf |-> drop], ok |-> TRUE, lines |-> lines]
Fresh(lines) == Reading(<<>>, FALSE, lines)

IsReading(run, b, drop, lines, Byte) ==
    /\ run \in RunStates(Byte) /\ run.decoder \in Decoders(Byte)
    /\ run.ok = TRUE /\ run.lines = lines
    /\ run.decoder.buffer = b /\ run.decoder.drop_lf = drop

LEMMA ReadingType ==
    ASSUME NEW Byte, NEW b \in Seq(Byte), NEW lines \in Texts(Byte),
           NEW run, run = Reading(b, FALSE, lines)
    PROVE  IsReading(run, b, FALSE, lines, Byte)
    BY DEF Reading, RunStates, Decoders, IsReading

LEMMA WaitingType ==
    ASSUME NEW Byte, NEW b \in Seq(Byte), NEW lines \in Texts(Byte), b # <<>>,
           NEW run, run = Reading(b, TRUE, lines)
    PROVE  IsReading(run, b, TRUE, lines, Byte)
    BY DEF Reading, RunStates, Decoders, IsReading

LEMMA FeedFull ==
    ASSUME NEW Byte, NEW o, NEW b \in Seq(Byte), NEW lines \in Texts(Byte),
           NEW byte, Len(b) >= o.max_line_length
    PROVE  ~Feed(o, Reading(b, FALSE, lines), byte).ok
<1> DEFINE run == Reading(b, FALSE, lines)
<1>1. run.ok = TRUE /\ run.decoder.buffer = b /\ ~run.decoder.drop_lf
    BY DEF Reading
<1> HIDE DEF run
<1>2. DecodeByte(o, run.decoder, byte) = Turn(run.decoder, 0, <<>>, FALSE)
    BY <1>1 DEF DecodeByte
<1> DEFINE turn == Turn(run.decoder, 0, <<>>, FALSE)
<1>3. turn.ok = FALSE
    BY DEF Turn
<1> HIDE DEF turn
<1>4. Feed(o, run, byte) = After(run, turn)
    BY <1>1, <1>2, <1>3 DEF Feed, turn
<1>5. After(run, turn).ok = FALSE
    BY <1>3 DEF After
<1> QED
    BY <1>4, <1>5 DEF run

(* The byte has made the buffer c, which ends with n bytes of separator.   *)
Pushed(o, byte, c, n, lines, next) ==
    /\ n = 0 => next = Reading(c, FALSE, lines)
    /\ n = 1 /\ byte = CR /\ o.crlf => next = Reading(c, TRUE, lines)
    /\ n # 0 /\ ~(n = 1 /\ byte = CR /\ o.crlf) =>
         next = Fresh(lines \o << SubSeq(c, 1, Len(c) - n) >>)

LEMMA FeedByte ==
    ASSUME NEW Byte, NEW o, NEW b \in Seq(Byte), NEW lines \in Texts(Byte),
           NEW byte \in Byte, ~(Len(b) >= o.max_line_length),
           NEW c \in Seq(Byte), c = Append(b, byte),
           NEW n, n = Separator(o, c),
           NEW next, next = Feed(o, Reading(b, FALSE, lines), byte)
    PROVE  Pushed(o, byte, c, n, lines, next)
<1> DEFINE run == Reading(b, FALSE, lines)
           turn == PushByte(o, run.decoder, byte)
           line == SubSeq(c, 1, Len(c) - n)
<1>1. /\ run.ok = TRUE /\ run.decoder.buffer = b /\ ~run.decoder.drop_lf
      /\ run.lines = lines /\ run.decoder \in Decoders(Byte)
  <2> HIDE DEF run
  <2>1. IsReading(run, b, FALSE, lines, Byte)
      BY ReadingType DEF run
  <2> QED
      BY <2>1 DEF IsReading
<1> HIDE DEF run
<1>2. DecodeByte(o, run.decoder, byte) = turn
    BY <1>1 DEF DecodeByte
<1>4. turn = IF n = 0 \/ (n = 1 /\ byte = CR /\ o.crlf)
             THEN Turn([buffer |-> c, drop_lf |-> n = 1 /\ byte = CR /\ o.crlf],
                       1, <<>>, TRUE)
             ELSE Turn(NewDecoder, 1, <<line>>, TRUE)
    BY <1>1 DEF PushByte
<1> HIDE DEF turn, line
<1>3. turn.ok = TRUE /\ turn.taken = 1
    BY <1>4 DEF Turn
<1>5. Feed(o, run, byte) = After(run, turn)
    BY <1>1, <1>2, <1>3 DEF Feed
<1>6. lines \o <<>> = lines
    BY TextsJoin
<1>7. ASSUME n = 0 PROVE Feed(o, run, byte) = Reading(c, FALSE, lines)
  <2>1. (n = 1 /\ byte = CR /\ o.crlf) = FALSE
      BY <1>7
  <2>2. turn = Turn([buffer |-> c, drop_lf |-> FALSE], 1, <<>>, TRUE)
      BY <1>4, <1>7, <2>1
  <2> QED
      BY <1>1, <1>5, <1>6, <2>2 DEF After, Turn, Reading
<1>8. ASSUME n = 1, byte = CR, o.crlf
      PROVE  Feed(o, run, byte) = Reading(c, TRUE, lines)
    BY <1>1, <1>4, <1>5, <1>6, <1>8 DEF After, Turn, Reading
<1>9. ASSUME n # 0, ~(n = 1 /\ byte = CR /\ o.crlf)
      PROVE  Feed(o, run, byte) = Fresh(lines \o <<line>>)
    BY <1>1, <1>4, <1>5, <1>9 DEF After, Turn, Reading, Fresh, NewDecoder
<1> QED
    BY <1>7, <1>8, <1>9 DEF run, line, Pushed

Waited(o, after, byte, next) ==
    /\ byte = LF => next = Fresh(after)
    /\ byte # LF => next = Feed(o, Fresh(after), byte)

LEMMA FeedWaiting ==
    ASSUME NEW Byte, NEW o, NEW b \in Seq(Byte), NEW lines \in Texts(Byte),
           NEW byte \in Byte, b # <<>>,
           NEW after, after = lines \o << SubSeq(b, 1, Len(b) - 1) >>,
           NEW next, next = Feed(o, Reading(b, TRUE, lines), byte)
    PROVE  Waited(o, after, byte, next)
<1> DEFINE run == Reading(b, TRUE, lines)
           turn == DropLf(run.decoder, byte)
           fresh == Fresh(after)
<1>1. /\ run.ok = TRUE /\ run.decoder.buffer = b /\ run.decoder.drop_lf = TRUE
      /\ run.lines = lines /\ run.decoder \in Decoders(Byte)
  <2> HIDE DEF run
  <2>1. IsReading(run, b, TRUE, lines, Byte)
      BY WaitingType DEF run
  <2> QED
      BY <2>1 DEF IsReading
<1> HIDE DEF run
<1>2. DecodeByte(o, run.decoder, byte) = turn
    BY <1>1 DEF DecodeByte
<1>3. /\ turn.decoder = NewDecoder /\ turn.ok = TRUE
      /\ turn.lines = << SubSeq(b, 1, Len(b) - 1) >>
      /\ turn.lines \in Texts(Byte)
      /\ turn.taken = IF byte = LF THEN 1 ELSE 0
    BY <1>1, DropLfType
<1> HIDE DEF turn
<1>4. After(run, turn) = fresh
    BY <1>1, <1>3 DEF After, Fresh, Reading, NewDecoder
<1>5. after \in Texts(Byte)
    BY <1>3, TextsJoin
<1>6. fresh.ok = TRUE /\ fresh.decoder = NewDecoder /\ NewDecoder.drop_lf = FALSE
    BY DEF Fresh, Reading, NewDecoder
<1> HIDE DEF fresh
<1>7. ASSUME byte = LF PROVE Feed(o, run, byte) = fresh
    BY <1>1, <1>2, <1>3, <1>4, <1>7 DEF Feed
<1>8. ASSUME byte # LF PROVE Feed(o, run, byte) = Feed(o, fresh, byte)
  <2> DEFINE again == DecodeByte(o, NewDecoder, byte)
  <2>1. Feed(o, run, byte) = After(fresh, again)
      BY <1>1, <1>2, <1>3, <1>4, <1>6, <1>8 DEF Feed
  <2>2. again.ok /\ again.taken = 0 => FALSE
    <3>1. again = Turn(NewDecoder, 0, <<>>, FALSE) \/ again = PushByte(o, NewDecoder, byte)
        BY <1>6 DEF DecodeByte
    <3>3. PushByte(o, NewDecoder, byte).taken = 1
        BY DEF PushByte, Turn
    <3> QED
        BY <3>1, <3>3 DEF Turn
  <2> HIDE DEF again
  <2>3. Feed(o, fresh, byte) = After(fresh, again)
      BY <1>6, <2>2 DEF Feed, again
  <2> QED
      BY <2>1, <2>3
<1> QED
    BY <1>7, <1>8 DEF run, fresh, Waited

(* What the decoder does at a position of a line that starts at i.         *)
Here(o, t, i, k, lines) ==
    Feed(o, Reading(SubSeq(t, i, k - 1), FALSE, lines), t[k])

NoCrLf(o, t, i, k) == k > i => SeparatorAt(o, t, k - 1) = 0

LEMMA HereSeparator ==
    ASSUME NEW o, NEW Byte, NEW t \in Seq(Byte),
           NEW i \in 1..Len(t), NEW k \in i..Len(t), NoCrLf(o, t, i, k)
    PROVE  Separator(o, SubSeq(t, i, k)) = IF Single(o, t[k]) THEN 1 ELSE 0
<1>1. k > i => k - 1 < Len(t) /\ (k - 1) + 1 = k
    OBVIOUS
<1>2. ~(o.crlf /\ k > i /\ t[k - 1] = CR /\ t[k] = LF)
    BY <1>1 DEF NoCrLf, SeparatorAt
<1> QED
    BY <1>2, PieceSeparator

LEMMA HereIs ==
    ASSUME NEW o, NEW Byte, NEW t \in Seq(Byte), NEW lines \in Texts(Byte),
           NEW i \in 1..Len(t), NEW k \in i..Len(t),
           k - i < o.max_line_length, o.max_line_length \in Nat,
           NEW n, n = Separator(o, SubSeq(t, i, k)),
           NEW c, c = SubSeq(t, i, k)
    PROVE  Pushed(o, t[k], c, n, lines, Here(o, t, i, k, lines))
<1> DEFINE b == SubSeq(t, i, k - 1)
           x == t[k]
           next == Feed(o, Reading(b, FALSE, lines), x)
<1>1. b \in Seq(Byte) /\ Len(b) = k - i /\ c = Append(b, x)
    BY PieceAppend
<1>2. c \in Seq(Byte) /\ x \in Byte
    BY Piece
<1>3. ~(Len(b) >= o.max_line_length)
    BY <1>1
<1>4. Here(o, t, i, k, lines) = next /\ n = Separator(o, c)
    BY DEF Here
<1> HIDE DEF b, x
<1>5. Pushed(o, x, c, n, lines, next)
  <2> HIDE DEF next
  <2> QED
      BY <1>1, <1>2, <1>3, <1>4, FeedByte DEF next
<1> QED
    BY <1>4, <1>5 DEF x

LEMMA HereFull ==
    ASSUME NEW o, NEW Byte, NEW t \in Seq(Byte), NEW lines \in Texts(Byte),
           NEW i \in 1..Len(t), NEW k \in i..Len(t), o.max_line_length \in Nat,
           k - i >= o.max_line_length
    PROVE  ~Here(o, t, i, k, lines).ok
<1> DEFINE b == SubSeq(t, i, k - 1)
           x == t[k]
<1>1. b \in Seq(Byte) /\ Len(b) = k - i
    BY PieceAppend
<1>2. Len(b) >= o.max_line_length
    BY <1>1
<1> HIDE DEF b, x
<1>3. ~Feed(o, Reading(b, FALSE, lines), x).ok
    BY <1>1, <1>2, FeedFull
<1> QED
    BY <1>3 DEF Here, b, x

LEMMA PiecePrefix ==
    ASSUME NEW Byte, NEW t \in Seq(Byte), NEW i \in 1..Len(t), NEW k \in i..Len(t),
           NEW m \in 0..k - i + 1
    PROVE  SubSeq(SubSeq(t, i, k), 1, m) = SubSeq(t, i, i + m - 1)
<1> DEFINE a == SubSeq(t, i, i + m - 1)
           b == SubSeq(t, i, k)
           c == SubSeq(b, 1, m)
<1>1. a \in Seq(Byte) /\ Len(a) = m /\ \A j \in 1..m : a[j] = t[i + j - 1]
    OBVIOUS
<1>2. /\ b \in Seq(Byte) /\ Len(b) = k - i + 1
      /\ \A j \in 1..k - i + 1 : b[j] = t[i + j - 1]
    OBVIOUS
<1> HIDE DEF a, b
<1>3. c \in Seq(Byte) /\ Len(c) = m /\ \A j \in 1..m : c[j] = b[j]
    BY <1>2
<1> HIDE DEF c
<1>4. ASSUME NEW j \in 1..m PROVE c[j] = a[j]
  <2>1. j \in 1..k - i + 1
      OBVIOUS
  <2> QED
      BY <1>1, <1>2, <1>3, <2>1
<1>5. c = a
    BY <1>1, <1>3, <1>4, SeqEqual
<1> QED
    BY <1>5 DEF a, b, c

Plain(o, t, i, k, lines) ==
    Here(o, t, i, k, lines) = Reading(SubSeq(t, i, k), FALSE, lines)

LEMMA PlainByte ==
    ASSUME NEW o, NEW Byte, NEW t \in Seq(Byte), NEW lines \in Texts(Byte),
           NEW i \in 1..Len(t), NEW k \in i..Len(t),
           k - i < o.max_line_length, o.max_line_length \in Nat,
           NoCrLf(o, t, i, k), SeparatorAt(o, t, k) = 0
    PROVE  Plain(o, t, i, k, lines)
<1>1. ~Single(o, t[k])
    BY DEF Single, SeparatorAt
<1>2. Separator(o, SubSeq(t, i, k)) = 0
    BY <1>1, HereSeparator
<1> DEFINE c == SubSeq(t, i, k)
<1>3. Pushed(o, t[k], c, Separator(o, c), lines, Here(o, t, i, k, lines))
  <2> HIDE DEF c
  <2> QED
      BY HereIs DEF c
<1> QED
    BY <1>2, <1>3 DEF Pushed, Plain

Ready(o, t, i, k, lines) == Runs(o, t)[k] = Here(o, t, i, k, lines)
Reached(o, t, i, k, lines) ==
    IF k - i <= o.max_line_length THEN Ready(o, t, i, k, lines)
    ELSE ~Runs(o, t)[k].ok

LEMMA ReachedNext ==
    ASSUME NEW o, NEW Byte, NEW t \in Seq(Byte), NEW lines \in Texts(Byte),
           NEW i \in 1..Len(t), NEW k \in i..Len(t), o.max_line_length \in Nat,
           NoCrLf(o, t, i, k), SeparatorAt(o, t, k) = 0, k < Len(t),
           Reached(o, t, i, k, lines)
    PROVE  Reached(o, t, i, k + 1, lines)
<1>1. k + 1 \in 1..Len(t) /\ (k + 1) - 1 = k /\ (k + 1) - i = (k - i) + 1 /\ k - i \in Nat
    OBVIOUS
<1>2. Runs(o, t)[k + 1] = Feed(o, Runs(o, t)[k], t[k + 1])
    BY <1>1, RunsAre
<1>3. CASE k - i < o.max_line_length
  <2>1. Runs(o, t)[k] = Reading(SubSeq(t, i, k), FALSE, lines)
    <3>1. Plain(o, t, i, k, lines)
        BY <1>3, PlainByte
    <3>2. Runs(o, t)[k] = Here(o, t, i, k, lines)
        BY <1>3 DEF Reached, Ready
    <3> QED
        BY <3>1, <3>2 DEF Plain
  <2>2. Ready(o, t, i, k + 1, lines)
      BY <1>1, <1>2, <2>1 DEF Ready, Here
  <2> QED
      BY <1>1, <1>3, <2>2 DEF Reached
<1>4. CASE ~(k - i < o.max_line_length)
  <2>1. ~Runs(o, t)[k].ok
      BY <1>4, HereFull DEF Reached, Ready
  <2>2. ~Runs(o, t)[k + 1].ok
      BY <1>2, <2>1 DEF Feed
  <2> QED
      BY <1>1, <1>4, <2>2 DEF Reached
<1> QED
    BY <1>3, <1>4

LEMMA WithinLine ==
    ASSUME NEW o, NEW Byte, NEW t \in Seq(Byte), NEW lines \in Texts(Byte),
           o.max_line_length \in Nat,
           NEW i \in 1..Len(t), NEW end, EndsAt(o, t, i, end),
           Ready(o, t, i, i, lines), NEW k \in i..Len(t), k <= end
    PROVE  Reached(o, t, i, k, lines) /\ NoCrLf(o, t, i, k)
<1> DEFINE T == {j \in Nat : i + j <= Len(t) /\ i + j <= end =>
                               Reached(o, t, i, i + j, lines)}
<1>1. ASSUME NEW j \in i..Len(t), j <= end PROVE NoCrLf(o, t, i, j)
  <2>1. j > i => j - 1 \in i..end - 1
      BY <1>1 DEF EndsAt
  <2> QED
      BY <2>1 DEF EndsAt, NoCrLf
<1>2. 0 \in T
  <2>1. i + 0 = i /\ i - i <= o.max_line_length
      OBVIOUS
  <2> QED
      BY <2>1 DEF Reached
<1>3. ASSUME NEW j \in Nat, j \in T PROVE j + 1 \in T
  <2> SUFFICES ASSUME i + (j + 1) <= Len(t), i + (j + 1) <= end
               PROVE  Reached(o, t, i, i + (j + 1), lines)
      OBVIOUS
  <2> DEFINE m == i + j
  <2>1. m \in i..Len(t) /\ m \in i..end - 1 /\ m + 1 = i + (j + 1)
        /\ m < Len(t) /\ m <= end /\ Reached(o, t, i, m, lines)
      BY <1>3 DEF EndsAt
  <2> HIDE DEF m
  <2>2. SeparatorAt(o, t, m) = 0
      BY <2>1 DEF EndsAt
  <2>3. Reached(o, t, i, m + 1, lines)
      BY <1>1, <2>1, <2>2, ReachedNext
  <2> QED
      BY <2>1, <2>3
<1> HIDE DEF T
<1>4. \A j \in Nat : j \in T
    BY <1>2, <1>3, SetInduction
<1>5. k - i \in T /\ i + (k - i) = k
    BY <1>4
<1> QED
    BY <1>1, <1>5 DEF T

(***************************************************************************)
(* The end of a line: the decoder goes on at the start of the next one.    *)
(* If it waits for LF and sees something else, it does with that what a    *)
(* new decoder does.                                                       *)
(***************************************************************************)
Starts(o, t, i, lines) ==
    IF i <= Len(t) THEN Runs(o, t)[i] = Feed(o, Fresh(lines), t[i])
    ELSE Runs(o, t)[Len(t)] = Fresh(lines)

Continues(o, t, i, lines) ==
    Starts(o, t, i, lines) /\ (PendingCr(o, t) => i <= Len(t))

LEMMA FreshStarts ==
    ASSUME NEW o, NEW Byte, NEW t \in Seq(Byte), NEW lines,
           NEW m \in 0..Len(t), Runs(o, t)[m] = Fresh(lines)
    PROVE  Starts(o, t, m + 1, lines)
<1>1. CASE m = Len(t)
    BY <1>1 DEF Starts
<1>2. CASE m < Len(t)
  <2>1. m + 1 \in 1..Len(t) /\ (m + 1) - 1 = m
      BY <1>2
  <2>2. Runs(o, t)[m + 1] = Feed(o, Runs(o, t)[m], t[m + 1])
      BY <2>1, RunsAre
  <2> QED
      BY <2>1, <2>2 DEF Starts
<1> QED
    BY <1>1, <1>2

LEMMA StartsReady ==
    ASSUME NEW o, NEW Byte, NEW t \in Seq(Byte), NEW lines,
           NEW i \in 1..Len(t), Starts(o, t, i, lines)
    PROVE  Ready(o, t, i, i, lines)
<1>1. SubSeq(t, i, i - 1) = <<>>
    OBVIOUS
<1>2. Runs(o, t)[i] = Feed(o, Reading(<<>>, FALSE, lines), t[i])
  <2>1. i <= Len(t)
      OBVIOUS
  <2>2. Runs(o, t)[i] = Feed(o, Fresh(lines), t[i])
      BY <2>1 DEF Starts
  <2> QED
      BY <2>2, Zenon DEF Fresh
<1>3. Here(o, t, i, i, lines) = Feed(o, Reading(<<>>, FALSE, lines), t[i])
    BY <1>1 DEF Here
<1> QED
    BY <1>2, <1>3 DEF Ready

(* The byte that ends a line, or is the first of two that do.              *)
Ending(o, t, i, end, lines, next) ==
    LET line == SubSeq(t, i, end - 1)
        c == SubSeq(t, i, end)
        z == SeparatorAt(o, t, end)
    IN  /\ z = 1 /\ ~(t[end] = CR /\ o.crlf) => next = Fresh(lines \o <<line>>)
        /\ t[end] = CR /\ o.crlf /\ o.cr => next = Reading(c, TRUE, lines)
        /\ z = 2 /\ ~o.cr => next = Reading(c, FALSE, lines)

LEMMA LastByte ==
    ASSUME NEW o, NEW Byte, NEW t \in Seq(Byte), NEW lines \in Texts(Byte),
           NEW i \in 1..Len(t), NEW end \in i..Len(t),
           end - i < o.max_line_length, o.max_line_length \in Nat,
           NoCrLf(o, t, i, end)
    PROVE  Ending(o, t, i, end, lines, Here(o, t, i, end, lines))
<1> DEFINE line == SubSeq(t, i, end - 1)
           c == SubSeq(t, i, end)
           z == SeparatorAt(o, t, end)
           n == Separator(o, c)
           next == Here(o, t, i, end, lines)
<1>1. Pushed(o, t[end], c, n, lines, next)
  <2> HIDE DEF c
  <2> QED
      BY HereIs DEF c
<1>2. Len(c) = end - i + 1 /\ SubSeq(c, 1, end - i) = line
    BY Piece, PieceAppend
<1>3. n = IF Single(o, t[end]) THEN 1 ELSE 0
    BY HereSeparator
<1> HIDE DEF line, c, n, next
<1>4. ASSUME n = 1 PROVE SubSeq(c, 1, Len(c) - n) = line
  <2>1. Len(c) - n = end - i
      BY <1>2, <1>4
  <2> QED
      BY <1>2, <2>1
<1>5. CR # LF
    BY DEF CR, LF
<1>6. ASSUME z = 1, ~(t[end] = CR /\ o.crlf) PROVE next = Fresh(lines \o <<line>>)
  <2>1. n = 1
      BY <1>3, <1>6 DEF Single, SeparatorAt
  <2>2. n # 0 /\ ~(n = 1 /\ t[end] = CR /\ o.crlf)
      BY <1>6, <2>1
  <2>3. next = Fresh(lines \o << SubSeq(c, 1, Len(c) - n) >>)
      BY <1>1, <2>2 DEF Pushed
  <2>4. SubSeq(c, 1, Len(c) - n) = line
      BY <1>4, <2>1
  <2> QED
      BY <2>3, <2>4
<1>7. ASSUME t[end] = CR, o.crlf, o.cr PROVE next = Reading(c, TRUE, lines)
  <2>1. n = 1
      BY <1>3, <1>7 DEF Single
  <2> QED
      BY <1>1, <1>7, <2>1 DEF Pushed
<1>8. ASSUME z = 2, ~o.cr PROVE next = Reading(c, FALSE, lines)
  <2>1. n = 0
      BY <1>3, <1>5, <1>8 DEF Single, SeparatorAt
  <2> QED
      BY <1>1, <2>1 DEF Pushed
<1> QED
    BY <1>6, <1>7, <1>8 DEF Ending, line, c, next

(* The LF after a CR that does not end lines on its own.                   *)
LEMMA LastLf ==
    ASSUME NEW o, NEW Byte, NEW t \in Seq(Byte), NEW lines \in Texts(Byte),
           NEW i \in 1..Len(t), NEW end \in i..Len(t), end < Len(t),
           SeparatorAt(o, t, end) = 2, o.max_line_length \in Nat,
           NEW k, k = end + 1, k - i < o.max_line_length
    PROVE  Here(o, t, i, k, lines) = Fresh(lines \o << SubSeq(t, i, end - 1) >>)
<1> DEFINE c == SubSeq(t, i, k)
           next == Here(o, t, i, k, lines)
           line == SubSeq(t, i, end - 1)
<1>1. k \in i..Len(t) /\ k > i /\ k - 1 = end /\ end - i \in 0..k - i + 1
      /\ i + (end - i) - 1 = end - 1
    OBVIOUS
<1>2. o.crlf /\ t[end] = CR /\ t[k] = LF
    BY DEF SeparatorAt
<1>3. Separator(o, c) = 2
    BY <1>1, <1>2, PieceSeparator
<1>4. Pushed(o, t[k], c, Separator(o, c), lines, next)
  <2> HIDE DEF c
  <2> QED
      BY <1>1, HereIs DEF c
<1>5. Len(c) - 2 = end - i
  <2>1. Len(c) = k - i + 1
      BY <1>1, Piece
  <2> QED
      BY <2>1
<1>6. SubSeq(c, 1, end - i) = line
  <2> DEFINE m == end - i
  <2>1. m \in 0..k - i + 1
      BY <1>1
  <2> HIDE DEF m
  <2>2. SubSeq(c, 1, m) = SubSeq(t, i, i + m - 1)
      BY <1>1, <2>1, PiecePrefix
  <2> QED
      BY <1>1, <2>2 DEF m
<1> HIDE DEF c, next, line
<1>7. next = Fresh(lines \o << SubSeq(c, 1, Len(c) - 2) >>)
    BY <1>3, <1>4 DEF Pushed
<1> QED
    BY <1>5, <1>6, <1>7 DEF next, line

Fails(o, t) == ~Runs(o, t)[Len(t)].ok
LineText(t, i, end) == SubSeq(t, i, end - 1)

(* How a line that starts at i and ends at end leaves the decoder.         *)
LineDone(o, t, i, end, lines) ==
    LET f == Line(o, t, i, end)
        next == end + Size(o, t, end)
        c == SubSeq(t, i, Len(t))
    IN  \/ TooLong(o, f) /\ Fails(o, t)
        \/ /\ ~TooLong(o, f) /\ end <= Len(t)
           /\ Continues(o, t, next, lines \o << LineText(t, i, end) >>)
        \/ /\ ~TooLong(o, f) /\ end = Len(t) /\ PendingCr(o, t) /\ next = Len(t) + 1
           /\ Runs(o, t)[Len(t)] = Reading(c, TRUE, lines)
        \/ /\ ~TooLong(o, f) /\ end = Len(t) + 1 /\ ~PendingCr(o, t)
           /\ Runs(o, t)[Len(t)] = Reading(c, FALSE, lines)

LEMMA TooLongIs ==
    ASSUME NEW o, NEW Byte, NEW t \in Seq(Byte), o.cr \in BOOLEAN,
           o.max_line_length \in Nat,
           NEW i \in 1..Len(t), NEW end, EndsAt(o, t, i, end), NEW n, n = end - i,
           NEW z, z = Size(o, t, end), NEW f, f = Line(o, t, i, end)
    PROVE  /\ o.cr /\ z > 0 => (TooLong(o, f) <=> n >= o.max_line_length)
           /\ ~o.cr /\ z > 0 => (TooLong(o, f) <=> n + z > o.max_line_length)
           /\ z = 0 => (TooLong(o, f) <=> n > o.max_line_length)
<1>2. f.size = z /\ Len(f.line) = n /\ z \in 0..2 /\ n \in Nat
  <2>1. f.size = z /\ f.line = SubSeq(t, i, end - 1)
      BY DEF Line, Size
  <2>2. z \in 0..2
      BY SeparatorType DEF Size
  <2>3. Len(SubSeq(t, i, end - 1)) = n /\ n \in Nat
      BY DEF EndsAt
  <2> QED
      BY <2>1, <2>2, <2>3
<1>3. TooLong(o, f) <=>
        (n + (IF o.cr THEN (IF z > 0 THEN 1 ELSE 0) ELSE z) > o.max_line_length)
    BY <1>2 DEF TooLong
<1> QED
    BY <1>2, <1>3

LEMMA LastPiece ==
    ASSUME NEW o, NEW Byte, NEW t \in Seq(Byte), NEW lines \in Texts(Byte),
           o.cr \in BOOLEAN, o.max_line_length \in Nat,
           NEW i \in 1..Len(t), NEW end, EndsAt(o, t, i, end),
           Ready(o, t, i, i, lines), end = Len(t) + 1
    PROVE  LineDone(o, t, i, end, lines)
<1> DEFINE N == Len(t)
           f == Line(o, t, i, end)
<1>1. N \in i..Len(t) /\ N <= end /\ N \in i..end - 1 /\ N \in Nat \ {0} /\ N - i \in Nat
    OBVIOUS
<1>2. Reached(o, t, i, N, lines) /\ NoCrLf(o, t, i, N)
    BY <1>1, WithinLine
<1>3. SeparatorAt(o, t, N) = 0
    BY <1>1 DEF EndsAt
<1>4. Size(o, t, end) = 0
    BY DEF Size
<1>5. (TooLong(o, f) <=> end - i > o.max_line_length)
  <2> DEFINE n == end - i
             z == Size(o, t, end)
  <2> HIDE DEF n, z, f
  <2>1. z = 0 => (TooLong(o, f) <=> n > o.max_line_length)
      BY TooLongIs DEF n, z, f
  <2> QED
      BY <1>4, <2>1 DEF n, z
<1>6. ~PendingCr(o, t)
    BY <1>1, <1>3 DEF PendingCr, SeparatorAt
<1>7. CASE N - i < o.max_line_length
  <2>1. Plain(o, t, i, N, lines)
    <3> HIDE DEF N
    <3> QED
        BY <1>1, <1>2, <1>3, <1>7, PlainByte
  <2>4. Ready(o, t, i, N, lines)
    <3> HIDE DEF N
    <3> QED
        BY <1>1, <1>2, <1>7 DEF Reached
  <2>2. Runs(o, t)[N] = Reading(SubSeq(t, i, N), FALSE, lines)
      BY <2>1, <2>4 DEF Plain, Ready
  <2>3. ~TooLong(o, f)
    <3> HIDE DEF f
    <3>1. ~(end - i > o.max_line_length)
        BY <1>7
    <3> QED
        BY <1>5, <3>1
  <2> QED
      BY <1>6, <2>2, <2>3 DEF LineDone
<1>8. CASE N - i >= o.max_line_length
  <2>1. ~Here(o, t, i, N, lines).ok
    <3> HIDE DEF N
    <3> QED
        BY <1>1, <1>8, HereFull
  <2>2. ~Runs(o, t)[N].ok
      BY <1>1, <1>2, <2>1 DEF Reached, Ready
  <2>3. TooLong(o, f)
    <3> HIDE DEF f
    <3>1. end - i > o.max_line_length
        BY <1>8
    <3> QED
        BY <1>5, <3>1
  <2> QED
      BY <2>2, <2>3 DEF LineDone, Fails
<1> QED
    BY <1>1, <1>7, <1>8

LEMMA LineFull ==
    ASSUME NEW o, NEW Byte, NEW t \in Seq(Byte), NEW lines \in Texts(Byte),
           o.cr \in BOOLEAN, o.max_line_length \in Nat,
           NEW i \in 1..Len(t), NEW end \in i..Len(t), EndsAt(o, t, i, end),
           Ready(o, t, i, i, lines), end - i >= o.max_line_length
    PROVE  LineDone(o, t, i, end, lines)
<1>1. Reached(o, t, i, end, lines)
    BY WithinLine
<1>2. ~Here(o, t, i, end, lines).ok
    BY HereFull
<1>3. ~Runs(o, t)[end].ok
    BY <1>1, <1>2 DEF Reached, Ready
<1>4. Fails(o, t)
  <2>1. end \in 0..Len(t)
      OBVIOUS
  <2> QED
      BY <1>3, <2>1, FailureStays DEF Fails
<1>5. TooLong(o, Line(o, t, i, end))
  <2> DEFINE n == end - i
             z == Size(o, t, end)
             f == Line(o, t, i, end)
  <2>1. z \in 1..2
      BY SeparatorType DEF Size, EndsAt
  <2>2. n >= o.max_line_length /\ n \in Nat
      OBVIOUS
  <2> HIDE DEF n, z, f
  <2>3. /\ o.cr /\ z > 0 => (TooLong(o, f) <=> n >= o.max_line_length)
        /\ ~o.cr /\ z > 0 => (TooLong(o, f) <=> n + z > o.max_line_length)
      BY TooLongIs DEF n, z, f
  <2>4. n + z > o.max_line_length
      BY <2>1, <2>2
  <2>5. TooLong(o, f)
      BY <2>1, <2>2, <2>3, <2>4
  <2> QED
      BY <2>5 DEF f
<1> QED
    BY <1>4, <1>5 DEF LineDone

SizeOne(o, t, end) == SeparatorAt(o, t, end) = 1
SizeTwo(o, t, end) == SeparatorAt(o, t, end) = 2

LEMMA SizeCases ==
    ASSUME NEW o, NEW Byte, NEW t \in Seq(Byte), NEW end \in 1..Len(t),
           SeparatorAt(o, t, end) # 0
    PROVE  \/ /\ SizeOne(o, t, end) /\ Size(o, t, end) = 1
              /\ t[end] = CR => o.cr
              /\ t[end] = CR /\ o.crlf /\ end < Len(t) => t[end + 1] # LF
           \/ /\ SizeTwo(o, t, end) /\ Size(o, t, end) = 2
              /\ o.crlf /\ end < Len(t) /\ t[end] = CR /\ t[end + 1] = LF
    BY DEF SizeOne, SizeTwo, Size, SeparatorAt, CR, LF

Follows(o, t, m, k) ==
    k \in 1..Len(t) /\ Runs(o, t)[k] = Feed(o, Runs(o, t)[m], t[k])

LEMMA NextByte ==
    ASSUME NEW o, NEW Byte, NEW t \in Seq(Byte), NEW m \in 0..Len(t), m < Len(t),
           NEW k, k = m + 1
    PROVE  Follows(o, t, m, k)
<1>1. k \in 1..Len(t) /\ k - 1 = m
    OBVIOUS
<1>2. Runs(o, t)[k] = Feed(o, Runs(o, t)[k - 1], t[k])
    BY <1>1, RunsAre
<1> QED
    BY <1>1, <1>2 DEF Follows

WithTerminator(c, line, Byte) ==
    /\ c \in Seq(Byte) /\ c # <<>> /\ SubSeq(c, 1, Len(c) - 1) = line
    /\ line \in Seq(Byte)

LEMMA LastLine ==
    ASSUME NEW Byte, NEW t \in Seq(Byte), NEW i \in 1..Len(t), NEW end \in i..Len(t),
           NEW c, c = SubSeq(t, i, end)
    PROVE  WithTerminator(c, LineText(t, i, end), Byte)
<1>1. c \in Seq(Byte) /\ c # <<>> /\ Len(c) = end - i + 1
    BY Piece
<1>2. Len(c) - 1 = end - i
    BY <1>1
<1>3. SubSeq(c, 1, end - i) = LineText(t, i, end) /\ LineText(t, i, end) \in Seq(Byte)
    BY PieceAppend DEF LineText
<1> QED
    BY <1>1, <1>2, <1>3 DEF WithTerminator

LEMMA ShortLine ==
    ASSUME NEW o, NEW Byte, NEW t \in Seq(Byte), o.cr \in BOOLEAN,
           o.max_line_length \in Nat,
           NEW i \in 1..Len(t), NEW end \in i..Len(t), EndsAt(o, t, i, end),
           end - i < o.max_line_length,
           NEW f, f = Line(o, t, i, end)
    PROVE  /\ Size(o, t, end) = 1 => ~TooLong(o, f)
           /\ Size(o, t, end) = 2 /\ o.cr => ~TooLong(o, f)
           /\ Size(o, t, end) = 2 /\ ~o.cr =>
                (TooLong(o, f) <=> end + 1 - i >= o.max_line_length)
<1> DEFINE n == end - i
           z == Size(o, t, end)
<1>1. n \in Nat /\ n < o.max_line_length /\ end + 1 - i = n + 1
    OBVIOUS
<1> HIDE DEF n, z
<1>2. /\ o.cr /\ z > 0 => (TooLong(o, f) <=> n >= o.max_line_length)
      /\ ~o.cr /\ z > 0 => (TooLong(o, f) <=> n + z > o.max_line_length)
    BY TooLongIs DEF n, z
<1> QED
    BY <1>1, <1>2 DEF z

(* One byte ends the line and the decoder returns it.                      *)
LEMMA EndsNow ==
    ASSUME NEW o, NEW Byte, NEW t \in Seq(Byte), NEW lines \in Texts(Byte),
           NEW i \in 1..Len(t), NEW end \in i..Len(t),
           SeparatorAt(o, t, end) # 0,
           ~(t[end] = CR /\ o.crlf), NEW next, next = Runs(o, t)[end],
           Ending(o, t, i, end, lines, next)
    PROVE  /\ Size(o, t, end) = 1
           /\ Continues(o, t, end + 1, lines \o << LineText(t, i, end) >>)
<1>1. SizeOne(o, t, end) /\ Size(o, t, end) = 1
    BY SizeCases
<1>2. next = Fresh(lines \o << LineText(t, i, end) >>)
    BY <1>1 DEF Ending, SizeOne, LineText
<1>3. end \in 0..Len(t)
    OBVIOUS
<1>4. Starts(o, t, end + 1, lines \o << LineText(t, i, end) >>)
    BY <1>2, <1>3, FreshStarts
<1>5. PendingCr(o, t) => end + 1 <= Len(t)
    BY DEF PendingCr
<1> QED
    BY <1>1, <1>4, <1>5 DEF Continues

(* The decoder waits for LF, and there is a byte that tells.               *)
LEMMA EndsLater ==
    ASSUME NEW o, NEW Byte, NEW t \in Seq(Byte), NEW lines \in Texts(Byte),
           NEW i \in 1..Len(t), NEW end \in i..Len(t), end < Len(t),
           SeparatorAt(o, t, end) # 0,
           t[end] = CR, o.crlf, NEW next, next = Runs(o, t)[end],
           NEW c, c = SubSeq(t, i, end), next = Reading(c, TRUE, lines)
    PROVE  Continues(o, t, end + Size(o, t, end), lines \o << LineText(t, i, end) >>)
<1> DEFINE after == lines \o << LineText(t, i, end) >>
           k == end + 1
<1>1. /\ c \in Seq(Byte) /\ c # <<>> /\ after = lines \o << SubSeq(c, 1, Len(c) - 1) >>
  <2>1. c \in Seq(Byte) /\ c # <<>> /\ SubSeq(c, 1, Len(c) - 1) = LineText(t, i, end)
    <3>1. WithTerminator(c, LineText(t, i, end), Byte)
        BY LastLine
    <3> QED
        BY <3>1 DEF WithTerminator
  <2> QED
      BY <2>1
<1>2. k \in 1..Len(t) /\ Runs(o, t)[k] = Feed(o, Runs(o, t)[end], t[k])
  <2>1. end \in 0..Len(t)
      OBVIOUS
  <2> HIDE DEF k
  <2>2. Follows(o, t, end, k)
      BY <2>1, NextByte DEF k
  <2> QED
      BY <2>2 DEF Follows
<1>3. t[k] \in Byte
    BY <1>2
<1> HIDE DEF k
<1>4. /\ t[k] = LF => Runs(o, t)[k] = Fresh(after)
      /\ t[k] # LF => Runs(o, t)[k] = Feed(o, Fresh(after), t[k])
  <2> DEFINE x == t[k]
  <2> HIDE DEF x, after
  <2>1. x \in Byte
      BY <1>3 DEF x
  <2> DEFINE y == Feed(o, Reading(c, TRUE, lines), x)
  <2> HIDE DEF y
  <2>2. Waited(o, after, x, y)
      BY <1>1, <2>1, FeedWaiting DEF y
  <2>3. Runs(o, t)[k] = y
      BY <1>2 DEF x, y
  <2> QED
      BY <2>2, <2>3 DEF x, Waited
<1> HIDE DEF after
<1>5. CASE SizeOne(o, t, end)
  <2>1. Size(o, t, end) = 1 /\ t[k] # LF
      BY <1>5, SizeCases DEF SizeOne, SizeTwo, k
  <2>2. k <= Len(t)
      BY <1>2
  <2>3. Starts(o, t, k, after)
      BY <1>4, <2>1, <2>2 DEF Starts
  <2> QED
      BY <2>1, <2>2, <2>3 DEF Continues, k, after
<1>6. CASE SizeTwo(o, t, end)
  <2>1. Size(o, t, end) = 2 /\ t[k] = LF
      BY <1>6, SizeCases DEF SizeOne, SizeTwo, k
  <2>2. k \in 0..Len(t)
      BY <1>2
  <2>3. Starts(o, t, k + 1, after)
      BY <1>4, <2>1, <2>2, FreshStarts
  <2>4. PendingCr(o, t) => k + 1 <= Len(t)
    <3>1. PendingCr(o, t) => k # Len(t)
        BY <2>1 DEF PendingCr, CR, LF
    <3> QED
        BY <2>2, <3>1
  <2>5. k + 1 = end + Size(o, t, end)
      BY <2>1 DEF k
  <2> QED
      BY <2>3, <2>4, <2>5 DEF Continues, after
<1> QED
    BY <1>5, <1>6, SizeCases

(* CR LF ends the line, CR does not.                                       *)
LEMMA EndsTwo ==
    ASSUME NEW o, NEW Byte, NEW t \in Seq(Byte), NEW lines \in Texts(Byte),
           o.cr \in BOOLEAN, ~o.cr, o.max_line_length \in Nat,
           NEW i \in 1..Len(t), NEW end \in i..Len(t), EndsAt(o, t, i, end),
           end - i < o.max_line_length,
           SizeTwo(o, t, end), Size(o, t, end) = 2, end < Len(t),
           NEW next, next = Runs(o, t)[end],
           Ending(o, t, i, end, lines, next)
    PROVE  LineDone(o, t, i, end, lines)
<1> DEFINE k == end + 1
           f == Line(o, t, i, end)
           after == lines \o << LineText(t, i, end) >>
<1>1. k \in i..Len(t) /\ k - 1 = end /\ end \in 0..Len(t) /\ k = end + 1
      /\ k \in 0..Len(t)
    OBVIOUS
<1>2. next = Reading(SubSeq(t, i, end), FALSE, lines)
    BY DEF Ending, SizeTwo
<1>3. TooLong(o, f) <=> k - i >= o.max_line_length
  <2> HIDE DEF f
  <2>1. (TooLong(o, f) <=> end + 1 - i >= o.max_line_length)
      BY ShortLine DEF f
  <2> QED
      BY <2>1
<1>4. Runs(o, t)[k] = Here(o, t, i, k, lines)
  <2> HIDE DEF k
  <2>1. Follows(o, t, end, k)
      BY <1>1, NextByte
  <2> QED
      BY <1>1, <1>2, <2>1 DEF Here, Follows
<1>5. CASE k - i >= o.max_line_length
  <2>1. ~Runs(o, t)[k].ok
    <3> HIDE DEF k
    <3> QED
        BY <1>1, <1>4, <1>5, HereFull
  <2>2. Fails(o, t)
    <3> HIDE DEF k
    <3> QED
        BY <1>1, <2>1, FailureStays DEF Fails
  <2>3. TooLong(o, f)
      BY <1>3, <1>5
  <2> QED
      BY <2>2, <2>3 DEF LineDone
<1>6. CASE k - i < o.max_line_length
  <2>1. Runs(o, t)[k] = Fresh(after)
    <3> HIDE DEF k
    <3>1. Here(o, t, i, k, lines) = Fresh(lines \o << SubSeq(t, i, end - 1) >>)
        BY <1>1, <1>6, LastLf DEF SizeTwo
    <3> QED
        BY <1>4, <3>1 DEF LineText
  <2>2. Starts(o, t, k + 1, after)
    <3> HIDE DEF k, after
    <3> QED
        BY <1>1, <2>1, FreshStarts
  <2>3. k + 1 = end + Size(o, t, end) /\ end <= Len(t)
      OBVIOUS
  <2>4. ~PendingCr(o, t)
      BY DEF PendingCr
  <2>5. ~TooLong(o, f)
    <3>1. ~(k - i >= o.max_line_length)
        BY <1>6
    <3> QED
        BY <1>3, <3>1
  <2> HIDE DEF k, f, after
  <2>6. Continues(o, t, end + Size(o, t, end), after)
      BY <2>2, <2>3, <2>4 DEF Continues
  <2> QED
      BY <2>3, <2>5, <2>6 DEF LineDone, f, after
<1> QED
    BY <1>5, <1>6

LEMMA EndedLine ==
    ASSUME NEW o, NEW Byte, NEW t \in Seq(Byte), NEW lines \in Texts(Byte),
           o.cr \in BOOLEAN, o.crlf \in BOOLEAN, o.max_line_length \in Nat,
           NEW i \in 1..Len(t), NEW end \in i..Len(t), EndsAt(o, t, i, end),
           Ready(o, t, i, i, lines), end - i < o.max_line_length
    PROVE  LineDone(o, t, i, end, lines)
<1> DEFINE next == Runs(o, t)[end]
           f == Line(o, t, i, end)
           z == Size(o, t, end)
           c == SubSeq(t, i, end)
<1>1. Reached(o, t, i, end, lines) /\ NoCrLf(o, t, i, end)
    BY WithinLine
<1>2. Ending(o, t, i, end, lines, next)
  <2>1. Ending(o, t, i, end, lines, Here(o, t, i, end, lines))
      BY <1>1, LastByte
  <2>2. next = Here(o, t, i, end, lines)
      BY <1>1 DEF Reached, Ready
  <2> QED
      BY <2>1, <2>2
<1>3. SeparatorAt(o, t, end) # 0 /\ end \in 1..Len(t) /\ end <= Len(t)
    BY DEF EndsAt
<1>4. \/ /\ SizeOne(o, t, end) /\ z = 1
         /\ t[end] = CR => o.cr
         /\ t[end] = CR /\ o.crlf /\ end < Len(t) => t[end + 1] # LF
      \/ /\ SizeTwo(o, t, end) /\ z = 2
         /\ o.crlf /\ end < Len(t) /\ t[end] = CR /\ t[end + 1] = LF
    BY <1>3, SizeCases
<1>5. /\ z = 1 => ~TooLong(o, f)
      /\ z = 2 /\ o.cr => ~TooLong(o, f)
  <2> HIDE DEF f
  <2> QED
      BY ShortLine DEF f
<1>6. CASE ~(t[end] = CR /\ o.crlf)
  <2>1. z = 1 /\ Continues(o, t, end + 1, lines \o << LineText(t, i, end) >>)
    <3> HIDE DEF next
    <3> QED
        BY <1>2, <1>3, <1>6, EndsNow DEF next
  <2>2. ~TooLong(o, f)
      BY <1>5, <2>1
  <2> QED
      BY <1>3, <2>1, <2>2 DEF LineDone
<1>7. CASE t[end] = CR /\ o.crlf /\ o.cr
  <2>1. next = Reading(c, TRUE, lines)
      BY <1>2, <1>7 DEF Ending
  <2>2. ~TooLong(o, f)
      BY <1>4, <1>5, <1>7
  <2>3. CASE end < Len(t)
    <3>1. Continues(o, t, end + z, lines \o << LineText(t, i, end) >>)
      <4> HIDE DEF next, c
      <4> QED
          BY <1>3, <1>7, <2>1, <2>3, EndsLater DEF next, c
    <3> QED
        BY <1>3, <2>2, <3>1 DEF LineDone
  <2>4. CASE end = Len(t)
    <3>1. z = 1
        BY <1>4, <2>4
    <3>2. PendingCr(o, t)
        BY <1>3, <1>7, <2>4 DEF PendingCr
    <3>3. Runs(o, t)[Len(t)] = Reading(SubSeq(t, i, Len(t)), TRUE, lines)
        BY <2>1, <2>4
    <3>4. end + z = Len(t) + 1
        BY <2>4, <3>1
    <3> QED
        BY <2>2, <2>4, <3>2, <3>3, <3>4 DEF LineDone
  <2> QED
      BY <2>3, <2>4
<1>8. CASE t[end] = CR /\ o.crlf /\ ~o.cr
  <2>1. SizeTwo(o, t, end) /\ z = 2 /\ end < Len(t)
      BY <1>4, <1>8
  <2> HIDE DEF next
  <2> QED
      BY <1>2, <1>8, <2>1, EndsTwo DEF next
<1> QED
    BY <1>6, <1>7, <1>8

(* Every line of the input, from the decoder's point of view.              *)
LEMMA LineStep ==
    ASSUME NEW o \in LineOptions, NEW Byte, NEW t \in Seq(Byte),
           NEW lines \in Texts(Byte), NEW i \in 1..Len(t), Starts(o, t, i, lines),
           NEW end, EndsAt(o, t, i, end)
    PROVE  LineDone(o, t, i, end, lines)
<1>1. o.cr \in BOOLEAN /\ o.crlf \in BOOLEAN /\ o.max_line_length \in Nat
    BY DEF LineOptions
<1>2. Ready(o, t, i, i, lines)
    BY StartsReady
<1>3. end = Len(t) + 1 \/ end \in i..Len(t)
    BY DEF EndsAt
<1>4. CASE end = Len(t) + 1
    BY <1>1, <1>2, <1>4, LastPiece
<1>5. CASE end \in i..Len(t)
  <2>1. CASE end - i >= o.max_line_length
      BY <1>1, <1>2, <1>5, <2>1, LineFull
  <2>2. CASE end - i < o.max_line_length
      BY <1>1, <1>2, <1>5, <2>2, EndedLine
  <2> QED
      BY <1>1, <1>5, <2>1, <2>2
<1> QED
    BY <1>3, <1>4, <1>5

(***************************************************************************)
(* The lines of the reference, from every position on.                     *)
(***************************************************************************)
Results(Byte) == [ok : BOOLEAN, lines : Texts(Byte)]
NoLines == [ok |-> TRUE, lines |-> <<>>]
NotLines == [ok |-> FALSE, lines |-> <<>>]
LineThen(o, t, start, others) ==
    LET f == LineAt(o, t, start)
    IN  IF TooLong(o, f) \/ (~f.ended /\ o.require_terminator) THEN NotLines
        ELSE [ok |-> others.ok, lines |-> <<f.line>> \o others.lines]
NextStart(o, t, start) ==
    start + Len(LineAt(o, t, start).line) + LineAt(o, t, start).size

LEMMA NextStartType ==
    ASSUME NEW o, NEW Byte, NEW t \in Seq(Byte), NEW start \in 1..Len(t)
    PROVE  /\ NextStart(o, t, start) \in start + 1..Len(t) + 1
           /\ LineAt(o, t, start).line \in Seq(Byte)
<1>1. start \in 1..Len(t) + 1 /\ start <= Len(t) /\ start \in Nat /\ Len(t) \in Nat
    OBVIOUS
<1>2. PICK end : EndsAt(o, t, start, end) /\ LineAt(o, t, start) = Line(o, t, start, end)
    BY <1>1, LineEnd
<1> DEFINE f == LineAt(o, t, start)
           next == end + Size(o, t, end)
<1>3. /\ f.line \in Seq(Byte) /\ start + Len(f.line) + f.size = next
      /\ end \in Nat /\ Size(o, t, end) \in 0..2
      /\ next <= Len(t) + 1 /\ start < next
  <2> HIDE DEF f
  <2>1. f = Line(o, t, start, end)
      BY <1>2 DEF f
  <2>2. FieldsOf(o, t, start, end, f, Byte)
      BY <1>1, <1>2, <2>1, LineFields
  <2> QED
      BY <1>1, <2>2 DEF FieldsOf
<1>4. next \in start + 1..Len(t) + 1
    BY <1>1, <1>3
<1> QED
    BY <1>3, <1>4 DEF NextStart

LEMMA LineThenType ==
    ASSUME NEW o, NEW Byte, NEW t \in Seq(Byte), NEW start \in 1..Len(t),
           NEW others \in Results(Byte)
    PROVE  /\ LineThen(o, t, start, others) \in Results(Byte)
           /\ LineThen(o, t, start, others).ok => LineThen(o, t, start, others).lines # <<>>
<1> DEFINE line == LineAt(o, t, start).line
           rest == others.lines
           all == <<line>> \o rest
<1>1. line \in Seq(Byte) /\ rest \in Texts(Byte) /\ others.ok \in BOOLEAN
    BY NextStartType DEF Results
<1> HIDE DEF line, rest
<1>2. all \in Texts(Byte) /\ all # <<>>
  <2> DEFINE Q == Seq(Byte)
  <2> HIDE DEF Q
  <2>1. line \in Q /\ rest \in Seq(Q)
      BY <1>1 DEF Texts, Q
  <2>2. all \in Seq(Q) /\ all # <<>>
      BY <2>1
  <2> QED
      BY <2>2 DEF Texts, Q
<1>3. LineThen(o, t, start, others) = NotLines
      \/ LineThen(o, t, start, others) = [ok |-> others.ok, lines |-> all]
    BY DEF LineThen, line, rest
<1> HIDE DEF all
<1> DEFINE next == LineThen(o, t, start, others)
<1> HIDE DEF next
<1>4. ASSUME next = NotLines PROVE next \in Results(Byte) /\ ~next.ok
  <2>1. <<>> \in Texts(Byte)
      BY TextsJoin
  <2> QED
      BY <1>4, <2>1 DEF Results, NotLines
<1>5. ASSUME next = [ok |-> others.ok, lines |-> all]
      PROVE  next \in Results(Byte) /\ next.lines # <<>>
    BY <1>1, <1>2, <1>5 DEF Results
<1>6. next \in Results(Byte) /\ (next.ok => next.lines # <<>>)
    BY <1>3, <1>4, <1>5 DEF next
<1> QED
    BY <1>6 DEF next

LEMMA LinesFromAre ==
    ASSUME NEW o, NEW Byte, NEW t \in Seq(Byte), NEW v, v = LinesFrom(o, t)
    PROVE  /\ v[Len(t) + 1] = NoLines
           /\ \A start \in 1..Len(t) :
                v[start] = LineThen(o, t, start, v[NextStart(o, t, start)])
<1> DEFINE N == Len(t)
           S == Results(Byte)
           D(g) == g = [start \in 1..N + 1 |->
                          LET f == LineAt(o, t, start)
                              others == g[start + Len(f.line) + f.size]
                          IN  IF start = N + 1 THEN [ok |-> TRUE, lines |-> <<>>]
                              ELSE IF TooLong(o, f)
                                      \/ (~f.ended /\ o.require_terminator)
                              THEN [ok |-> FALSE, lines |-> <<>>]
                              ELSE [ok |-> others.ok,
                                    lines |-> <<f.line>> \o others.lines]]
           h == [n \in Nat \ {0} |->
                   [x \in S |-> IF n <= N THEN LineThen(o, t, N + 1 - n, x) ELSE x]]
           p == [n \in Nat \ {0} |-> IF n <= N THEN N + 1 - NextStart(o, t, N + 1 - n)
                                     ELSE 0]
<1>1. N \in Nat
    OBVIOUS
<1>2. ASSUME NEW n \in Nat \ {0} PROVE p[n] \in Nat /\ p[n] < n
  <2>1. CASE n <= N
    <3> DEFINE start == N + 1 - n
               next == NextStart(o, t, start)
    <3>1. start \in 1..N
        BY <1>1, <2>1
    <3>2. next \in start + 1..N + 1
      <4> HIDE DEF start
      <4> QED
          BY <3>1, NextStartType
    <3>3. p[n] = N + 1 - next
        BY <2>1
    <3> HIDE DEF next, p, N
    <3> QED
        BY <1>1, <3>1, <3>2, <3>3
  <2>2. CASE ~(n <= N)
      BY <2>2
  <2> QED
      BY <2>1, <2>2
<1>3. ASSUME NEW n \in Nat \ {0}, NEW x \in S PROVE h[n][x] \in S
  <2>1. CASE n <= N
    <3> DEFINE start == N + 1 - n
    <3>1. start \in 1..N
        BY <1>1, <2>1
    <3>2. h[n][x] = LineThen(o, t, start, x)
        BY <2>1
    <3> HIDE DEF start, h
    <3> QED
        BY <3>1, <3>2, LineThenType
  <2>2. CASE ~(n <= N)
      BY <2>2
  <2> QED
      BY <2>1, <2>2
<1>4. NoLines \in S
    BY TextsJoin DEF Results, NoLines
<1> DEFINE zero == NoLines
<1>5. PICK f : Recursive(f, zero, h, p, S)
  <2> HIDE DEF h, p, S, zero
  <2>1. zero \in S
      BY <1>4 DEF zero
  <2> QED
      BY <1>2, <1>3, <2>1, RecursionExists
<1> DEFINE w == [start \in 1..N + 1 |-> f[N + 1 - start]]
<1>6. w[N + 1] = NoLines
    BY <1>1, <1>5 DEF Recursive
<1>7. ASSUME NEW start \in 1..N
      PROVE  w[start] = LineThen(o, t, start, w[NextStart(o, t, start)])
  <2> DEFINE n == N + 1 - start
             next == NextStart(o, t, start)
  <2>1. n \in Nat \ {0} /\ n <= N /\ N + 1 - n = start
      BY <1>1
  <2>2. next \in 1..N + 1
    <3>1. next \in start + 1..N + 1
        BY NextStartType
    <3> HIDE DEF next, N
    <3> QED
        BY <1>1, <3>1
  <2>3. p[n] = N + 1 - next
    <3>1. p[n] = N + 1 - NextStart(o, t, N + 1 - n)
      <4> HIDE DEF n
      <4> QED
          BY <2>1
    <3> QED
        BY <2>1, <3>1
  <2>4. w[start] = f[n] /\ w[next] = f[N + 1 - next]
    <3> HIDE DEF next
    <3> QED
        BY <1>1, <2>2
  <2>5. w[next] \in S /\ N + 1 - next \in Nat
    <3> HIDE DEF next, w
    <3>1. N + 1 - next \in Nat
        BY <1>1, <2>2
    <3> QED
        BY <1>5, <2>4, <3>1 DEF Recursive
  <2>6. f[n] = h[n][w[next]]
    <3> HIDE DEF n, next, w, h, p
    <3> QED
        BY <1>5, <2>1, <2>3, <2>4 DEF Recursive
  <2>7. h[n][w[next]] = LineThen(o, t, start, w[next])
    <3> DEFINE x == w[next]
    <3> HIDE DEF n, x
    <3>1. x \in S
        BY <2>5 DEF x
    <3>2. h[n][x] = LineThen(o, t, N + 1 - n, x)
        BY <2>1, <3>1
    <3> QED
        BY <2>1, <3>2 DEF x
  <2> QED
      BY <2>4, <2>6, <2>7
<1>8. D(w)
  <2> SUFFICES ASSUME NEW start \in 1..N + 1
               PROVE  w[start] =
                        LET f2 == LineAt(o, t, start)
                            others == w[start + Len(f2.line) + f2.size]
                        IN  IF start = N + 1 THEN [ok |-> TRUE, lines |-> <<>>]
                            ELSE IF TooLong(o, f2)
                                    \/ (~f2.ended /\ o.require_terminator)
                            THEN [ok |-> FALSE, lines |-> <<>>]
                            ELSE [ok |-> others.ok,
                                  lines |-> <<f2.line>> \o others.lines]
    <3> HIDE DEF w
    <3>1. w = [start \in 1..N + 1 |-> w[start]]
        BY DEF w
    <3> QED
        BY <3>1
  <2> HIDE DEF w
  <2>1. CASE start = N + 1
      BY <1>6, <2>1 DEF NoLines
  <2>2. CASE start \in 1..N
    <3>1. w[start] = LineThen(o, t, start, w[NextStart(o, t, start)])
        BY <1>7, <2>2
    <3>2. start # N + 1
        BY <1>1, <2>2
    <3> QED
        BY <3>1, <3>2 DEF LineThen, NextStart, NotLines
  <2> QED
      BY <1>1, <2>1, <2>2
<1>9. D(CHOOSE g : D(g))
    BY <1>8, Zenon
<1>10. v = CHOOSE g : D(g)
    BY DEF LinesFrom
<1>11. D(v)
    BY <1>9, <1>10
<1>12. v[N + 1] = NoLines
  <2>1. N + 1 \in 1..N + 1
      BY <1>1
  <2> QED
      BY <1>11, <2>1 DEF NoLines
<1>13. ASSUME NEW start \in 1..N
       PROVE  v[start] = LineThen(o, t, start, v[NextStart(o, t, start)])
  <2>1. start \in 1..N + 1 /\ start # N + 1
      BY <1>1
  <2> QED
      BY <1>11, <2>1 DEF LineThen, NextStart, NotLines
<1> QED
    BY <1>12, <1>13

(***************************************************************************)
(* The outcome.  A CR that is still undecided at the end stays in the last *)
(* line.                                                                   *)
(***************************************************************************)
Kept(o, t, lines) ==
    IF PendingCr(o, t) THEN [lines EXCEPT ![Len(lines)] = Append(lines[Len(lines)], CR)]
    ELSE lines

LEMMA LastOfCons ==
    ASSUME NEW Q, NEW x \in Q, NEW lines \in Seq(Q), lines # <<>>, NEW y \in Q
    PROVE  /\ (<<x>> \o lines)[Len(<<x>> \o lines)] = lines[Len(lines)]
           /\ [<<x>> \o lines EXCEPT ![Len(<<x>> \o lines)] = y]
                = <<x>> \o [lines EXCEPT ![Len(lines)] = y]
<1> DEFINE m == Len(lines)
           s == <<x>> \o lines
           l2 == [lines EXCEPT ![m] = y]
           a == [s EXCEPT ![m + 1] = y]
           b == <<x>> \o l2
<1>1. m \in Nat \ {0} /\ \A j \in 1..m : lines[j] \in Q
    OBVIOUS
<1>2. s \in Seq(Q) /\ Len(s) = m + 1 /\ s[1] = x /\ \A j \in 2..m + 1 : s[j] = lines[j - 1]
    OBVIOUS
<1>3. l2 \in Seq(Q) /\ Len(l2) = m /\ \A j \in 1..m : l2[j] = IF j = m THEN y ELSE lines[j]
    OBVIOUS
<1> HIDE DEF m, s, l2
<1>4. a \in Seq(Q) /\ Len(a) = m + 1
      /\ \A j \in 1..m + 1 : a[j] = IF j = m + 1 THEN y ELSE s[j]
    BY <1>1, <1>2
<1>5. b \in Seq(Q) /\ Len(b) = m + 1 /\ b[1] = x /\ \A j \in 2..m + 1 : b[j] = l2[j - 1]
    BY <1>1, <1>3
<1> HIDE DEF a, b
<1>6. ASSUME NEW j \in 1..m + 1 PROVE a[j] = b[j]
  <2>1. CASE j = 1
      BY <1>1, <1>2, <1>4, <1>5, <2>1
  <2>2. CASE j \in 2..m + 1
    <3>1. j - 1 \in 1..m /\ (j - 1 = m <=> j = m + 1)
        BY <1>1, <2>2
    <3>2. a[j] = IF j = m + 1 THEN y ELSE lines[j - 1]
        BY <1>2, <1>4, <2>2
    <3>3. b[j] = IF j - 1 = m THEN y ELSE lines[j - 1]
        BY <1>3, <1>5, <2>2, <3>1
    <3> QED
        BY <3>1, <3>2, <3>3
  <2>3. j = 1 \/ j \in 2..m + 1
      BY <1>1
  <2> QED
      BY <2>1, <2>2, <2>3
<1>7. a = b
    BY <1>4, <1>5, <1>6, SeqEqual
<1>8. s[m + 1] = lines[m]
  <2>1. m + 1 \in 2..m + 1 /\ (m + 1) - 1 = m
      BY <1>1
  <2> QED
      BY <1>2, <2>1
<1> QED
    BY <1>2, <1>7, <1>8 DEF m, s, a, b, l2

LEMMA KeptType ==
    ASSUME NEW o, NEW Byte, NEW t \in Seq(Byte), NEW lines \in Texts(Byte),
           PendingCr(o, t) => lines # <<>>
    PROVE  Kept(o, t, lines) \in Texts(Byte)
<1>1. CASE ~PendingCr(o, t)
    BY <1>1 DEF Kept
<1>2. CASE PendingCr(o, t)
  <2> DEFINE Q == Seq(Byte)
             m == Len(lines)
             x == lines[m]
             y == Append(x, CR)
  <2>1. CR \in Byte
      BY <1>2 DEF PendingCr
  <2> HIDE DEF Q
  <2>2. m \in 1..Len(lines) /\ x \in Q /\ lines \in Seq(Q)
      BY <1>2 DEF Texts, Q
  <2>3. y \in Q
    <3> HIDE DEF x
    <3> QED
        BY <2>1, <2>2 DEF Q
  <2> HIDE DEF y
  <2>4. [lines EXCEPT ![m] = y] \in Seq(Q)
      BY <2>2, <2>3
  <2> QED
      BY <1>2, <2>4 DEF Kept, Texts, Q, y
<1> QED
    BY <1>1, <1>2

LEMMA KeptCons ==
    ASSUME NEW o, NEW Byte, NEW t \in Seq(Byte), NEW lines \in Texts(Byte),
           NEW x \in Seq(Byte), PendingCr(o, t) => lines # <<>>
    PROVE  Kept(o, t, <<x>> \o lines) = <<x>> \o Kept(o, t, lines)
<1>1. CASE ~PendingCr(o, t)
    BY <1>1 DEF Kept
<1>2. CASE PendingCr(o, t)
  <2> DEFINE Q == Seq(Byte)
             last == lines[Len(lines)]
             y == Append(last, CR)
             all == <<x>> \o lines
  <2>1. CR \in Byte
      BY <1>2 DEF PendingCr
  <2> HIDE DEF Q
  <2>2. x \in Q /\ lines \in Seq(Q) /\ lines # <<>> /\ last \in Q
      BY <1>2 DEF Texts, Q
  <2> HIDE DEF last
  <2>3. y \in Q
      BY <2>1, <2>2 DEF Q
  <2> HIDE DEF y
  <2>4. /\ all[Len(all)] = lines[Len(lines)]
        /\ [all EXCEPT ![Len(all)] = y] = <<x>> \o [lines EXCEPT ![Len(lines)] = y]
      BY <2>2, <2>3, LastOfCons
  <2> HIDE DEF all
  <2>5. Kept(o, t, all) = [all EXCEPT ![Len(all)] = y]
      BY <1>2, <2>4 DEF Kept, y, last
  <2>6. Kept(o, t, lines) = [lines EXCEPT ![Len(lines)] = y]
      BY <1>2 DEF Kept, y, last
  <2> QED
      BY <2>4, <2>5, <2>6 DEF all
<1> QED
    BY <1>1, <1>2

LEMMA KeptOne ==
    ASSUME NEW o, NEW t, NEW x, PendingCr(o, t)
    PROVE  Kept(o, t, <<x>>) = << Append(x, CR) >>
<1> DEFINE y == Append(x, CR)
<1>1. Len(<<x>>) = 1 /\ <<x>>[1] = x
    OBVIOUS
<1>2. Kept(o, t, <<x>>) = [<<x>> EXCEPT ![1] = y]
    BY <1>1 DEF Kept
<1> HIDE DEF y
<1>3. [<<x>> EXCEPT ![1] = y] = <<y>>
    OBVIOUS
<1> QED
    BY <1>2, <1>3 DEF y

Outcome(o, t, lines, r) ==
    DecodedLines(o, t) =
        IF r.ok /\ ~(PendingCr(o, t) /\ o.require_terminator)
        THEN [ok |-> TRUE, lines |-> lines \o Kept(o, t, r.lines)]
        ELSE NotLines

AfterEof(o, t, b, lines) ==
    /\ b = <<>> => DecodedLines(o, t) = [ok |-> TRUE, lines |-> lines]
    /\ b # <<>> /\ o.require_terminator => DecodedLines(o, t) = NotLines
    /\ b # <<>> /\ ~o.require_terminator =>
         DecodedLines(o, t) = [ok |-> TRUE, lines |-> lines \o <<b>>]

LEMMA AtEof ==
    ASSUME NEW o, NEW Byte, NEW t, NEW b, NEW drop, NEW lines \in Texts(Byte),
           NEW run, run = Runs(o, t)[Len(t)], run = Reading(b, drop, lines)
    PROVE  AfterEof(o, t, b, lines)
<1> DEFINE d == run.decoder
           turn == DecodeEof(o, d)
           whole == After(run, turn)
<1>1. run.ok = TRUE /\ run.lines = lines /\ d.buffer = b
    BY DEF Reading
<1>2. DecodedLines(o, t) = IF run.ok /\ whole.ok THEN [ok |-> TRUE, lines |-> whole.lines]
                           ELSE [ok |-> FALSE, lines |-> <<>>]
    BY DEF DecodedLines
<1> HIDE DEF d
<1>3. ASSUME b = <<>> PROVE turn.ok = TRUE /\ turn.lines = <<>>
    BY <1>1, <1>3 DEF DecodeEof, Turn
<1>4. ASSUME b # <<>>, o.require_terminator PROVE turn.ok = FALSE
    BY <1>1, <1>4 DEF DecodeEof, Turn
<1>5. ASSUME b # <<>>, ~o.require_terminator PROVE turn.ok = TRUE /\ turn.lines = <<b>>
    BY <1>1, <1>5 DEF DecodeEof, Turn
<1> HIDE DEF turn
<1>6. whole.ok = turn.ok /\ whole.lines = lines \o turn.lines
    BY <1>1 DEF After
<1> HIDE DEF whole
<1>7. lines \o <<>> = lines
    BY TextsJoin
<1>8. ASSUME b = <<>> PROVE DecodedLines(o, t) = [ok |-> TRUE, lines |-> lines]
    BY <1>1, <1>2, <1>3, <1>6, <1>7, <1>8
<1>9. ASSUME b # <<>>, o.require_terminator PROVE DecodedLines(o, t) = NotLines
    BY <1>1, <1>2, <1>4, <1>6, <1>9 DEF NotLines
<1>10. ASSUME b # <<>>, ~o.require_terminator
       PROVE  DecodedLines(o, t) = [ok |-> TRUE, lines |-> lines \o <<b>>]
    BY <1>1, <1>2, <1>5, <1>6, <1>10
<1> QED
    BY <1>8, <1>9, <1>10 DEF AfterEof

LEMMA AtFailure ==
    ASSUME NEW o, NEW t, Fails(o, t)
    PROVE  DecodedLines(o, t) = NotLines
    BY DEF DecodedLines, Fails, NotLines

(* From a position where a line starts, the decoder returns the lines of   *)
(* the reference.                                                          *)
Agrees(o, t, i, Byte, r) ==
    /\ r \in Results(Byte)
    /\ i <= Len(t) /\ r.ok => r.lines # <<>>
    /\ \A lines \in Texts(Byte) : Continues(o, t, i, lines) => Outcome(o, t, lines, r)

LEMMA AgreesAtEnd ==
    ASSUME NEW o, NEW Byte, NEW t \in Seq(Byte)
    PROVE  Agrees(o, t, Len(t) + 1, Byte, NoLines)
<1>1. Len(t) \in Nat /\ ~(Len(t) + 1 <= Len(t))
    OBVIOUS
<1>2. NoLines \in Results(Byte)
    BY TextsJoin DEF NoLines, Results
<1>3. ASSUME NEW lines \in Texts(Byte), Continues(o, t, Len(t) + 1, lines)
      PROVE  Outcome(o, t, lines, NoLines)
  <2>1. Runs(o, t)[Len(t)] = Fresh(lines) /\ ~PendingCr(o, t)
      BY <1>1, <1>3 DEF Continues, Starts
  <2>2. DecodedLines(o, t) = [ok |-> TRUE, lines |-> lines]
    <3> DEFINE run == Runs(o, t)[Len(t)]
               b == <<>>
               drop == FALSE
    <3>1. run = Reading(b, drop, lines)
        BY <2>1, Zenon DEF Fresh
    <3>2. b = <<>>
        OBVIOUS
    <3> HIDE DEF run, b, drop
    <3>3. AfterEof(o, t, b, lines)
        BY <3>1, AtEof DEF run
    <3> QED
        BY <3>2, <3>3 DEF AfterEof
  <2>3. lines \o Kept(o, t, <<>>) = lines
      BY <2>1, TextsJoin DEF Kept
  <2> QED
      BY <2>1, <2>2, <2>3 DEF Outcome, NoLines
<1> QED
    BY <1>1, <1>2, <1>3 DEF Agrees

LEMMA EofAfter ==
    ASSUME NEW o, NEW Byte, NEW t \in Seq(Byte), NEW lines \in Texts(Byte),
           NEW drop, NEW c \in Seq(Byte), c # <<>>,
           Runs(o, t)[Len(t)] = Reading(c, drop, lines)
    PROVE  DecodedLines(o, t) = IF o.require_terminator THEN NotLines
                                ELSE [ok |-> TRUE, lines |-> lines \o <<c>>]
<1> DEFINE run == Runs(o, t)[Len(t)]
<1>1. run = Reading(c, drop, lines)
    OBVIOUS
<1> HIDE DEF run
<1>2. AfterEof(o, t, c, lines)
    BY <1>1, AtEof DEF run
<1> QED
    BY <1>2 DEF AfterEof

(* The whole line, where the input ends in it or with it.                  *)
WholeLine(t, i, c, Byte) ==
    /\ c \in Seq(Byte) /\ c # <<>>
    /\ LineText(t, i, Len(t) + 1) = c
    /\ Append(LineText(t, i, Len(t)), t[Len(t)]) = c

LEMMA LastWhole ==
    ASSUME NEW Byte, NEW t \in Seq(Byte), NEW i \in 1..Len(t),
           NEW c, c = SubSeq(t, i, Len(t))
    PROVE  WholeLine(t, i, c, Byte)
<1>1. Len(t) \in i..Len(t) /\ (Len(t) + 1) - 1 = Len(t)
    OBVIOUS
<1>2. c \in Seq(Byte) /\ c # <<>>
    BY <1>1, Piece
<1>3. Append(LineText(t, i, Len(t)), t[Len(t)]) = c
    BY <1>1, PieceAppend DEF LineText
<1> QED
    BY <1>1, <1>2, <1>3 DEF LineText, WholeLine

LEMMA AgreesStep ==
    ASSUME NEW o \in LineOptions, NEW Byte, NEW t \in Seq(Byte), NEW i \in 1..Len(t),
           NEW end, EndsAt(o, t, i, end), LineAt(o, t, i) = Line(o, t, i, end),
           NEW next, next = end + Size(o, t, end),
           NEW others, Agrees(o, t, next, Byte, others),
           next = Len(t) + 1 => others = NoLines,
           NEW lines \in Texts(Byte), Continues(o, t, i, lines),
           NEW r, r = LineThen(o, t, i, others)
    PROVE  Outcome(o, t, lines, r)
<1> DEFINE f == Line(o, t, i, end)
           line == LineText(t, i, end)
           c == SubSeq(t, i, Len(t))
           N == Len(t)
<1>1. f.line = line /\ f.ended = (end <= N)
    BY DEF Line, LineText
<1>2. r = IF TooLong(o, f) \/ (~(end <= N) /\ o.require_terminator) THEN NotLines
          ELSE [ok |-> others.ok, lines |-> <<line>> \o others.lines]
    BY <1>1 DEF LineThen
<1>3. LineDone(o, t, i, end, lines)
    BY LineStep DEF Continues
<1>4. line \in Seq(Byte) /\ N \in Nat /\ end \in i..N + 1
  <2>1. end \in i..N + 1
      BY DEF EndsAt
  <2> QED
      BY <2>1 DEF LineText
<1>5. <<>> \in Texts(Byte) /\ <<line>> \in Texts(Byte)
    BY <1>4, TextsJoin
<1>6. c \in Seq(Byte) /\ c # <<>>
      /\ LineText(t, i, N + 1) = c /\ Append(LineText(t, i, N), t[N]) = c
  <2> HIDE DEF c
  <2>1. WholeLine(t, i, c, Byte)
      BY LastWhole DEF c
  <2> QED
      BY <2>1 DEF WholeLine
<1> HIDE DEF f, line, c
<1>7. CASE TooLong(o, f) /\ Fails(o, t)
    BY <1>2, <1>7, AtFailure DEF Outcome, NotLines
<1>8. CASE /\ ~TooLong(o, f) /\ end <= N
           /\ Continues(o, t, next, lines \o <<line>>)
  <2> DEFINE all == lines \o <<line>>
             rest == others.lines
  <2>1. all \in Texts(Byte) /\ others \in Results(Byte) /\ rest \in Texts(Byte)
      BY <1>5, TextsJoin DEF Agrees, Results
  <2>2. Outcome(o, t, all, others)
      BY <1>8, <2>1 DEF Agrees
  <2>3. r.ok = others.ok /\ r.lines = <<line>> \o rest
      BY <1>2, <1>8
  <2>4. ASSUME others.ok
        PROVE  all \o Kept(o, t, rest) = lines \o Kept(o, t, <<line>> \o rest)
    <3>1. PendingCr(o, t) => rest # <<>>
        BY <1>8, <2>4 DEF Agrees, Continues
    <3>2. Kept(o, t, rest) \in Texts(Byte)
        BY <2>1, <3>1, KeptType
    <3>3. Kept(o, t, <<line>> \o rest) = <<line>> \o Kept(o, t, rest)
        BY <1>4, <2>1, <3>1, KeptCons
    <3> HIDE DEF rest
    <3> DEFINE x == <<line>>
               y == Kept(o, t, rest)
    <3>5. x \in Texts(Byte) /\ y \in Texts(Byte)
        BY <1>5, <3>2
    <3> HIDE DEF x, y
    <3>4. Associate(lines, x, y)
        BY <3>5, TextsAssociate
    <3> QED
        BY <3>3, <3>4 DEF Associate, x, y
  <2> HIDE DEF all, rest
  <2>5. DecodedLines(o, t) =
          IF others.ok /\ ~(PendingCr(o, t) /\ o.require_terminator)
          THEN [ok |-> TRUE, lines |-> all \o Kept(o, t, rest)] ELSE NotLines
      BY <2>2 DEF Outcome, rest
  <2> QED
      BY <2>3, <2>4, <2>5 DEF Outcome
<1>9. CASE /\ ~TooLong(o, f) /\ end = N /\ PendingCr(o, t) /\ next = N + 1
           /\ Runs(o, t)[N] = Reading(c, TRUE, lines)
  <2>1. r.ok = TRUE /\ r.lines = <<line>>
    <3>1. end <= N
        BY <1>4, <1>9
    <3>4. others.ok = TRUE /\ others.lines = <<>>
        BY <1>9 DEF NoLines
    <3>5. r = [ok |-> others.ok, lines |-> <<line>> \o others.lines]
        BY <1>2, <1>9, <3>1
    <3>2. r = [ok |-> TRUE, lines |-> <<line>> \o <<>>]
        BY <3>4, <3>5
    <3>3. <<line>> \o <<>> = <<line>>
        BY <1>5, TextsJoin
    <3> QED
        BY <3>2, <3>3
  <2>2. Kept(o, t, <<line>>) = <<c>>
    <3>1. t[N] = CR /\ Append(line, CR) = c
        BY <1>6, <1>9 DEF PendingCr, line
    <3> QED
        BY <1>9, <3>1, KeptOne
  <2>3. DecodedLines(o, t) = IF o.require_terminator THEN NotLines
                             ELSE [ok |-> TRUE, lines |-> lines \o <<c>>]
    <3> DEFINE drop == TRUE
    <3> HIDE DEF drop
    <3>1. Runs(o, t)[N] = Reading(c, drop, lines)
        BY <1>9 DEF drop
    <3> QED
        BY <1>6, <3>1, EofAfter
  <2> QED
      BY <1>9, <2>1, <2>2, <2>3 DEF Outcome
<1>10. CASE /\ ~TooLong(o, f) /\ end = N + 1 /\ ~PendingCr(o, t)
            /\ Runs(o, t)[N] = Reading(c, FALSE, lines)
  <2>1. ~(end <= N) /\ next = N + 1 /\ line = c
    <3>1. ~(end <= N)
        BY <1>4, <1>10
    <3> QED
        BY <1>4, <1>6, <1>10, <3>1 DEF Size, line
  <2>2. r = IF o.require_terminator THEN NotLines ELSE [ok |-> TRUE, lines |-> <<c>>]
    <3>1. <<line>> \o <<>> = <<line>>
        BY <1>5, TextsJoin
    <3>2. others.ok = TRUE /\ others.lines = <<>>
        BY <2>1 DEF NoLines
    <3>3. r = IF o.require_terminator THEN NotLines
              ELSE [ok |-> others.ok, lines |-> <<line>> \o others.lines]
        BY <1>2, <1>10, <2>1
    <3> QED
        BY <2>1, <3>1, <3>2, <3>3
  <2>3. DecodedLines(o, t) = IF o.require_terminator THEN NotLines
                             ELSE [ok |-> TRUE, lines |-> lines \o <<c>>]
    <3> DEFINE drop == FALSE
    <3> HIDE DEF drop
    <3>1. Runs(o, t)[N] = Reading(c, drop, lines)
        BY <1>10 DEF drop
    <3> QED
        BY <1>6, <3>1, EofAfter
  <2>4. Kept(o, t, r.lines) = r.lines
      BY <1>10 DEF Kept
  <2>5. CASE o.require_terminator
      BY <2>2, <2>3, <2>5 DEF Outcome, NotLines
  <2>6. CASE ~o.require_terminator
    <3>1. r.ok = TRUE /\ r.lines = <<c>>
        BY <2>2, <2>6
    <3> QED
        BY <2>3, <2>4, <2>6, <3>1 DEF Outcome
  <2> QED
      BY <2>5, <2>6
<1> QED
    BY <1>3, <1>7, <1>8, <1>9, <1>10 DEF LineDone, f, line, c

LEMMA AllAgree ==
    ASSUME NEW o \in LineOptions, NEW Byte, NEW t \in Seq(Byte)
    PROVE  \A i \in 1..Len(t) + 1 : Agrees(o, t, i, Byte, LinesFrom(o, t)[i])
<1> DEFINE v == LinesFrom(o, t)
           N == Len(t)
           Bad == {k \in 0..N : ~Agrees(o, t, N + 1 - k, Byte, v[N + 1 - k])}
<1>1. N \in Nat
    OBVIOUS
<1>2. v[N + 1] = NoLines
      /\ \A i \in 1..N : v[i] = LineThen(o, t, i, v[NextStart(o, t, i)])
  <2> HIDE DEF v
  <2> QED
      BY LinesFromAre DEF v
<1> HIDE DEF v
<1>3. Bad = {}
  <2> SUFFICES ASSUME Bad # {} PROVE FALSE
      OBVIOUS
  <2>1. PICK k \in Bad : \A j \in Bad : k <= j
    <3>1. Bad \subseteq Nat
        BY <1>1
    <3> HIDE DEF Bad
    <3> QED
        BY <3>1, LeastNatural
  <2> DEFINE i == N + 1 - k
  <2>2. i \in 1..N + 1 /\ ~Agrees(o, t, i, Byte, v[i]) /\ k \in 0..N
      BY <1>1, <2>1
  <2>3. i # N + 1
      BY <1>2, <2>2, AgreesAtEnd
  <2>4. i \in 1..N
      BY <1>1, <2>2, <2>3
  <2> DEFINE next == NextStart(o, t, i)
             others == v[next]
  <2>5. next \in i + 1..N + 1
    <3> HIDE DEF i
    <3> QED
        BY <2>4, NextStartType
  <2>6. Agrees(o, t, next, Byte, others)
    <3> DEFINE j == N + 1 - next
    <3> HIDE DEF next
    <3>1. j \in 0..N /\ j < k /\ N + 1 - j = next
        BY <1>1, <2>2, <2>5
    <3>2. j \notin Bad
        BY <2>1, <3>1
    <3> QED
        BY <3>1, <3>2
  <2>7. v[i] = LineThen(o, t, i, others)
      BY <1>2, <2>4
  <2>8. next = N + 1 => others = NoLines
      BY <1>2
  <2> HIDE DEF i, others
  <2>9. v[i] \in Results(Byte) /\ (v[i].ok => v[i].lines # <<>>)
    <3>1. others \in Results(Byte)
        BY <2>6 DEF Agrees
    <3> QED
        BY <2>4, <2>7, <3>1, LineThenType
  <2>10. PICK end : EndsAt(o, t, i, end) /\ LineAt(o, t, i) = Line(o, t, i, end)
      BY <2>2, LineEnd
  <2>11. next = end + Size(o, t, end)
    <3> DEFINE f == LineAt(o, t, i)
    <3> HIDE DEF f
    <3>1. FieldsOf(o, t, i, end, f, Byte)
        BY <2>2, <2>10, LineFields DEF f
    <3> QED
        BY <3>1 DEF FieldsOf, NextStart, f
  <2> HIDE DEF next
  <2>12. ASSUME NEW lines \in Texts(Byte), Continues(o, t, i, lines)
         PROVE  Outcome(o, t, lines, v[i])
    <3> DEFINE r == v[i]
    <3> HIDE DEF r
    <3>1. r = LineThen(o, t, i, others)
        BY <2>7 DEF r
    <3>2. Outcome(o, t, lines, r)
        BY <2>4, <2>6, <2>8, <2>10, <2>11, <2>12, <3>1, AgreesStep
    <3> QED
        BY <3>2 DEF r
  <2>13. Agrees(o, t, i, Byte, v[i])
      BY <2>9, <2>12 DEF Agrees
  <2> QED
      BY <2>2, <2>13
<1>4. ASSUME NEW i \in 1..N + 1 PROVE Agrees(o, t, i, Byte, v[i])
  <2> DEFINE k == N + 1 - i
  <2>1. k \in 0..N /\ N + 1 - k = i
      BY <1>1
  <2>2. k \notin Bad
      BY <1>3
  <2> HIDE DEF k
  <2> QED
      BY <2>1, <2>2
<1> QED
    BY <1>4 DEF v

(* line.rs, for input of any length, every choice of separators and any    *)
(* limit: LineDecoder returns the lines of the reference, whatever CRs and *)
(* LFs it has to wait for, and fails exactly where a line is too long or   *)
(* lacks the terminator; the exception is an input whose last byte is a CR *)
(* that may begin CR LF (LinesAsDocumented is violated there).             *)
THEOREM ExactLines ==
    ASSUME NEW Byte, text \in Seq(Byte), topic = "lines" => params \in LineOptions
    PROVE  LinesExact
<1> SUFFICES ASSUME topic = "lines", ~PendingCr(params, text)
             PROVE  LinesAgree
    BY DEF LinesExact
<1> DEFINE o == params
           t == text
           r == ReferenceLines(o, t)
           d == DecodedLines(o, t)
<1>1. o \in LineOptions /\ t \in Seq(Byte) /\ Len(t) \in Nat
    OBVIOUS
<1> HIDE DEF o, t
<1>2. Agrees(o, t, 1, Byte, r)
  <2>1. 1 \in 1..Len(t) + 1
      BY <1>1
  <2> QED
      BY <1>1, <2>1, AllAgree DEF ReferenceLines
<1>3. Continues(o, t, 1, <<>>)
  <2> DEFINE m == 0
             none == <<>>
  <2>1. m \in 0..Len(t) /\ m + 1 = 1
      BY <1>1
  <2>2. Runs(o, t)[m] = Fresh(none)
      BY <1>1, RunsAre DEF FirstRun, Fresh, Reading, NewDecoder
  <2>3. PendingCr(o, t) => 1 <= Len(t)
      BY <1>1 DEF PendingCr
  <2> HIDE DEF m, none
  <2>4. Starts(o, t, m + 1, none)
      BY <1>1, <2>1, <2>2, FreshStarts
  <2> QED
      BY <2>1, <2>3, <2>4 DEF Continues, none
<1>4. <<>> \in Texts(Byte)
    BY TextsJoin
<1>5. Outcome(o, t, <<>>, r)
    BY <1>2, <1>3, <1>4 DEF Agrees
<1>6. r \in Results(Byte) /\ r.lines \in Texts(Byte) /\ r.ok \in BOOLEAN
      /\ r = [ok |-> r.ok, lines |-> r.lines]
    BY <1>2 DEF Agrees, Results
<1>7. PendingCr(o, t) /\ r.ok => r.lines # <<>>
    BY <1>1, <1>2 DEF Agrees, PendingCr
<1> HIDE DEF r
<1>8. ASSUME r.ok PROVE <<>> \o Kept(o, t, r.lines) = Kept(o, t, r.lines)
    BY <1>1, <1>6, <1>7, <1>8, KeptType, TextsJoin
<1>9. d = IF r.ok /\ ~(PendingCr(o, t) /\ o.require_terminator)
          THEN [ok |-> TRUE, lines |-> Kept(o, t, r.lines)] ELSE NotLines
    BY <1>5, <1>8 DEF Outcome
<1>10. ~PendingCr(o, t)
    BY DEF o, t
<1> HIDE DEF d
<1>11. d.ok = r.ok /\ (r.ok => d = r)
    BY <1>6, <1>9, <1>10 DEF NotLines, Kept
<1> QED
    BY <1>11 DEF LinesAgree, d, r, o, t
-----------------------------------------------------------------------------

(***************************************************************************)
(* Frames: bytes and masks.  The exclusive or of the same byte twice is the*)
(* byte again, place by place.                                             *)
(***************************************************************************)
Octets == 0..255
BitOf(c, place) == c = 0 \/ c = place

LEMMA ByteBits ==
    ASSUME NEW a \in Octets
    PROVE  a = Bit(a, 1) + 2 * Bit(a, 2) + 4 * Bit(a, 4) + 8 * Bit(a, 8)
                 + 16 * Bit(a, 16) + 32 * Bit(a, 32) + 64 * Bit(a, 64)
                 + 128 * Bit(a, 128)
    BY DEF Octets, Bit

LEMMA BitCases ==
    ASSUME NEW a \in Nat, NEW place \in Nat \ {0}
    PROVE  Bit(a, place) = 0 \/ Bit(a, place) = 1
    BY DEF Bit

LEMMA BitsSum ==
    ASSUME NEW c1, NEW c2, NEW c4, NEW c8, NEW c16, NEW c32, NEW c64, NEW c128,
           BitOf(c1, 1), BitOf(c2, 2), BitOf(c4, 4), BitOf(c8, 8),
           BitOf(c16, 16), BitOf(c32, 32), BitOf(c64, 64), BitOf(c128, 128),
           NEW z, z = c1 + c2 + c4 + c8 + c16 + c32 + c64 + c128
    PROVE  /\ z \in Octets
           /\ 1 * Bit(z, 1) = c1 /\ 2 * Bit(z, 2) = c2 /\ 4 * Bit(z, 4) = c4
           /\ 8 * Bit(z, 8) = c8 /\ 16 * Bit(z, 16) = c16
           /\ 32 * Bit(z, 32) = c32 /\ 64 * Bit(z, 64) = c64
           /\ 128 * Bit(z, 128) = c128
<1>1. /\ c1 \in 0..1 /\ c2 \in Int /\ c4 \in Int /\ c8 \in Int
      /\ c16 \in Int /\ c32 \in Int /\ c64 \in Int /\ c128 \in Int /\ z \in Octets
    BY DEF BitOf, Octets
<1>2. 128 * Bit(z, 128) = c128
    BY DEF Bit, BitOf
<1>3. 64 * Bit(z, 64) = c64
    BY DEF Bit, BitOf
<1>4. 32 * Bit(z, 32) = c32
  <2>1. PICK low \in 0..31, high \in 0..3 : z = low + c32 + 64 * high
    <3>1. c1 + c2 + c4 + c8 + c16 \in 0..31
        BY DEF BitOf
    <3>2. PICK high \in 0..3 : c64 + c128 = 64 * high
        BY DEF BitOf
    <3> QED
        BY <1>1, <3>1, <3>2
  <2>2. CASE c32 = 0
    <3>1. z \div 32 = 2 * high
        BY <2>1, <2>2
    <3> QED
        BY <2>2, <3>1 DEF Bit
  <2>3. CASE c32 = 32
    <3>1. z \div 32 = 2 * high + 1
        BY <2>1, <2>3
    <3> QED
        BY <2>3, <3>1 DEF Bit
  <2> QED
      BY <2>2, <2>3 DEF BitOf
<1>5. 16 * Bit(z, 16) = c16
    BY DEF Bit, BitOf
<1>6. 8 * Bit(z, 8) = c8
    BY DEF Bit, BitOf
<1>7. 4 * Bit(z, 4) = c4
    BY DEF Bit, BitOf
<1>8. 2 * Bit(z, 2) = c2
    BY DEF Bit, BitOf
<1>9. 1 * Bit(z, 1) = c1
    BY DEF Bit, BitOf
<1> QED
    BY <1>1, <1>2, <1>3, <1>4, <1>5, <1>6, <1>7, <1>8, <1>9

LEMMA XorPlace ==
    ASSUME NEW a \in Nat, NEW b \in Nat, NEW place \in Nat \ {0}
    PROVE  BitOf(XorBit(a, b, place), place)
    BY DEF XorBit, BitOf

LEMMA XorTwice ==
    ASSUME NEW a \in Octets, NEW b \in Octets
    PROVE  Xor(a, b) \in Octets /\ Xor(Xor(a, b), b) = a
<1> DEFINE z == Xor(a, b)
<1>1. a \in Nat /\ b \in Nat
    BY DEF Octets
<1>2. \A p \in {1, 2, 4, 8, 16, 32, 64, 128} : BitOf(XorBit(a, b, p), p)
    BY <1>1, XorPlace
<1>3. /\ z \in Octets
      /\ \A p \in {1, 2, 4, 8, 16, 32, 64, 128} : p * Bit(z, p) = XorBit(a, b, p)
  <2> DEFINE c(p) == XorBit(a, b, p)
  <2>1. z = c(1) + c(2) + c(4) + c(8) + c(16) + c(32) + c(64) + c(128)
      BY DEF Xor
  <2> HIDE DEF z
  <2>2. /\ BitOf(c(1), 1) /\ BitOf(c(2), 2) /\ BitOf(c(4), 4) /\ BitOf(c(8), 8)
        /\ BitOf(c(16), 16) /\ BitOf(c(32), 32) /\ BitOf(c(64), 64)
        /\ BitOf(c(128), 128)
      BY <1>2
  <2> HIDE DEF c
  <2>3. /\ z \in Octets
        /\ 1 * Bit(z, 1) = c(1) /\ 2 * Bit(z, 2) = c(2) /\ 4 * Bit(z, 4) = c(4)
        /\ 8 * Bit(z, 8) = c(8) /\ 16 * Bit(z, 16) = c(16)
        /\ 32 * Bit(z, 32) = c(32) /\ 64 * Bit(z, 64) = c(64)
        /\ 128 * Bit(z, 128) = c(128)
      BY <2>1, <2>2, BitsSum
  <2> QED
      BY <2>3 DEF c
<1> HIDE DEF z
<1>4. z \in Nat
    BY <1>3 DEF Octets
<1>5. ASSUME NEW p \in {1, 2, 4, 8, 16, 32, 64, 128}
      PROVE  XorBit(z, b, p) = p * Bit(a, p)
  <2>1. p * Bit(z, p) = XorBit(a, b, p)
      BY <1>3
  <2>2. /\ Bit(z, p) \in 0..1 /\ Bit(a, p) \in 0..1 /\ Bit(b, p) \in 0..1
      BY <1>1, <1>4, BitCases
  <2> QED
      BY <2>1, <2>2 DEF XorBit
<1>6. Xor(z, b) = 1 * Bit(a, 1) + 2 * Bit(a, 2) + 4 * Bit(a, 4) + 8 * Bit(a, 8)
                    + 16 * Bit(a, 16) + 32 * Bit(a, 32) + 64 * Bit(a, 64)
                    + 128 * Bit(a, 128)
    BY <1>5 DEF Xor
<1>7. Xor(z, b) = a
  <2>1. Bit(a, 1) \in Int
      BY <1>1, BitCases
  <2> QED
      BY <1>6, <2>1, ByteBits
<1> QED
    BY <1>3, <1>7 DEF z

(* The elements of a sequence of two parts.                                *)
Joining(a, b, c, m, n) == c = a \o b /\ m = Len(a) /\ n = Len(b)
Joint(S, a, b, c, m, n) ==
    /\ c \in Seq(S) /\ Len(c) = m + n
    /\ \A i \in 1..m : c[i] = a[i]
    /\ \A i \in 1..n : c[m + i] = b[i]

LEMMA Joined ==
    ASSUME NEW S, NEW a \in Seq(S), NEW b \in Seq(S), NEW c, NEW m, NEW n,
           Joining(a, b, c, m, n)
    PROVE  Joint(S, a, b, c, m, n)
<1>1. c = a \o b /\ m = Len(a) /\ n = Len(b)
    BY DEF Joining
<1>2. c \in Seq(S) /\ Len(c) = m + n /\ m \in Nat /\ n \in Nat
    BY <1>1
<1>3. \A i \in 1..m : c[i] = a[i]
    BY <1>1
<1>4. \A i \in 1..n : c[m + i] = b[i]
    BY <1>1
<1> QED
    BY <1>2, <1>3, <1>4 DEF Joint

(* The bytes of a part of a sequence.                                      *)
LEMMA Slice ==
    ASSUME NEW S, NEW s \in Seq(S), NEW t \in Seq(S), NEW at, NEW n,
           at \in Nat, n = Len(t), at + n <= Len(s),
           \A i \in 1..n : s[at + i] = t[i]
    PROVE  SubSeq(s, at + 1, at + n) = t
<1> DEFINE u == SubSeq(s, at + 1, at + n)
<1>1. n \in Nat
    OBVIOUS
<1>2. u \in Seq(S) /\ Len(u) = n /\ \A i \in 1..n : u[i] = s[at + i]
    BY <1>1
<1> HIDE DEF u
<1>3. u = t
    BY <1>1, <1>2, SeqEqual
<1> QED
    BY <1>3 DEF u

LEMMA OctetsAre == \A b \in Octets : b \in Nat /\ b < 256
    BY DEF Octets

LEMMA OctetsSeq ==
    ASSUME NEW s \in Seq(Octets), NEW i \in 1..Len(s)
    PROVE  s[i] \in Octets /\ s[i] \in Nat /\ s[i] < 256
<1>1. s[i] \in Octets
    OBVIOUS
<1> QED
    BY <1>1, OctetsAre

(* The bytes of a number, and the number of the bytes.                     *)
LEMMA Numbers256Are ==
    ASSUME NEW s \in Seq(Octets)
    PROVE  /\ Numbers256(s) \in [0..Len(s) -> Nat]
           /\ Numbers256(s)[0] = 0
           /\ \A i \in 1..Len(s) :
                Numbers256(s)[i] = IF Numbers256(s)[i - 1] > MaxBuffer
                                   THEN Numbers256(s)[i - 1]
                                   ELSE 256 * Numbers256(s)[i - 1] + s[i]
<1> DEFINE N == Len(s)
           Next256(x, b) == IF x > MaxBuffer THEN x ELSE 256 * x + b
           h == [i \in 1..N |-> [x \in Nat |-> Next256(x, s[i])]]
           D(g) == g = [i \in 0..N |-> IF i = 0 THEN 0
                            ELSE IF g[i - 1] > MaxBuffer THEN g[i - 1]
                            ELSE 256 * g[i - 1] + s[i]]
<1>1. \A i \in 1..N : \A x \in Nat : h[i][x] = Next256(x, s[i])
    OBVIOUS
<1>2. \A i \in 1..N : \A x \in Nat : h[i][x] \in Nat
  <2>1. \A i \in 1..N : s[i] \in Nat
      BY OctetsSeq
  <2> QED
      BY <1>1, <2>1
<1> HIDE DEF h
<1>3. PICK f : Computes(f, 0, h, N, Nat)
  <2> DEFINE S == Nat
             zero == 0
  <2>1. StepsIn(h, N, S) /\ N \in Nat /\ zero \in S
      BY <1>2 DEF StepsIn
  <2> HIDE DEF N, S, zero
  <2>2. \E f : Computes(f, zero, h, N, S)
      BY <2>1, RunExists
  <2> QED
      BY <2>2 DEF S, zero
<1>4. ASSUME NEW i \in 1..N PROVE f[i] = Next256(f[i - 1], s[i])
  <2>3. f \in [0..N -> Nat]
      BY <1>3 DEF Computes
  <2>4. i - 1 \in 0..N
      OBVIOUS
  <2> HIDE DEF D, N
  <2>1. i - 1 \in 0..N /\ f[i - 1] \in Nat
      BY <2>3, <2>4
  <2>2. f[i] = h[i][f[i - 1]]
      BY <1>3 DEF Computes
  <2> QED
      BY <1>1, <2>1, <2>2
<1>5. D(f)
    BY <1>3, <1>4 DEF Computes
<1>6. D(CHOOSE g : D(g))
  <2> HIDE DEF D
  <2> QED
      BY <1>5, Zenon
<1>7. Numbers256(s) = CHOOSE g : D(g)
    BY DEF Numbers256
<1>8. Numbers256(s) = f
    <2>1. D(Numbers256(s))
      <3> HIDE DEF D
      <3> QED
          BY <1>6, <1>7, Zenon
    <2>2. f[0] = Numbers256(s)[0]
        BY <1>3, <2>1 DEF Computes
    <2>3. ASSUME NEW i \in 1..N, f[i - 1] = Numbers256(s)[i - 1]
          PROVE  f[i] = Numbers256(s)[i]
        BY <1>4, <2>1, <2>3
    <2>4. SameSteps(f, Numbers256(s), N)
        BY <2>2, <2>3 DEF SameSteps
    <2>6. SameValues(f, Numbers256(s), N)
        BY <2>4, RunUnique
    <2>5. f = [i \in 0..N |-> f[i]] /\ Numbers256(s) = [i \in 0..N |-> Numbers256(s)[i]]
        BY <1>3, <2>1 DEF Computes
    <2> QED
        BY <2>5, <2>6 DEF SameValues
<1> QED
    BY <1>3, <1>4, <1>8 DEF Computes

LEMMA NumberType ==
    ASSUME NEW s \in Seq(Octets)
    PROVE  Number(s) \in Nat
<1>1. Len(s) \in 0..Len(s)
    OBVIOUS
<1> QED
    BY <1>1, Numbers256Are DEF Number

LEMMA NumberOfTwo ==
    ASSUME NEW n \in Nat, n < 65536
    PROVE  /\ TwoBytes(n) \in Seq(Octets) /\ Len(TwoBytes(n)) = 2
           /\ Number(TwoBytes(n)) = n
<1> DEFINE s == TwoBytes(n)
           v == Numbers256(s)
<1>1. s \in Seq(Octets) /\ Len(s) = 2 /\ s[1] = (n \div 256) % 256 /\ s[2] = n % 256
  <2>1. (n \div 256) % 256 \in Octets
      BY DEF Octets
  <2>3. n % 256 \in Octets
      BY DEF Octets
  <2> QED
      BY <2>1, <2>3 DEF TwoBytes
<1>6. n = 256 * ((n \div 256) % 256) + (n % 256)
    OBVIOUS
<1> HIDE DEF s
<1>2. /\ v[0] = 0
      /\ \A i \in 1..2 : v[i] = IF v[i - 1] > MaxBuffer THEN v[i - 1]
                                ELSE 256 * v[i - 1] + s[i]
    BY <1>1, Numbers256Are
<1> HIDE DEF v
<1>3. v[1] = s[1]
    BY <1>1, <1>2 DEF MaxBuffer
<1>4. v[2] = 256 * s[1] + s[2]
    BY <1>1, <1>2, <1>3 DEF MaxBuffer
<1>5. Number(s) = v[2]
    BY <1>1 DEF Number, v
<1>7. Number(s) = n
    BY <1>1, <1>4, <1>5, <1>6
<1> QED
    BY <1>1, <1>7 DEF s

LEMMA EightParts ==
    ASSUME NEW n \in Nat, n <= MaxBuffer
    PROVE  LET d == n \div 65536
               b == (n \div 256) % 256
               c == n % 256
           IN  /\ d \in Nat /\ d < 65536 /\ (d \div 256) % 256 = 0 /\ d % 256 = d
               /\ n \div 256 \in Nat /\ n \div 256 < 65536
               /\ n \div 256 = 256 * d + b /\ n = 256 * (n \div 256) + c
               /\ b \in Octets /\ c \in Octets
<1> DEFINE d == n \div 65536
<1>1. d \in Nat /\ d <= 64
    BY DEF MaxBuffer
<1>3. n \div 256 \in Nat /\ n \div 256 < 65536
    BY DEF MaxBuffer
<1>4. (n \div 256) % 256 \in Octets
    BY <1>3 DEF Octets
<1>5. n % 256 \in Octets
    BY DEF Octets
<1>6. n = 256 * (n \div 256) + (n % 256)
    OBVIOUS
<1>7. n \div 256 = 256 * d + ((n \div 256) % 256)
    OBVIOUS
<1> HIDE DEF d
<1>2. (d \div 256) % 256 = 0 /\ d % 256 = d /\ d < 65536
    BY <1>1
<1> QED
    BY <1>1, <1>2, <1>3, <1>4, <1>5, <1>6, <1>7 DEF d

NumberSteps(v, s) ==
    /\ v[0] = 0
    /\ \A i \in 1..Len(s) : v[i - 1] < 65536 => v[i] = 256 * v[i - 1] + s[i]

LEMMA NumberStep ==
    ASSUME NEW s \in Seq(Octets)
    PROVE  NumberSteps(Numbers256(s), s)
<1> DEFINE v == Numbers256(s)
<1> SUFFICES ASSUME NEW i \in 1..Len(s), v[i - 1] < 65536
             PROVE  v[i] = 256 * v[i - 1] + s[i]
    BY Numbers256Are DEF NumberSteps
<1>1. i - 1 \in 0..Len(s)
    OBVIOUS
<1>2. v \in [0..Len(s) -> Nat]
    BY Numbers256Are
<1>3. v[i] = IF v[i - 1] > MaxBuffer THEN v[i - 1] ELSE 256 * v[i - 1] + s[i]
    BY Numbers256Are
<1> HIDE DEF v
<1>4. v[i - 1] \in Nat
    BY <1>1, <1>2
<1>5. ~(v[i - 1] > MaxBuffer)
    BY <1>4 DEF MaxBuffer
<1> QED
    BY <1>3, <1>5

LEMMA NumberOfEight ==
    ASSUME NEW n \in Nat, n <= MaxBuffer
    PROVE  /\ EightBytes(n) \in Seq(Octets) /\ Len(EightBytes(n)) = 8
           /\ Number(EightBytes(n)) = n
<1> DEFINE s == EightBytes(n)
           v == Numbers256(s)
           d == n \div 65536
           b == (n \div 256) % 256
           c == n % 256
<1>1. /\ d \in Nat /\ d < 65536 /\ (d \div 256) % 256 = 0 /\ d % 256 = d
      /\ n \div 256 \in Nat /\ n \div 256 < 65536
      /\ n \div 256 = 256 * d + b /\ n = 256 * (n \div 256) + c
      /\ b \in Octets /\ c \in Octets
    BY EightParts
<1>2. /\ s \in Seq(Octets) /\ Len(s) = 8
      /\ s[1] = 0 /\ s[2] = 0 /\ s[3] = 0 /\ s[4] = 0 /\ s[5] = 0
      /\ s[6] = d /\ s[7] = b /\ s[8] = c
  <2> DEFINE z == <<0, 0, 0, 0>>
             h == TwoBytes(d)
             l == TwoBytes(n)
  <2>1. z \in Seq(Octets) /\ Len(z) = 4 /\ z[1] = 0 /\ z[2] = 0 /\ z[3] = 0 /\ z[4] = 0
      BY DEF Octets
  <2>2. h \in Seq(Octets) /\ Len(h) = 2 /\ h[1] = 0 /\ h[2] = d
    <3>1. h \in Seq(Octets) /\ Len(h) = 2
        BY <1>1, NumberOfTwo
    <3> QED
        BY <1>1, <3>1 DEF TwoBytes
  <2>3. l \in Seq(Octets) /\ Len(l) = 2 /\ l[1] = b /\ l[2] = c
      BY <1>1 DEF TwoBytes
  <2>4. s = (z \o h) \o l
      BY DEF EightBytes
  <2> HIDE DEF z, h, l, s, b, c, d
  <2> DEFINE zh == z \o h
  <2>5. /\ zh \in Seq(Octets) /\ Len(zh) = 6
        /\ \A i \in 1..4 : zh[i] = z[i]
        /\ \A i \in 1..2 : zh[4 + i] = h[i]
    <3>1. Joining(z, h, zh, 4, 2)
        BY <2>1, <2>2 DEF Joining
    <3> HIDE DEF zh
    <3>2. Joint(Octets, z, h, zh, 4, 2)
        BY <2>1, <2>2, <3>1, Joined
    <3> QED
        BY <3>2 DEF Joint
  <2>6. zh[1] = 0 /\ zh[2] = 0 /\ zh[3] = 0 /\ zh[4] = 0 /\ zh[5] = 0 /\ zh[6] = d
    <3>1. zh[4 + 1] = h[1] /\ zh[4 + 2] = h[2]
        BY <2>5
    <3> HIDE DEF zh
    <3> QED
        BY <2>1, <2>2, <2>5, <3>1
  <2> HIDE DEF zh
  <2>7. /\ s \in Seq(Octets) /\ Len(s) = 8
        /\ \A i \in 1..6 : s[i] = zh[i]
        /\ \A i \in 1..2 : s[6 + i] = l[i]
    <3>1. Joining(zh, l, s, 6, 2)
        BY <2>3, <2>4, <2>5 DEF Joining, zh
    <3>2. Joint(Octets, zh, l, s, 6, 2)
        BY <2>3, <2>5, <3>1, Joined
    <3> QED
        BY <3>2 DEF Joint
  <2>8. s[6 + 1] = l[1] /\ s[6 + 2] = l[2]
      BY <2>7
  <2> QED
      BY <2>3, <2>6, <2>7, <2>8
<1> HIDE DEF s
<1>3. v = Numbers256(s) /\ v[0] = 0 /\ Number(s) = v[8]
    BY <1>2, Numbers256Are DEF Number
<1> HIDE DEF v, d, b, c
<1>4. ASSUME NEW i \in 1..8, v[i - 1] < 65536 PROVE v[i] = 256 * v[i - 1] + s[i]
  <2>1. NumberSteps(v, s)
      BY <1>2, <1>3, NumberStep
  <2>2. \A j \in 1..Len(s) : v[j - 1] < 65536 => v[j] = 256 * v[j - 1] + s[j]
      BY <2>1 DEF NumberSteps
  <2>3. i \in 1..Len(s)
      BY <1>2
  <2> QED
      BY <1>4, <2>2, <2>3
<1>5. v[1] = 0
    BY <1>2, <1>3, <1>4
<1>6. v[2] = 0
    BY <1>2, <1>4, <1>5
<1>7. v[3] = 0
    BY <1>2, <1>4, <1>6
<1>8. v[4] = 0
    BY <1>2, <1>4, <1>7
<1>9. v[5] = 0
    BY <1>2, <1>4, <1>8
<1>10. v[6] = d
  <2>1. v[6] = 256 * v[5] + s[6]
      BY <1>4, <1>9
  <2> QED
      BY <1>1, <1>2, <1>9, <2>1
<1>11. v[7] = n \div 256
  <2>1. v[7] = 256 * v[6] + s[7]
      BY <1>1, <1>4, <1>10
  <2> QED
      BY <1>1, <1>2, <1>10, <2>1
<1>12. v[8] = n
  <2>1. v[8] = 256 * v[7] + s[8]
      BY <1>1, <1>4, <1>11
  <2> QED
      BY <1>1, <1>2, <1>11, <2>1
<1> QED
    BY <1>2, <1>3, <1>12 DEF s

LEMMA MaskedTwice ==
    ASSUME NEW s \in Seq(Octets), NEW mask \in Seq(Octets), Len(mask) = 4
    PROVE  /\ Masked(s, mask) \in Seq(Octets) /\ Len(Masked(s, mask)) = Len(s)
           /\ Masked(Masked(s, mask), mask) = s
<1>1. CASE Number(mask) = 0
    BY <1>1 DEF Masked
<1>2. CASE Number(mask) # 0
  <2> DEFINE m(i) == mask[1 + ((i - 1) % 4)]
             t == [i \in 1..Len(s) |-> Xor(s[i], m(i))]
  <2>1. \A i \in 1..Len(s) : m(i) \in Octets /\ s[i] \in Octets
    <3>1. ASSUME NEW i \in 1..Len(s) PROVE 1 + ((i - 1) % 4) \in 1..Len(mask)
        OBVIOUS
    <3> QED
        BY <3>1, OctetsSeq
  <2> HIDE DEF m
  <2>2. \A i \in 1..Len(s) : Xor(s[i], m(i)) \in Octets /\ Xor(Xor(s[i], m(i)), m(i)) = s[i]
      BY <2>1, XorTwice
  <2>3. t \in Seq(Octets) /\ Len(t) = Len(s) /\ \A i \in 1..Len(s) : t[i] = Xor(s[i], m(i))
      BY <2>2
  <2>4. Masked(s, mask) = t
      BY <1>2 DEF Masked, m
  <2> HIDE DEF t
  <2>5. Masked(t, mask) = [i \in 1..Len(s) |-> Xor(t[i], m(i))]
      BY <1>2, <2>3 DEF Masked, m
  <2>6. [i \in 1..Len(s) |-> Xor(t[i], m(i))] = s
      BY <2>2, <2>3
  <2> QED
      BY <2>3, <2>4, <2>5, <2>6
<1> QED
    BY <1>1, <1>2

-----------------------------------------------------------------------------
(***************************************************************************)
(* Frames: from the sender to the receiver.                                *)
(***************************************************************************)
Frames == [opcode : KnownOpcodes, payload : Seq(Octets), fin : BOOLEAN]
Masks == {m \in Seq(Octets) : Len(m) = 4}

(* What the length is in the second byte, and in how many more.            *)
Announced(n, first, extra) ==
    \/ n < 126 /\ first = n /\ extra = <<>>
    \/ n > 125 /\ n < 65536 /\ first = 126 /\ extra = TwoBytes(n)
    \/ n > 65535 /\ n <= MaxBuffer /\ first = 127 /\ extra = EightBytes(n)

LEMMA Behind ==
    ASSUME NEW S, NEW b \in S, NEW r \in Seq(S)
    PROVE  (<<b>> \o r)[1] = b /\ Tail(<<b>> \o r) = r
<1> DEFINE l == <<b>>
           s == l \o r
<1>1. l \in Seq(S) /\ Len(l) = 1 /\ l[1] = b
    OBVIOUS
<1>2. Joining(l, r, s, 1, Len(r))
    BY <1>1 DEF Joining
<1> HIDE DEF l, s
<1>3. Joint(S, l, r, s, 1, Len(r))
    BY <1>1, <1>2, Joined
<1>4. /\ s \in Seq(S) /\ Len(s) = 1 + Len(r) /\ Len(r) \in Nat /\ s[1] = b
      /\ \A i \in 1..Len(r) : s[1 + i] = r[i]
    BY <1>1, <1>3 DEF Joint
<1>5. Tail(s) \in Seq(S) /\ Len(Tail(s)) = Len(r)
      /\ \A i \in 1..Len(r) : Tail(s)[i] = s[1 + i]
    BY <1>4
<1>6. Tail(s) = r
    BY <1>4, <1>5, SeqEqual
<1> QED
    BY <1>4, <1>6 DEF s, l

LEMMA LengthAnnounced ==
    ASSUME NEW n \in Nat, n <= MaxBuffer
    PROVE  /\ Announced(n, LengthBytes(n)[1], Tail(LengthBytes(n)))
           /\ Tail(LengthBytes(n)) \in Seq(Octets)
<1>1. CASE n < 126
  <2>1. LengthBytes(n) = <<n>>
      BY <1>1 DEF LengthBytes
  <2>2. LengthBytes(n)[1] = n /\ Tail(LengthBytes(n)) = <<>>
      BY <2>1
  <2>3. <<>> \in Seq(Octets)
      OBVIOUS
  <2>4. Announced(n, n, <<>>)
      BY <1>1 DEF Announced
  <2> QED
      BY <2>2, <2>3, <2>4
<1>2. CASE n > 125 /\ n < 65536
  <2> DEFINE r == TwoBytes(n)
             b == 126
  <2>1. r \in Seq(Octets) /\ b \in Octets
      BY <1>2, NumberOfTwo DEF Octets
  <2>2. LengthBytes(n) = <<b>> \o r
      BY <1>2 DEF LengthBytes
  <2> HIDE DEF r, b
  <2>3. LengthBytes(n)[1] = b /\ Tail(LengthBytes(n)) = r
      BY <2>1, <2>2, Behind
  <2>4. Announced(n, b, r)
      BY <1>2 DEF Announced, r, b
  <2> QED
      BY <2>1, <2>3, <2>4
<1>3. CASE n > 65535
  <2> DEFINE r == EightBytes(n)
             b == 127
  <2>1. r \in Seq(Octets) /\ b \in Octets
      BY NumberOfEight DEF Octets
  <2>2. LengthBytes(n) = <<b>> \o r
      BY <1>3 DEF LengthBytes
  <2> HIDE DEF r, b
  <2>3. LengthBytes(n)[1] = b /\ Tail(LengthBytes(n)) = r
      BY <2>1, <2>2, Behind
  <2>4. Announced(n, b, r)
      BY <1>3 DEF Announced, r, b
  <2> QED
      BY <2>1, <2>3, <2>4
<1> QED
    BY <1>1, <1>2, <1>3

(* A buffer that begins with a frame: its two bytes of flags, the rest of  *)
(* its length, its mask and its payload as sent, and what follows.         *)
HeadOf(f, client, first) ==
    <<(IF f.fin THEN 128 ELSE 0) + (f.opcode % 16), (IF client THEN 128 ELSE 0) + first>>
Parts(head, extra, mask, payload, after) ==
    (((head \o extra) \o mask) \o payload) \o after

LEMMA HeadType ==
    ASSUME NEW f \in Frames, NEW client \in BOOLEAN, NEW first \in 0..127
    PROVE  LET h == HeadOf(f, client, first)
           IN  /\ h \in Seq(Octets) /\ Len(h) = 2
               /\ h[1] = (IF f.fin THEN 128 ELSE 0) + f.opcode
               /\ h[2] = (IF client THEN 128 ELSE 0) + first
<1> DEFINE x == (IF f.fin THEN 128 ELSE 0) + (f.opcode % 16)
           y == (IF client THEN 128 ELSE 0) + first
<1>1. f.opcode % 16 = f.opcode /\ f.opcode \in 0..15
    BY DEF Frames, KnownOpcodes
<1>2. x \in Octets /\ x = (IF f.fin THEN 128 ELSE 0) + f.opcode
    BY <1>1 DEF Octets
<1>3. y \in Octets
    BY DEF Octets
<1>4. HeadOf(f, client, first) = <<x, y>>
    BY DEF HeadOf
<1> HIDE DEF x, y
<1>5. <<x, y>> \in Seq(Octets) /\ Len(<<x, y>>) = 2 /\ <<x, y>>[1] = x /\ <<x, y>>[2] = y
    BY <1>2, <1>3
<1> QED
    BY <1>2, <1>4, <1>5 DEF y

LEMMA FirstRange ==
    ASSUME NEW n \in Nat, NEW first, NEW extra, Announced(n, first, extra)
    PROVE  first \in 0..127
<1>1. (first = n /\ n < 126) \/ first = 126 \/ first = 127
    BY DEF Announced
<1> QED
    BY <1>1

LEMMA WireParts ==
    ASSUME NEW f \in Frames, NEW client \in BOOLEAN, NEW mask \in Masks,
           Len(f.payload) <= MaxBuffer
    PROVE  LET n == Len(f.payload)
               m == IF client THEN mask ELSE <<>>
               p == IF client THEN Masked(f.payload, mask) ELSE f.payload
               b == LengthBytes(n)
           IN  EncodeFrame(f, client, mask)
                 = ((HeadOf(f, client, b[1]) \o Tail(b)) \o m) \o p
<1> DEFINE n == Len(f.payload)
           b == LengthBytes(n)
           q == Masked(f.payload, mask)
           h == HeadOf(f, client, b[1])
           x == h \o Tail(b)
<1>1. f.payload \in Seq(Octets) /\ n \in Nat /\ n <= MaxBuffer
    BY DEF Frames
<1>2. q \in Seq(Octets) /\ mask \in Seq(Octets)
    BY <1>1, MaskedTwice DEF Masks
<1>3. x \in Seq(Octets)
  <2>1. Tail(b) \in Seq(Octets) /\ Announced(n, b[1], Tail(b))
      BY <1>1, LengthAnnounced
  <2>2. b[1] \in 0..127
      BY <1>1, <2>1, FirstRange
  <2>3. h \in Seq(Octets)
      BY <2>2, HeadType
  <2> HIDE DEF h, b
  <2> QED
      BY <2>1, <2>3
<1>4. EncodeFrame(f, client, mask) = x \o (IF client THEN mask \o q ELSE f.payload)
    BY DEF EncodeFrame, HeadOf
<1>5. CASE client
  <2> HIDE DEF x, q, n, b
  <2>1. Associate(x, mask, q)
      BY <1>2, <1>3, ConcatAssociative DEF Associate
  <2>2. x \o (mask \o q) = (x \o mask) \o q
      BY <2>1 DEF Associate
  <2> QED
      BY <1>4, <1>5, <2>2 DEF n, b, q, x
<1>6. CASE ~client
  <2>1. x \o <<>> = x
    <3> HIDE DEF x
    <3> QED
        BY <1>3
  <2> QED
      BY <1>4, <1>6, <2>1
<1> QED
    BY <1>5, <1>6

LEMMA WireIs ==
    ASSUME NEW f \in Frames, NEW client \in BOOLEAN, NEW mask \in Masks,
           Len(f.payload) <= MaxBuffer
    PROVE  EncodeFrame(f, client, mask) \in Seq(Octets)
<1> DEFINE n == Len(f.payload)
           b == LengthBytes(n)
           h == HeadOf(f, client, b[1])
           e == Tail(b)
           m == IF client THEN mask ELSE <<>>
           p == IF client THEN Masked(f.payload, mask) ELSE f.payload
<1>1. f.payload \in Seq(Octets) /\ n \in Nat /\ n <= MaxBuffer
    BY DEF Frames
<1>2. e \in Seq(Octets) /\ Announced(n, b[1], e)
    BY <1>1, LengthAnnounced
<1>3. b[1] \in 0..127
    BY <1>1, <1>2, FirstRange
<1>4. h \in Seq(Octets)
    BY <1>3, HeadType
<1>5. m \in Seq(Octets) /\ p \in Seq(Octets)
  <2>1. Masked(f.payload, mask) \in Seq(Octets) /\ mask \in Seq(Octets)
      BY <1>1, MaskedTwice DEF Masks
  <2>2. CASE client
      BY <2>1, <2>2
  <2>3. CASE ~client
    <3>1. m = <<>> /\ p = f.payload
        BY <2>3
    <3> HIDE DEF m, p
    <3> QED
        BY <1>1, <3>1
  <2> QED
      BY <2>2, <2>3
<1>6. EncodeFrame(f, client, mask) = ((h \o e) \o m) \o p
    BY WireParts
<1> HIDE DEF h, e, m, p
<1> QED
    BY <1>2, <1>4, <1>5, <1>6

(* Where the parts are, x, m and n being their lengths.                    *)
Layout(buf, head, extra, mask, payload, after, x, m, n) ==
    /\ Len(buf) = 2 + x + m + n + Len(after)
    /\ buf[1] = head[1] /\ buf[2] = head[2]
    /\ SubSeq(buf, 3, 2 + x) = extra
    /\ SubSeq(buf, 2 + x + 1, 2 + x + m) = mask
    /\ SubSeq(buf, 2 + x + m + 1, 2 + x + m + n) = payload
    /\ SubSeq(buf, 2 + x + m + n + 1, Len(buf)) = after

LEMMA BytesOfParts ==
    ASSUME NEW S, NEW head \in Seq(S), Len(head) = 2, NEW extra \in Seq(S),
           NEW mask \in Seq(S), NEW payload \in Seq(S), NEW after \in Seq(S),
           NEW buf, buf = Parts(head, extra, mask, payload, after)
    PROVE  /\ buf \in Seq(S)
           /\ Layout(buf, head, extra, mask, payload, after,
                     Len(extra), Len(mask), Len(payload))
<1> DEFINE a == head \o extra
           b == a \o mask
           c == b \o payload
           x == Len(extra)
           m == Len(mask)
           n == Len(payload)
           l == Len(after)
           A == 2 + x
           B == A + m
           C == B + n
<1>1. x \in Nat /\ m \in Nat /\ n \in Nat /\ l \in Nat
    OBVIOUS
<1>2. A \in Nat /\ B \in Nat /\ C \in Nat /\ 2 <= A /\ A <= B /\ B <= C
    BY <1>1
<1>3. buf = c \o after
    BY DEF Parts
<1> HIDE DEF l, x, m, n
<1>4. /\ a \in Seq(S) /\ Len(a) = A
      /\ \A i \in 1..2 : a[i] = head[i]
      /\ \A i \in 1..x : a[2 + i] = extra[i]
  <2>1. Joining(head, extra, a, 2, x)
      BY DEF Joining, x
  <2> HIDE DEF a
  <2>2. Joint(S, head, extra, a, 2, x)
      BY <2>1, Joined
  <2> QED
      BY <2>2 DEF Joint
<1>5. /\ b \in Seq(S) /\ Len(b) = B
      /\ \A i \in 1..A : b[i] = a[i]
      /\ \A i \in 1..m : b[A + i] = mask[i]
  <2> HIDE DEF a, A
  <2>1. Joining(a, mask, b, A, m)
      BY <1>4 DEF Joining, m
  <2> HIDE DEF b
  <2>2. Joint(S, a, mask, b, A, m)
      BY <1>4, <2>1, Joined
  <2> QED
      BY <2>2 DEF Joint
<1>6. /\ c \in Seq(S) /\ Len(c) = C
      /\ \A i \in 1..B : c[i] = b[i]
      /\ \A i \in 1..n : c[B + i] = payload[i]
  <2> HIDE DEF b, B
  <2>1. Joining(b, payload, c, B, n)
      BY <1>5 DEF Joining, n
  <2> HIDE DEF c
  <2>2. Joint(S, b, payload, c, B, n)
      BY <1>5, <2>1, Joined
  <2> QED
      BY <2>2 DEF Joint
<1>7. /\ buf \in Seq(S) /\ Len(buf) = C + l
      /\ \A i \in 1..C : buf[i] = c[i]
      /\ \A i \in 1..l : buf[C + i] = after[i]
  <2> HIDE DEF c, C
  <2>1. Joining(c, after, buf, C, l)
      BY <1>3, <1>6 DEF Joining, l
  <2>2. Joint(S, c, after, buf, C, l)
      BY <1>6, <2>1, Joined
  <2> QED
      BY <2>2 DEF Joint
<1> HIDE DEF a, b, c, A, B, C
<1>8. buf[1] = head[1] /\ buf[2] = head[2]
  <2>1. \A i \in 1..2 : i \in 1..A /\ i \in 1..B /\ i \in 1..C
      BY <1>2
  <2>2. \A i \in 1..2 : buf[i] = head[i]
      BY <1>4, <1>5, <1>6, <1>7, <2>1
  <2> QED
      BY <2>2
<1>9. SubSeq(buf, 2 + 1, 2 + x) = extra
  <2>1. ASSUME NEW i \in 1..x PROVE buf[2 + i] = extra[i]
    <3>1. 2 + i \in 1..A /\ 2 + i \in 1..B /\ 2 + i \in 1..C
        BY <1>1, <1>2 DEF A
    <3> QED
        BY <1>4, <1>5, <1>6, <1>7, <3>1
  <2>2. 2 + x <= Len(buf)
      BY <1>1, <1>2, <1>7 DEF A
  <2>3. x = Len(extra)
      BY DEF x
  <2> QED
      BY <1>7, <2>1, <2>2, <2>3, Slice
<1>10. SubSeq(buf, A + 1, A + m) = mask
  <2>1. ASSUME NEW i \in 1..m PROVE buf[A + i] = mask[i]
    <3>1. A + i \in 1..B /\ A + i \in 1..C
        BY <1>1, <1>2 DEF B
    <3> QED
        BY <1>5, <1>6, <1>7, <3>1
  <2>2. A + m <= Len(buf)
      BY <1>1, <1>2, <1>7 DEF B
  <2>3. m = Len(mask)
      BY DEF m
  <2> QED
      BY <1>2, <1>7, <2>1, <2>2, <2>3, Slice
<1>11. SubSeq(buf, B + 1, B + n) = payload
  <2>1. ASSUME NEW i \in 1..n PROVE buf[B + i] = payload[i]
    <3>1. B + i \in 1..C
        BY <1>1, <1>2 DEF C
    <3> QED
        BY <1>6, <1>7, <3>1
  <2>2. B + n <= Len(buf)
      BY <1>1, <1>2, <1>7 DEF C
  <2>3. n = Len(payload) /\ B \in Nat
      BY <1>2 DEF n
  <2> QED
      BY <1>7, <2>1, <2>2, <2>3, Slice
<1>12. SubSeq(buf, C + 1, C + l) = after
  <2>1. C + l <= Len(buf) /\ l = Len(after)
      BY <1>1, <1>2, <1>7 DEF l
  <2> QED
      BY <1>2, <1>7, <2>1, Slice
<1>13. SubSeq(buf, 3, 2 + x) = extra
    BY <1>9
<1> QED
  <2>1. Layout(buf, head, extra, mask, payload, after, x, m, n)
      BY <1>7, <1>8, <1>10, <1>11, <1>12, <1>13 DEF Layout, A, B, C, l
  <2> QED
      BY <1>7, <2>1 DEF x, m, n

(* What the decoder sees of a frame that has come, and behind it.          *)
Seen(buf, f, client, mask, after) ==
    LET n == Len(f.payload)
        start == HeaderLength(buf)
    IN  /\ buf \in Seq(Octets) /\ start \in Nat /\ start >= 2
        /\ Len(buf) = start + n + Len(after)
        /\ Rsv(buf) = 0 /\ (HasMask(buf) <=> client)
        /\ buf[1] % 16 = f.opcode /\ (f.fin <=> buf[1] > 127)
        /\ PayloadLength(buf) = n
        /\ client => MaskOf(buf) = mask
        /\ ~client => MaskOf(buf) = <<0, 0, 0, 0>>
        /\ SubSeq(buf, start + 1, start + n)
             = IF client THEN Masked(f.payload, mask) ELSE f.payload
        /\ SubSeq(buf, start + n + 1, Len(buf)) = after

LEMMA FlagsSeen ==
    ASSUME NEW buf, NEW fin, NEW opcode \in 0..15,
           buf[1] = (IF fin THEN 128 ELSE 0) + opcode
    PROVE  Rsv(buf) = 0 /\ buf[1] % 16 = opcode /\ (fin <=> buf[1] > 127)
<1>1. CASE fin
  <2>1. buf[1] = 128 + opcode
      BY <1>1
  <2>2. (128 + opcode) \div 16 = 8 /\ (128 + opcode) % 16 = opcode
      OBVIOUS
  <2> QED
      BY <1>1, <2>1, <2>2 DEF Rsv
<1>2. CASE ~fin
  <2>1. buf[1] = opcode
      BY <1>2
  <2>2. opcode \div 16 = 0 /\ opcode % 16 = opcode
      OBVIOUS
  <2> QED
      BY <1>2, <2>1, <2>2 DEF Rsv
<1> QED
    BY <1>1, <1>2

LEMMA LengthSeen ==
    ASSUME NEW buf, NEW client, NEW first \in 0..127,
           buf[2] = (IF client THEN 128 ELSE 0) + first
    PROVE  (HasMask(buf) <=> client) /\ buf[2] % 128 = first
<1>1. CASE client
  <2>1. buf[2] = 128 + first
      BY <1>1
  <2>2. (128 + first) % 128 = first
      OBVIOUS
  <2> QED
      BY <1>1, <2>1, <2>2 DEF HasMask
<1>2. CASE ~client
  <2>1. buf[2] = first
      BY <1>2
  <2>2. first % 128 = first
      OBVIOUS
  <2> QED
      BY <1>2, <2>1, <2>2 DEF HasMask
<1> QED
    BY <1>1, <1>2

LEMMA LengthRead ==
    ASSUME NEW buf, NEW n \in Nat, NEW first, NEW extra, NEW x, x = Len(extra),
           Announced(n, first, extra), buf[2] % 128 = first,
           SubSeq(buf, 3, 2 + x) = extra
    PROVE  ExtraLength(buf) = x /\ PayloadLength(buf) = n
<1>1. CASE n < 126 /\ first = n /\ extra = <<>>
  <2>1. x = 0 /\ ExtraLength(buf) = 0
      BY <1>1 DEF ExtraLength
  <2> QED
      BY <1>1, <2>1 DEF PayloadLength
<1>2. CASE n > 125 /\ n < 65536 /\ first = 126 /\ extra = TwoBytes(n)
  <2>1. x = 2 /\ Number(extra) = n
    <3>1. n \in Nat /\ n < 65536 /\ extra = TwoBytes(n)
        BY <1>2
    <3>2. Len(TwoBytes(n)) = 2
        BY DEF TwoBytes
    <3>3. Number(TwoBytes(n)) = n
        BY <3>1, NumberOfTwo
    <3> QED
        BY <3>1, <3>2, <3>3
  <2>2. ~(126 < 126)
      OBVIOUS
  <2>3. ExtraLength(buf) = 2
      BY <1>2, <2>2 DEF ExtraLength
  <2>4. PayloadLength(buf) = Number(SubSeq(buf, 3, 2 + x))
      BY <2>1, <2>3 DEF PayloadLength
  <2> QED
      BY <2>1, <2>3, <2>4
<1>3. CASE n > 65535 /\ n <= MaxBuffer /\ first = 127 /\ extra = EightBytes(n)
  <2>1. x = 8 /\ Number(extra) = n
    <3>1. n <= MaxBuffer /\ extra = EightBytes(n)
        BY <1>3
    <3>2. Len(EightBytes(n)) = 8 /\ Number(EightBytes(n)) = n
        BY <3>1, NumberOfEight
    <3> QED
        BY <3>1, <3>2
  <2>2. ~(127 < 126) /\ 127 # 126
      OBVIOUS
  <2>3. ExtraLength(buf) = 8
      BY <1>3, <2>2 DEF ExtraLength
  <2>4. PayloadLength(buf) = Number(SubSeq(buf, 3, 2 + x))
      BY <2>1, <2>3 DEF PayloadLength
  <2> QED
      BY <2>1, <2>3, <2>4
<1> QED
    BY <1>1, <1>2, <1>3 DEF Announced

LEMMA FrameSeen ==
    ASSUME NEW f \in Frames, NEW client \in BOOLEAN, NEW mask \in Masks,
           Len(f.payload) <= MaxBuffer, NEW after \in Seq(Octets),
           NEW buf, buf = EncodeFrame(f, client, mask) \o after
    PROVE  Seen(buf, f, client, mask, after)
<1> DEFINE n == Len(f.payload)
           first == LengthBytes(n)[1]
           extra == Tail(LengthBytes(n))
           head == HeadOf(f, client, first)
           k == IF client THEN mask ELSE <<>>
           p == IF client THEN Masked(f.payload, mask) ELSE f.payload
           x == Len(extra)
           m == Len(k)
           start == HeaderLength(buf)
<1>1. f.payload \in Seq(Octets) /\ n \in Nat /\ n <= MaxBuffer /\ f.opcode \in 0..15
    BY DEF Frames, KnownOpcodes
<1>2. Announced(n, first, extra) /\ extra \in Seq(Octets)
    BY <1>1, LengthAnnounced
<1>3. first \in 0..127
    BY <1>1, <1>2, FirstRange
<1>4. p \in Seq(Octets) /\ Len(p) = n
    BY <1>1, MaskedTwice DEF Masks
<1>5. k \in Seq(Octets) /\ (client => k = mask /\ m = 4) /\ (~client => m = 0)
  <2>1. CASE client
      BY <2>1 DEF Masks
  <2>2. CASE ~client
    <3>1. k = <<>>
        BY <2>2
    <3> QED
        BY <2>2, <3>1
  <2> QED
      BY <2>1, <2>2
<1>6. buf = Parts(head, extra, k, p, after)
    BY WireParts DEF Parts
<1>7. /\ head \in Seq(Octets) /\ Len(head) = 2
      /\ head[1] = (IF f.fin THEN 128 ELSE 0) + f.opcode
      /\ head[2] = (IF client THEN 128 ELSE 0) + first
  <2> HIDE DEF first
  <2> QED
      BY <1>3, HeadType
<1> HIDE DEF extra, first, k, p, head
<1>9. x \in Nat /\ m \in Nat
    BY <1>2, <1>5
<1>10. /\ buf \in Seq(Octets) /\ Len(buf) = 2 + x + m + n + Len(after)
       /\ buf[1] = head[1] /\ buf[2] = head[2]
       /\ SubSeq(buf, 3, 2 + x) = extra
       /\ SubSeq(buf, 2 + x + 1, 2 + x + m) = k
       /\ SubSeq(buf, 2 + x + m + 1, 2 + x + m + n) = p
       /\ SubSeq(buf, 2 + x + m + n + 1, Len(buf)) = after
  <2> HIDE DEF n
  <2>1. buf \in Seq(Octets) /\ Layout(buf, head, extra, k, p, after, x, m, Len(p))
      BY <1>2, <1>4, <1>5, <1>6, <1>7, BytesOfParts
  <2> HIDE DEF x, m
  <2>2. Layout(buf, head, extra, k, p, after, x, m, n)
      BY <1>4, <2>1
  <2> QED
      BY <2>1, <2>2 DEF Layout
<1>11. Rsv(buf) = 0 /\ buf[1] % 16 = f.opcode /\ (f.fin <=> buf[1] > 127)
  <2> DEFINE fin == f.fin
             opcode == f.opcode
  <2>1. buf[1] = (IF fin THEN 128 ELSE 0) + opcode /\ opcode \in 0..15
      BY <1>1, <1>7, <1>10
  <2> HIDE DEF fin, opcode
  <2>2. Rsv(buf) = 0 /\ buf[1] % 16 = opcode /\ (fin <=> buf[1] > 127)
      BY <2>1, FlagsSeen
  <2> QED
      BY <2>2 DEF fin, opcode
<1>12. (HasMask(buf) <=> client) /\ buf[2] % 128 = first
  <2>1. buf[2] = (IF client THEN 128 ELSE 0) + first
      BY <1>7, <1>10
  <2> QED
      BY <1>3, <2>1, LengthSeen
<1>13. ExtraLength(buf) = x /\ PayloadLength(buf) = n
  <2> HIDE DEF x, n
  <2>1. x = Len(extra)
      BY DEF x
  <2> QED
      BY <1>1, <1>2, <1>10, <1>12, <2>1, LengthRead
<1> HIDE DEF n, x, m
<1>14. start = 2 + x + m
    BY <1>5, <1>9, <1>12, <1>13 DEF HeaderLength
<1>15. client => MaskOf(buf) = mask
  <2> SUFFICES ASSUME client PROVE MaskOf(buf) = mask
      OBVIOUS
  <2>1. m = 4 /\ k = mask /\ HasMask(buf)
      BY <1>5, <1>12
  <2> HIDE DEF start
  <2>2. start = 2 + x + m /\ start - 3 = 2 + x + 1
      BY <1>9, <1>14, <2>1
  <2> USE DEF start
  <2> QED
      BY <1>10, <2>1, <2>2 DEF MaskOf
<1>16. ~client => MaskOf(buf) = <<0, 0, 0, 0>>
    BY <1>12 DEF MaskOf
<1>17. start \in Nat /\ start >= 2
    BY <1>9, <1>14
<1>18. /\ SubSeq(buf, start + 1, start + n) = p
       /\ SubSeq(buf, start + n + 1, Len(buf)) = after
       /\ Len(buf) = start + n + Len(after)
    BY <1>10, <1>14
<1> QED
    BY <1>10, <1>11, <1>12, <1>13, <1>15, <1>16, <1>17, <1>18 DEF Seen, n, p

LEMMA ZeroMask == Number(<<0, 0, 0, 0>>) = 0
<1> DEFINE z == <<0, 0, 0, 0>>
           v == Numbers256(z)
<1>1. z \in Seq(Octets) /\ Len(z) = 4 /\ \A i \in 1..4 : z[i] = 0
    BY DEF Octets
<1> HIDE DEF z
<1>2. v[0] = 0 /\ \A i \in 1..4 : v[i - 1] < 65536 => v[i] = 256 * v[i - 1] + z[i]
  <2>1. NumberSteps(v, z) /\ 1..Len(z) = 1..4
      BY <1>1, NumberStep
  <2> HIDE DEF v
  <2> QED
      BY <2>1 DEF NumberSteps
<1>3. Number(z) = v[4]
    BY <1>1 DEF Number
<1> HIDE DEF v
<1>4. v[1] = 0
    BY <1>1, <1>2
<1>5. v[2] = 0
    BY <1>1, <1>2, <1>4
<1>6. v[3] = 0
    BY <1>1, <1>2, <1>5
<1>7. v[4] = 0
    BY <1>1, <1>2, <1>6
<1> QED
    BY <1>3, <1>7 DEF z

Decoded(buf, f, client, after) ==
    DecodeFrame(buf, ~client) = [ok |-> TRUE, frame |-> Some(f), rest |-> after]
Refused(buf) == ~DecodeFrame(buf, TRUE).ok

LEMMA FrameDecoded ==
    ASSUME NEW f \in Frames, NEW client \in BOOLEAN, NEW mask \in Masks,
           NEW after \in Seq(Octets), NEW buf, Seen(buf, f, client, mask, after)
    PROVE  Decoded(buf, f, client, after) /\ (client => Refused(buf))
<1> DEFINE n == Len(f.payload)
           start == HeaderLength(buf)
           p == SubSeq(buf, start + 1, start + n)
<1>1. /\ f.payload \in Seq(Octets) /\ n \in Nat /\ f.opcode \in KnownOpcodes
      /\ f.fin \in BOOLEAN
      /\ f = [opcode |-> f.opcode, payload |-> f.payload, fin |-> f.fin]
    BY DEF Frames
<1>2. /\ start \in Nat /\ start >= 2 /\ Len(after) \in Nat
      /\ Len(buf) = start + n + Len(after)
      /\ Rsv(buf) = 0 /\ (HasMask(buf) <=> client)
      /\ buf[1] % 16 = f.opcode /\ (f.fin <=> buf[1] > 127)
      /\ PayloadLength(buf) = n
      /\ SubSeq(buf, start + n + 1, Len(buf)) = after
  <2>1. Len(after) \in Nat
      OBVIOUS
  <2> QED
      BY <2>1, Zenon DEF Seen
<1>3. Masked(p, MaskOf(buf)) = f.payload
  <2>1. CASE client
    <3>1. p = Masked(f.payload, mask) /\ MaskOf(buf) = mask
        BY <2>1 DEF Seen
    <3> HIDE DEF p
    <3> QED
        BY <1>1, <3>1, MaskedTwice DEF Masks
  <2>2. CASE ~client
    <3>1. p = f.payload /\ MaskOf(buf) = <<0, 0, 0, 0>>
        BY <2>2 DEF Seen
    <3> HIDE DEF p
    <3> QED
        BY <3>1, ZeroMask DEF Masked
  <2> QED
      BY <2>1, <2>2
<1>4. FrameOf(buf) = f
  <2>1. (buf[1] > 127) = f.fin
    <3>1. CASE f.fin = TRUE
        BY <1>2, <3>1, Zenon
    <3>2. CASE f.fin = FALSE
      <4>1. ~(buf[1] > 127)
          BY <1>2, <3>2
      <4>2. (buf[1] > 127) = FALSE
          BY <4>1
      <4> QED
          BY <3>2, <4>2
    <3> QED
        BY <1>1, <3>1, <3>2, Zenon
  <2>2. FrameOf(buf) = Frame(f.opcode, f.payload, f.fin)
      BY <1>2, <1>3, <2>1 DEF FrameOf
  <2> QED
      BY <1>1, <2>2 DEF Frame
<1> HIDE DEF start, n, p
<1>5. Whole(buf) /\ Len(buf) >= 2
  <2>1. Len(buf) >= 2 /\ Len(buf) >= start /\ Len(buf) - start >= n
      BY <1>1, <1>2
  <2> QED
      BY <1>2, <2>1 DEF Whole, start
<1>6. ~InvalidHeader(buf, ~client)
    BY <1>1, <1>2 DEF InvalidHeader
<1>7. DecodeFrame(buf, ~client) =
        [ok |-> TRUE, frame |-> Some(FrameOf(buf)),
         rest |-> SubSeq(buf, start + n + 1, Len(buf))]
    BY <1>2, <1>5, <1>6 DEF DecodeFrame, start
<1>8. ASSUME client PROVE Refused(buf)
  <2>1. InvalidHeader(buf, TRUE)
      BY <1>2, <1>8 DEF InvalidHeader
  <2> QED
      BY <1>5, <2>1 DEF DecodeFrame, Refused
<1> QED
    BY <1>2, <1>4, <1>7, <1>8 DEF Decoded

-----------------------------------------------------------------------------
(***************************************************************************)
(* Frames: what is read ahead changes nothing.                             *)
(***************************************************************************)
(* What a decoder that has only the first bytes sees of them.              *)
Beginning(pre, bytes, k) ==
    /\ k \in 0..Len(bytes) /\ pre = SubSeq(bytes, 1, k)
    /\ pre \in Seq(Octets) /\ Len(pre) = k
    /\ \A i \in 1..k : pre[i] = bytes[i]

LEMMA Begins ==
    ASSUME NEW bytes \in Seq(Octets), NEW k \in 0..Len(bytes)
    PROVE  Beginning(SubSeq(bytes, 1, k), bytes, k)
    BY DEF Beginning

LEMMA SliceKept ==
    ASSUME NEW bytes \in Seq(Octets), NEW pre, NEW k, Beginning(pre, bytes, k),
           NEW at \in Nat, NEW n \in Nat, at + n <= k
    PROVE  SubSeq(pre, at + 1, at + n) = SubSeq(bytes, at + 1, at + n)
<1> DEFINE t == SubSeq(bytes, at + 1, at + n)
<1>1. k \in 0..Len(bytes) /\ Len(bytes) \in Nat /\ pre \in Seq(Octets) /\ Len(pre) = k
    BY DEF Beginning
<1>2. t \in Seq(Octets) /\ Len(t) = n /\ \A i \in 1..n : t[i] = bytes[at + i]
    BY <1>1
<1>3. \A i \in 1..n : pre[at + i] = t[i]
  <2>1. \A i \in 1..n : at + i \in 1..k
      BY <1>1
  <2> QED
      BY <1>2, <2>1 DEF Beginning
<1> HIDE DEF t
<1>4. SubSeq(pre, at + 1, at + n) = t
    BY <1>1, <1>2, <1>3, Slice
<1> QED
    BY <1>4 DEF t

LEMMA RestKept ==
    ASSUME NEW bytes \in Seq(Octets), NEW pre, NEW k, Beginning(pre, bytes, k),
           NEW at \in Nat, at <= k
    PROVE  SubSeq(bytes, at + 1, Len(bytes))
             = SubSeq(pre, at + 1, Len(pre)) \o SubSeq(bytes, k + 1, Len(bytes))
<1> DEFINE N == Len(bytes)
           a == SubSeq(pre, at + 1, Len(pre))
           b == SubSeq(bytes, k + 1, N)
           c == SubSeq(bytes, at + 1, N)
           d == a \o b
           m == k - at
           n == N - k
<1>1. /\ k \in Nat /\ N \in Nat /\ k <= N /\ m \in Nat /\ n \in Nat
      /\ pre \in Seq(Octets) /\ Len(pre) = k
    BY DEF Beginning
<1>2. a \in Seq(Octets) /\ Len(a) = m /\ \A i \in 1..m : a[i] = pre[at + i]
    BY <1>1
<1>3. b \in Seq(Octets) /\ Len(b) = n /\ \A i \in 1..n : b[i] = bytes[k + i]
    BY <1>1
<1>4. c \in Seq(Octets) /\ Len(c) = m + n /\ \A i \in 1..m + n : c[i] = bytes[at + i]
    BY <1>1
<1> HIDE DEF a, b, c
<1>5. Joint(Octets, a, b, d, m, n)
  <2>1. Joining(a, b, d, m, n)
      BY <1>2, <1>3 DEF Joining
  <2> HIDE DEF d
  <2> QED
      BY <1>2, <1>3, <2>1, Joined
<1> HIDE DEF d
<1>6. d \in Seq(Octets) /\ Len(d) = m + n
      /\ (\A i \in 1..m : d[i] = a[i]) /\ (\A i \in 1..n : d[m + i] = b[i])
    BY <1>5 DEF Joint
<1>7. ASSUME NEW i \in 1..m + n PROVE c[i] = d[i]
  <2>1. CASE i \in 1..m
    <3>1. at + i \in 1..k
        BY <1>1, <2>1
    <3>2. pre[at + i] = bytes[at + i]
        BY <3>1 DEF Beginning
    <3> QED
        BY <1>2, <1>4, <1>6, <2>1, <3>2
  <2>2. CASE i > m
    <3> DEFINE j == i - m
    <3>1. j \in 1..n /\ i = m + j /\ k + j = at + i
        BY <1>1, <2>2
    <3> HIDE DEF j
    <3>2. d[i] = b[j] /\ b[j] = bytes[k + j]
        BY <1>3, <1>6, <3>1
    <3> QED
        BY <1>4, <3>1, <3>2
  <2> QED
      BY <1>1, <2>1, <2>2
<1>8. c = d
    BY <1>4, <1>6, <1>7, SeqEqual
<1> QED
    BY <1>8 DEF a, b, c, d

LEMMA HeaderKept ==
    ASSUME NEW pre, NEW bytes, pre[1] = bytes[1], pre[2] = bytes[2]
    PROVE  /\ HasMask(pre) = HasMask(bytes) /\ ExtraLength(pre) = ExtraLength(bytes)
           /\ HeaderLength(pre) = HeaderLength(bytes)
           /\ \A client : InvalidHeader(pre, client) <=> InvalidHeader(bytes, client)
    BY DEF HasMask, ExtraLength, HeaderLength, InvalidHeader, Rsv

LEMMA HeaderSizes ==
    ASSUME NEW buf \in Seq(Octets), Len(buf) >= 2
    PROVE  /\ ExtraLength(buf) \in Nat /\ HeaderLength(buf) \in Nat
           /\ HeaderLength(buf) >= 2 + ExtraLength(buf)
           /\ HasMask(buf) => HeaderLength(buf) >= 6
           /\ Len(buf) >= HeaderLength(buf) => PayloadLength(buf) \in Nat
<1>1. buf[2] \in Nat /\ buf[2] % 128 \in Nat
    BY OctetsSeq
<1>2. ExtraLength(buf) \in {0, 2, 8}
    BY DEF ExtraLength
<1>3. /\ HeaderLength(buf) \in Nat /\ HeaderLength(buf) >= 2 + ExtraLength(buf)
      /\ HasMask(buf) => HeaderLength(buf) >= 6
    BY <1>2 DEF HeaderLength
<1>4. ASSUME Len(buf) >= HeaderLength(buf) PROVE PayloadLength(buf) \in Nat
  <2>1. SubSeq(buf, 3, 2 + ExtraLength(buf)) \in Seq(Octets)
      BY <1>2, <1>3, <1>4
  <2> DEFINE t == SubSeq(buf, 3, 2 + ExtraLength(buf))
  <2> HIDE DEF t
  <2>2. Number(t) \in Nat
      BY <2>1, NumberType DEF t
  <2> QED
      BY <1>1, <2>2 DEF PayloadLength, t
<1> QED
    BY <1>2, <1>3, <1>4

(* The three answers of the decoder.                                       *)
Answered(buf, client) ==
    LET d == DecodeFrame(buf, client)
    IN  \/ /\ Len(buf) >= 2 /\ InvalidHeader(buf, client)
           /\ d = [ok |-> FALSE, frame |-> None, rest |-> buf]
        \/ /\ ~(Len(buf) >= 2 /\ InvalidHeader(buf, client))
           /\ d = [ok |-> TRUE, frame |-> None, rest |-> buf]
        \/ /\ ~(Len(buf) >= 2 /\ InvalidHeader(buf, client)) /\ Whole(buf)
           /\ d = [ok |-> TRUE, frame |-> Some(FrameOf(buf)),
                   rest |-> SubSeq(buf, HeaderLength(buf) + PayloadLength(buf) + 1,
                                   Len(buf))]

LEMMA Answers ==
    ASSUME NEW buf, NEW client
    PROVE  Answered(buf, client)
    BY DEF Answered, DecodeFrame

LEMMA WholeKept ==
    ASSUME NEW bytes \in Seq(Octets), NEW pre, NEW k, Beginning(pre, bytes, k),
           Whole(pre)
    PROVE  /\ Whole(bytes) /\ FrameOf(pre) = FrameOf(bytes)
           /\ HeaderLength(pre) = HeaderLength(bytes)
           /\ PayloadLength(pre) = PayloadLength(bytes)
           /\ HeaderLength(pre) + PayloadLength(pre) \in Nat
           /\ HeaderLength(pre) + PayloadLength(pre) <= k
<1> DEFINE e == ExtraLength(pre)
           h == HeaderLength(pre)
           n == PayloadLength(pre)
<1>1. k \in 0..Len(bytes) /\ Len(bytes) \in Nat /\ pre \in Seq(Octets) /\ Len(pre) = k
    BY DEF Beginning
<1>2. k >= 2 /\ k >= h /\ k - h >= n
    BY <1>1 DEF Whole
<1>3. pre[1] = bytes[1] /\ pre[2] = bytes[2]
    BY <1>1, <1>2 DEF Beginning
<1>4. /\ HasMask(pre) = HasMask(bytes) /\ e = ExtraLength(bytes)
      /\ h = HeaderLength(bytes)
    BY <1>3, HeaderKept
<1>5. e \in Nat /\ h \in Nat /\ h >= 2 + e /\ (HasMask(pre) => h >= 6) /\ n \in Nat
    BY <1>1, <1>2, HeaderSizes
<1> HIDE DEF h, e
<1>6. n = PayloadLength(bytes)
  <2> DEFINE at == 2
  <2>1. at \in Nat /\ at + e <= k /\ at + 1 = 3 /\ at + e = 2 + e
      BY <1>1, <1>2, <1>5
  <2> HIDE DEF at
  <2>4. e \in Nat
      BY <1>5
  <2> HIDE DEF n
  <2>3. SubSeq(pre, at + 1, at + e) = SubSeq(bytes, at + 1, at + e)
      BY <2>1, <2>4, SliceKept
  <2> USE DEF n
  <2>2. SubSeq(pre, 3, 2 + e) = SubSeq(bytes, 3, 2 + e)
      BY <2>1, <2>3
  <2> QED
      BY <1>3, <1>4, <2>2 DEF PayloadLength, e
<1> HIDE DEF n
<1>7. MaskOf(pre) = MaskOf(bytes)
  <2>1. CASE HasMask(pre)
    <3> DEFINE four == 4
               at == h - four
    <3>1. /\ four \in Nat /\ at \in Nat /\ at + four = h /\ at + four <= k
          /\ at + 1 = h - 3
        BY <1>1, <1>2, <1>5, <2>1
    <3> HIDE DEF at, four
    <3>2. SubSeq(pre, at + 1, at + four) = SubSeq(bytes, at + 1, at + four)
        BY <3>1, SliceKept
    <3> QED
        BY <1>4, <2>1, <3>1, <3>2 DEF MaskOf, h
  <2>2. CASE ~HasMask(pre)
      BY <1>4, <2>2 DEF MaskOf
  <2> QED
      BY <2>1, <2>2
<1>8. h + n <= k
    BY <1>1, <1>2, <1>5
<1>9. SubSeq(pre, h + 1, h + n) = SubSeq(bytes, h + 1, h + n)
  <2>1. h \in Nat /\ n \in Nat
      BY <1>5
  <2> QED
      BY <1>8, <2>1, SliceKept
<1>10. FrameOf(pre) = FrameOf(bytes)
    BY <1>3, <1>4, <1>6, <1>7, <1>9 DEF FrameOf, h, n
<1>11. Whole(bytes)
  <2>1. Len(bytes) >= 2 /\ Len(bytes) >= h /\ Len(bytes) - h >= n
      BY <1>1, <1>2, <1>5
  <2> QED
      BY <1>4, <1>6, <2>1 DEF Whole
<1> QED
    BY <1>4, <1>5, <1>6, <1>8, <1>10, <1>11 DEF h, n

Stable(pre, bytes, k, client) ==
    LET first == DecodeFrame(pre, client)
        whole == DecodeFrame(bytes, client)
    IN  /\ ~first.ok => ~whole.ok
        /\ first.frame # None =>
             /\ whole.ok /\ whole.frame = first.frame
             /\ whole.rest = first.rest \o SubSeq(bytes, k + 1, Len(bytes))

LEMMA PrefixStable ==
    ASSUME NEW bytes \in Seq(Octets), NEW client, NEW pre, NEW k,
           Beginning(pre, bytes, k)
    PROVE  Stable(pre, bytes, k, client)
<1> DEFINE first == DecodeFrame(pre, client)
           whole == DecodeFrame(bytes, client)
           at == HeaderLength(pre) + PayloadLength(pre)
<1>1. k \in 0..Len(bytes) /\ Len(bytes) \in Nat /\ pre \in Seq(Octets) /\ Len(pre) = k
    BY DEF Beginning
<1>2. ASSUME k >= 2
      PROVE  InvalidHeader(pre, client) <=> InvalidHeader(bytes, client)
  <2>1. pre[1] = bytes[1] /\ pre[2] = bytes[2]
      BY <1>1, <1>2 DEF Beginning
  <2> QED
      BY <2>1, HeaderKept
<1>3. ASSUME ~first.ok PROVE ~whole.ok
  <2>1. k >= 2 /\ InvalidHeader(pre, client)
      BY <1>1, <1>3, Answers DEF Answered
  <2>2. Len(bytes) >= 2 /\ InvalidHeader(bytes, client)
      BY <1>1, <1>2, <2>1
  <2> QED
      BY <2>2 DEF DecodeFrame
<1>4. ASSUME first.frame # None
      PROVE  /\ whole.ok /\ whole.frame = first.frame
             /\ whole.rest = first.rest \o SubSeq(bytes, k + 1, Len(bytes))
  <2>1. /\ ~(Len(pre) >= 2 /\ InvalidHeader(pre, client)) /\ Whole(pre)
        /\ first = [ok |-> TRUE, frame |-> Some(FrameOf(pre)),
                    rest |-> SubSeq(pre, at + 1, Len(pre))]
      BY <1>4, Answers DEF Answered
  <2>2. k >= 2
      BY <1>1, <2>1 DEF Whole
  <2>3. ~InvalidHeader(bytes, client)
      BY <1>1, <1>2, <2>1, <2>2
  <2>4. /\ Whole(bytes) /\ FrameOf(pre) = FrameOf(bytes)
        /\ at = HeaderLength(bytes) + PayloadLength(bytes) /\ at \in Nat /\ at <= k
      BY <2>1, WholeKept
  <2>5. whole = [ok |-> TRUE, frame |-> Some(FrameOf(pre)),
                 rest |-> SubSeq(bytes, at + 1, Len(bytes))]
      BY <2>3, <2>4 DEF DecodeFrame
  <2> HIDE DEF at, first, whole
  <2>6. SubSeq(bytes, at + 1, Len(bytes))
          = SubSeq(pre, at + 1, Len(pre)) \o SubSeq(bytes, k + 1, Len(bytes))
      BY <2>4, RestKept
  <2> QED
      BY <2>1, <2>5, <2>6
<1> QED
    BY <1>3, <1>4 DEF Stable

(* ws/frame.rs, for bytes of any value and number: what Frame::decode says *)
(* of the bytes that have come, an error or a frame, it says of any more,  *)
(* and what is left is what would have been left, with the new bytes.  (Of *)
(* a length above MaxBuffer, WsFrame knows no more than that.)             *)
THEOREM FrameDecodingStable ==
    ASSUME NEW bytes \in Seq(Octets), NEW client \in BOOLEAN
    PROVE  FrameStable(client, bytes)
<1>1. ASSUME NEW k \in 0..Len(bytes)
      PROVE  Stable(SubSeq(bytes, 1, k), bytes, k, client)
  <2> DEFINE pre == SubSeq(bytes, 1, k)
  <2>1. Beginning(pre, bytes, k)
      BY Begins
  <2> HIDE DEF pre
  <2>2. Stable(pre, bytes, k, client)
      BY <2>1, PrefixStable
  <2> QED
      BY <2>2 DEF pre
<1> QED
    BY <1>1 DEF FrameStable, Stable

(* ws/frame.rs: Frame::decode gives every frame of up to MaxBuffer bytes as*)
(* Frame::encode was given it, under every mask, and leaves what follows;  *)
(* what a client has sent, a client refuses.                               *)
THEOREM FrameRoundTrip ==
    ASSUME NEW f \in Frames, NEW client \in BOOLEAN, NEW mask \in Masks,
           Len(f.payload) <= MaxBuffer, NEW after \in Seq(Octets)
    PROVE  FrameRead(f, client, mask, after)
<1> DEFINE wire == EncodeFrame(f, client, mask)
           more == wire \o after
           only == wire \o <<>>
<1>1. Seen(more, f, client, mask, after)
  <2> HIDE DEF more
  <2>1. more = EncodeFrame(f, client, mask) \o after
      BY DEF more
  <2> QED
      BY <2>1, FrameSeen
<1>2. Seen(only, f, client, mask, <<>>)
  <2> DEFINE none == <<>>
  <2>1. none \in Seq(Octets) /\ only = EncodeFrame(f, client, mask) \o none
      OBVIOUS
  <2> HIDE DEF none, only
  <2>2. Seen(only, f, client, mask, none)
      BY <2>1, FrameSeen
  <2> QED
      BY <2>2 DEF none
<1>3. wire \in Seq(Octets)
    BY WireIs
<1>4. only = wire
  <2> HIDE DEF wire
  <2> QED
      BY <1>3
<1> HIDE DEF more, only
<1>5. DecodeFrame(more, ~client) = [ok |-> TRUE, frame |-> Some(f), rest |-> after]
  <2>1. Decoded(more, f, client, after)
      BY <1>1, FrameDecoded
  <2> QED
      BY <2>1 DEF Decoded
<1>6. client => Refused(only)
  <2> DEFINE none == <<>>
  <2>1. none \in Seq(Octets) /\ Seen(only, f, client, mask, none)
      BY <1>2
  <2> HIDE DEF none
  <2> QED
      BY <2>1, FrameDecoded
<1> QED
    BY <1>4, <1>5, <1>6 DEF FrameRead, more, Refused

(* ws/frame.rs: a frame of up to MaxBuffer bytes that is cut after any byte*)
(* is waited for, and nothing of it is taken from the buffer.              *)
THEOREM FrameAwaited ==
    ASSUME NEW f \in Frames, NEW client \in BOOLEAN, NEW mask \in Masks,
           Len(f.payload) <= MaxBuffer,
           NEW k \in 0..Len(EncodeFrame(f, client, mask)) - 1
    PROVE  CutAt(EncodeFrame(f, client, mask), k, ~client)
<1> DEFINE wire == EncodeFrame(f, client, mask)
           pre == SubSeq(wire, 1, k)
           side == ~client
           first == DecodeFrame(pre, side)
           whole == DecodeFrame(wire, side)
           left == SubSeq(wire, k + 1, Len(wire))
<1>1. wire \in Seq(Octets)
    BY WireIs
<1>2. whole = [ok |-> TRUE, frame |-> Some(f), rest |-> <<>>]
  <2> DEFINE none == <<>>
             only == wire \o none
  <2>1. none \in Seq(Octets) /\ only = EncodeFrame(f, client, mask) \o none
      OBVIOUS
  <2>2. only = wire
    <3> HIDE DEF wire
    <3> QED
        BY <1>1
  <2> HIDE DEF none, only
  <2>3. Seen(only, f, client, mask, none)
      BY <2>1, FrameSeen
  <2>4. DecodeFrame(only, ~client) = [ok |-> TRUE, frame |-> Some(f), rest |-> none]
    <3>1. Decoded(only, f, client, none)
        BY <2>1, <2>3, FrameDecoded
    <3> QED
        BY <3>1 DEF Decoded
  <2> QED
      BY <2>2, <2>4 DEF none
<1> HIDE DEF wire, side
<1>3. k \in 0..Len(wire) /\ k < Len(wire) /\ Len(wire) \in Nat
    BY <1>1 DEF wire
<1>4. Beginning(pre, wire, k)
    BY <1>1, <1>3, Begins
<1>5. pre \in Seq(Octets) /\ Len(pre) = k
    BY <1>4 DEF Beginning
<1>6. left \in Seq(Octets) /\ Len(left) > 0
    BY <1>1, <1>3
<1> HIDE DEF pre
<1>7. Stable(pre, wire, k, side)
    BY <1>1, <1>4, PrefixStable
<1> HIDE DEF left
<1>8. /\ ~first.ok => ~whole.ok
      /\ first.frame # None => whole.rest = first.rest \o left
    BY <1>7 DEF Stable, left
<1>9. first.ok
    BY <1>2, <1>8
<1>10. first.rest \in Seq(Octets)
  <2> DEFINE at == HeaderLength(pre) + PayloadLength(pre)
  <2>1. CASE first.rest = pre
      BY <1>5, <2>1
  <2>2. CASE Whole(pre) /\ first.rest = SubSeq(pre, at + 1, Len(pre))
    <3>1. at \in Nat /\ at <= k
        BY <1>1, <1>4, <2>2, WholeKept
    <3> HIDE DEF at, first
    <3> QED
        BY <1>3, <1>5, <2>2, <3>1
  <2> QED
    <3> HIDE DEF at
    <3> QED
        BY <2>1, <2>2, Answers DEF Answered, at
<1>11. first.frame = None
  <2>1. SUFFICES ASSUME first.frame # None PROVE FALSE
      OBVIOUS
  <2>2. <<>> = first.rest \o left
      BY <1>2, <1>8, <2>1
  <2> DEFINE r == first.rest
  <2>3. r \in Seq(Octets) /\ <<>> = r \o left
      BY <1>10, <2>2
  <2> HIDE DEF r
  <2>4. Len(r \o left) = Len(r) + Len(left) /\ Len(r) \in Nat /\ Len(left) \in Nat
      BY <1>6, <2>3
  <2>5. Len(<<>>) = 0
      OBVIOUS
  <2>6. Len(r \o left) = 0
      BY <2>3, <2>5
  <2> HIDE DEF left
  <2> QED
      BY <1>6, <2>4, <2>6
<1>12. first = [ok |-> TRUE, frame |-> None, rest |-> pre]
  <2>1. \/ first = [ok |-> FALSE, frame |-> None, rest |-> pre]
        \/ first = [ok |-> TRUE, frame |-> None, rest |-> pre]
        \/ first = [ok |-> TRUE, frame |-> Some(FrameOf(pre)),
                    rest |-> SubSeq(pre, HeaderLength(pre) + PayloadLength(pre) + 1,
                                    Len(pre))]
      BY Answers DEF Answered
  <2> DEFINE x == FrameOf(pre)
  <2> HIDE DEF first, x
  <2>2. Some(x) # None
      BY OptionSome
  <2> QED
      BY <1>9, <1>11, <2>1, <2>2 DEF x
<1> QED
    BY <1>12 DEF CutAt, Awaited, wire, pre, side

(* What FramesExact is about: frames of every length, masks and bytes.     *)
Sendings ==
    {p \in [opcode : KnownOpcodes, size : Nat, fin : BOOLEAN, client : BOOLEAN,
            mask : Masks] : p.size <= MaxBuffer}

LEMMA SentFrameType ==
    ASSUME NEW p \in Sendings
    PROVE  SentFrame(p) \in Frames /\ Len(SentFrame(p).payload) = p.size
<1> DEFINE b(i) == i % 256
           t == [i \in 1..p.size |-> b(i)]
<1>1. p.opcode \in KnownOpcodes /\ p.size \in Nat /\ p.fin \in BOOLEAN
    BY DEF Sendings
<1>2. ASSUME NEW i \in 1..p.size PROVE b(i) \in Octets
    BY DEF Octets
<1> HIDE DEF b
<1>3. t \in Seq(Octets) /\ Len(t) = p.size
    BY <1>1, <1>2
<1>4. SentFrame(p) = [opcode |-> p.opcode, payload |-> t, fin |-> p.fin]
    BY DEF SentFrame, Frame, b
<1> HIDE DEF t
<1> QED
    BY <1>1, <1>3, <1>4 DEF Frames

Beginnings == [start : Seq(Octets), client : BOOLEAN]

(* ws/frame.rs: a frame of any kind and of any length up to MaxBuffer comes*)
(* out as it was sent, under any mask and wherever it is cut, and no bytes *)
(* that follow change what Frame::decode has said.                         *)
THEOREM ExactFrames ==
    ASSUME topic = "frame" => params \in Sendings,
           topic = "frame_bytes" => params \in Beginnings /\ text \in Seq(Octets)
    PROVE  FramesExact
<1>1. ASSUME topic = "frame"
      PROVE  /\ FrameRead(SentFrame(params), params.client, params.mask, <<193, 0>>)
             /\ FrameCut(SentFrame(params), params.client, params.mask)
  <2> DEFINE f == SentFrame(params)
             client == params.client
             mask == params.mask
             after == <<193, 0>>
             wire == EncodeFrame(f, client, mask)
  <2>1. params \in Sendings
      BY <1>1
  <2>2. client \in BOOLEAN /\ mask \in Masks /\ params.size <= MaxBuffer
      BY <2>1 DEF Sendings
  <2>3. f \in Frames /\ Len(f.payload) <= MaxBuffer
      BY <2>1, <2>2, SentFrameType
  <2>4. after \in Seq(Octets)
      BY DEF Octets
  <2> HIDE DEF f, client, mask, after
  <2>5. FrameRead(f, client, mask, after)
      BY <2>2, <2>3, <2>4, FrameRoundTrip
  <2>6. \A k \in 0..Len(wire) - 1 : CutAt(wire, k, ~client)
      BY <2>2, <2>3, FrameAwaited
  <2>7. FrameCut(f, client, mask)
      BY <2>6 DEF FrameCut
  <2> QED
      BY <2>5, <2>7 DEF f, client, mask, after
<1>2. ASSUME topic = "frame_bytes"
      PROVE  FrameStable(params.client, params.start \o text)
  <2> DEFINE bytes == params.start \o text
             client == params.client
  <2>1. bytes \in Seq(Octets) /\ client \in BOOLEAN
      BY <1>2 DEF Beginnings
  <2> HIDE DEF bytes, client
  <2>2. FrameStable(client, bytes)
      BY <2>1, FrameDecodingStable
  <2> QED
      BY <2>2 DEF bytes, client
<1> QED
    BY <1>1, <1>2 DEF FramesExact
=============================================================================
