------------------------- MODULE AmountFormatProofs -------------------------
(***************************************************************************)
(* The text of an amount is exact and the buffer is large enough, for      *)
(* amounts of any number of bytes, every scale and every symbol.           *)
(*                                                                         *)
(* Number and Pow are recursive functions, so that their equations need an *)
(* argument that the functions exist, which is by induction: see Induction *)
(* and Recursion.  From there the invariant follows the text through its   *)
(* loops: while it is divided, ten times the quotient and the remainder    *)
(* are the number before (DivideExact), and what is left has as many       *)
(* digits as there is room for; then the digits are the amount             *)
(* (PadInv); then the two halves around the point are (TrimInv).           *)
(*                                                                         *)
(* The last section is about the reference that TextIsExact compares with: *)
(* an amount has one text (TextUnique) and a text one amount (AmountsTold).*)
(***************************************************************************)
EXTENDS AmountFormat, FiniteSets, WellFoundedInduction, TLAPS

-----------------------------------------------------------------------------
(* Induction and recursion *)

\* Induction over the natural numbers, for a set rather than a predicate: a
\* smallest number outside the set would have a predecessor in it.
LEMMA Induction ==
  ASSUME NEW A, 0 \in A, \A n \in Nat : n \in A => n + 1 \in A
  PROVE  Nat \subseteq A
<1> DEFINE R == OpToRel(<, Nat)
           B == Nat \ A
<1>1. SUFFICES ASSUME B # {} PROVE FALSE
  OBVIOUS
<1>2. PICK x \in B : \A y \in B : ~ (<<y, x>> \in R)
  <2>1. IsWellFoundedOn(R, Nat)
    BY NatLessThanWellFounded DEF R
  <2>2. B \subseteq Nat
    BY DEF B
  <2> HIDE DEF R, B
  <2> QED BY <1>1, <2>1, <2>2, WFMin
<1>3. x # 0 /\ x - 1 \in Nat
  OBVIOUS
<1>4. x - 1 \in B
  <2>1. (x - 1) + 1 = x
    BY <1>3
  <2> QED BY <1>3, <2>1
<1>5. <<x - 1, x>> \in R
  BY <1>3 DEF OpToRel
<1> QED BY <1>2, <1>4, <1>5

\* A function may be defined by its first value and by what follows from one
\* value to the next.
LEMMA Recursion ==
  ASSUME NEW m \in Nat, NEW c \in Int, NEW F \in [1..m -> [Int -> Int]]
  PROVE  \E g \in [0..m -> Int] :
           g[0] = c /\ \A k \in 1..m : g[k] = F[k][g[k - 1]]
<1> DEFINE Upto(n, g) == /\ g \in [0..n -> Int]
                         /\ g[0] = c
                         /\ \A k \in 1..n : g[k] = F[k][g[k - 1]]
           A == {n \in Nat : n <= m => \E g : Upto(n, g)}
<1>1. 0 \in A
  <2> DEFINE g == [k \in 0..0 |-> c]
  <2>1. Upto(0, g)
    OBVIOUS
  <2>2. \E h : Upto(0, h)
    <3> HIDE DEF Upto, g
    <3> QED BY <2>1
  <2> QED BY <2>2
<1>2. ASSUME NEW n \in Nat, n \in A PROVE n + 1 \in A
  <2>1. SUFFICES ASSUME n + 1 <= m PROVE \E g : Upto(n + 1, g)
    <3> HIDE DEF Upto
    <3> QED OBVIOUS
  <2>2. PICK h : Upto(n, h)
    <3>1. n <= m
      BY <2>1
    <3> HIDE DEF Upto
    <3> QED BY <1>2, <3>1
  <2> DEFINE g == [k \in 0..(n + 1) |-> IF k = n + 1 THEN F[n + 1][h[n]] ELSE h[k]]
  <2>3. F[n + 1][h[n]] \in Int
    BY <2>1, <2>2
  <2>4. g \in [0..(n + 1) -> Int]
    BY <2>2, <2>3
  <2>5. g[0] = c
    BY <2>2
  <2>6. ASSUME NEW k \in 1..(n + 1) PROVE g[k] = F[k][g[k - 1]]
    <3>1. CASE k = n + 1
      BY <3>1
    <3>2. CASE k # n + 1
      <4>1. k \in 1..n /\ k - 1 # n + 1
        BY <3>2
      <4>2. g[k] = h[k] /\ g[k - 1] = h[k - 1]
        BY <3>2, <4>1
      <4> QED BY <2>2, <4>1, <4>2
    <3> QED BY <3>1, <3>2
  <2> HIDE DEF g
  <2>7. Upto(n + 1, g)
    BY <2>4, <2>5, <2>6
  <2> HIDE DEF Upto
  <2> QED BY <2>7
<1>3. \E g : Upto(m, g)
  <2>1. Nat \subseteq A
    <3> HIDE DEF A
    <3> QED BY <1>1, <1>2, Induction
  <2> HIDE DEF Upto
  <2> QED BY <2>1
<1> QED BY <1>3

\* Two functions that start with the same value, and take the same step from
\* the same value, are the same.
LEMMA Agree ==
  ASSUME NEW m \in Nat, NEW g, NEW h, g[0] = h[0],
         \A k \in 1..m : g[k - 1] = h[k - 1] => g[k] = h[k]
  PROVE  \A k \in 0..m : g[k] = h[k]
<1> DEFINE A == {n \in Nat : n <= m => g[n] = h[n]}
<1>1. 0 \in A
  OBVIOUS
<1>2. ASSUME NEW n \in Nat, n \in A PROVE n + 1 \in A
  <2>1. CASE n + 1 <= m
    <3> DEFINE k == n + 1
    <3>1. k \in 1..m /\ k - 1 = n /\ k - 1 \in A
      BY <1>2, <2>1
    <3>2. g[k - 1] = h[k - 1]
      BY <3>1
    <3> HIDE DEF k
    <3>3. g[k] = h[k]
      BY <3>1, <3>2
    <3> QED BY <3>3 DEF k
  <2>2. CASE ~ (n + 1 <= m)
    BY <2>2
  <2> QED BY <2>1, <2>2
<1>3. Nat \subseteq A
  <2> HIDE DEF A
  <2> QED BY <1>1, <1>2, Induction
<1> QED BY <1>3

-----------------------------------------------------------------------------
(* Powers *)

LEMMA PowFunction ==
  ASSUME NEW b \in Int, NEW n \in Nat
  PROVE  \E p \in [0..n -> Int] :
           /\ p[0] = 1 /\ \A k \in 1..n : p[k] = b * p[k - 1]
           /\ Pow(b, n) = p[n]
<1> DEFINE F == [k \in 1..n |-> [v \in Int |-> b * v]]
           IsPow(p) == p = [k \in 0..n |-> IF k = 0 THEN 1 ELSE b * p[k - 1]]
<1>1. F \in [1..n -> [Int -> Int]]
  OBVIOUS
<1>2. PICK g \in [0..n -> Int] : g[0] = 1 /\ \A k \in 1..n : g[k] = F[k][g[k - 1]]
  <2> HIDE DEF F
  <2>1. 1 \in Int
    OBVIOUS
  <2> QED BY <1>1, <2>1, Recursion
<1>3. ASSUME NEW k \in 1..n PROVE g[k] = b * g[k - 1]
  <2>1. g[k - 1] \in Int
    OBVIOUS
  <2> QED BY <1>2, <2>1
<1>4. IsPow(g)
  BY <1>2, <1>3
<1>5. Pow(b, n) = (CHOOSE p : IsPow(p))[n]
  BY DEF Pow
<1>6. PICK p : IsPow(p) /\ Pow(b, n) = p[n]
  <2> HIDE DEF IsPow
  <2> QED BY <1>4, <1>5
<1>7. p[0] = 1 /\ \A k \in 1..n : p[k] = b * p[k - 1]
  BY <1>6
<1>8. \A k \in 0..n : p[k] = g[k]
  <2>1. \A k \in 1..n : p[k - 1] = g[k - 1] => p[k] = g[k]
    BY <1>3, <1>7
  <2>2. p[0] = g[0]
    BY <1>2, <1>7
  <2> QED BY <2>1, <2>2, Agree
<1> QED BY <1>2, <1>3, <1>6, <1>8

LEMMA PowZero ==
  ASSUME NEW b \in Int
  PROVE  Pow(b, 0) = 1
BY PowFunction

LEMMA PowStep ==
  ASSUME NEW b \in Int, NEW n \in Nat
  PROVE  Pow(b, n + 1) = b * Pow(b, n)
<1>1. PICK p :
        /\ p \in [0..n -> Int]
        /\ p[0] = 1 /\ \A k \in 1..n : p[k] = b * p[k - 1]
        /\ Pow(b, n) = p[n]
  BY PowFunction
<1>2. PICK q :
        /\ q \in [0..(n + 1) -> Int]
        /\ q[0] = 1 /\ \A k \in 1..(n + 1) : q[k] = b * q[k - 1]
        /\ Pow(b, n + 1) = q[n + 1]
  <2>1. n + 1 \in Nat
    OBVIOUS
  <2> QED BY <2>1, PowFunction
<1>3. \A k \in 0..n : q[k] = p[k]
  <2>1. \A k \in 1..n : q[k - 1] = p[k - 1] => q[k] = p[k]
    BY <1>1, <1>2
  <2>2. q[0] = p[0]
    BY <1>1, <1>2
  <2> QED BY <2>1, <2>2, Agree
<1> QED BY <1>1, <1>2, <1>3

LEMMA PowType ==
  ASSUME NEW b \in Int, NEW n \in Nat, b > 0
  PROVE  Pow(b, n) \in Nat \ {0}
<1> DEFINE A == {k \in Nat : Pow(b, k) \in Nat \ {0}}
<1>1. 0 \in A
  BY PowZero
<1>2. ASSUME NEW k \in Nat, k \in A PROVE k + 1 \in A
  <2> DEFINE x == Pow(b, k)
             y == Pow(b, k + 1)
  <2>1. x \in Nat \ {0} /\ y = b * x
    BY <1>2, PowStep
  <2> HIDE DEF x, y
  <2>2. y \in Nat \ {0}
    BY <2>1
  <2> QED BY <2>2 DEF y
<1> HIDE DEF A
<1>3. Nat \subseteq A
  BY <1>1, <1>2, Induction
<1> QED BY <1>3 DEF A

LEMMA TenStep ==
  ASSUME NEW n \in Nat
  PROVE  Pow(10, n + 1) = 10 * Pow(10, n) /\ Pow(10, n) \in Nat
BY PowStep, PowType

-----------------------------------------------------------------------------
(* Numbers in a base *)

\* v[k] is the value of the first k characters from s[i] on.
Horner(b, zero, s, i, n, v) ==
  /\ v \in [0..n -> Int]
  /\ v[0] = 0
  /\ \A k \in 1..n : v[k] = b * v[k - 1] + (s[i + k - 1] - zero)

\* s[i], ..., s[j - 1] are integers.
Ints(s, i, j) == \A k \in i..(j - 1) : s[k] \in Int

LEMMA NumberFunction ==
  ASSUME NEW b \in Int, NEW zero \in Int, NEW s, NEW i \in Int, NEW j \in Int,
         i <= j, Ints(s, i, j)
  PROVE  \E v : Horner(b, zero, s, i, j - i, v) /\ Number(b, zero, s, i, j) = v[j - i]
<1> DEFINE n == j - i
           F == [k \in 1..n |-> [v \in Int |-> b * v + (s[i + k - 1] - zero)]]
           IsValue(v) ==
             v = [k \in 0..n |-> IF k = 0 THEN 0
                                 ELSE b * v[k - 1] + (s[i + k - 1] - zero)]
<1>1. n \in Nat
  OBVIOUS
<1>2. ASSUME NEW k \in 1..n PROVE s[i + k - 1] \in Int
  <2>1. i + k - 1 \in i..(j - 1)
    OBVIOUS
  <2> QED BY <2>1 DEF Ints
<1> HIDE DEF n
<1>3. F \in [1..n -> [Int -> Int]]
  <2> SUFFICES ASSUME NEW k \in 1..n, NEW v \in Int
               PROVE  b * v + (s[i + k - 1] - zero) \in Int
    OBVIOUS
  <2> QED BY <1>2
<1>4. PICK g : g \in [0..n -> Int] /\ g[0] = 0 /\ \A k \in 1..n : g[k] = F[k][g[k - 1]]
  <2> HIDE DEF F
  <2>1. 0 \in Int
    OBVIOUS
  <2>2. \E g \in [0..n -> Int] : g[0] = 0 /\ \A k \in 1..n : g[k] = F[k][g[k - 1]]
    BY <1>1, <1>3, <2>1, Recursion
  <2> QED BY <2>2
<1>5. ASSUME NEW k \in 1..n PROVE g[k] = b * g[k - 1] + (s[i + k - 1] - zero)
  <2>1. g[k - 1] \in Int
    BY <1>1, <1>4
  <2> QED BY <1>4, <2>1
<1>6. IsValue(g)
  BY <1>4, <1>5
<1>7. Number(b, zero, s, i, j) = (CHOOSE v : IsValue(v))[n]
  BY DEF Number, n
<1>8. PICK v : IsValue(v) /\ Number(b, zero, s, i, j) = v[n]
  <2> HIDE DEF IsValue
  <2> QED BY <1>6, <1>7
<1>9. v[0] = 0 /\ \A k \in 1..n : v[k] = b * v[k - 1] + (s[i + k - 1] - zero)
  BY <1>1, <1>8
<1>10. \A k \in 0..n : v[k] = g[k]
  <2>1. \A k \in 1..n : v[k - 1] = g[k - 1] => v[k] = g[k]
    BY <1>5, <1>9
  <2>2. v[0] = g[0]
    BY <1>4, <1>9
  <2> QED BY <1>1, <2>1, <2>2, Agree
<1>11. v \in [0..n -> Int]
  BY <1>4, <1>8, <1>10
<1>12. Horner(b, zero, s, i, n, v)
  BY <1>9, <1>11 DEF Horner
<1> QED BY <1>8, <1>12 DEF n

LEMMA NumberEmpty ==
  ASSUME NEW b \in Int, NEW zero \in Int, NEW s, NEW i \in Int
  PROVE  Number(b, zero, s, i, i) = 0
<1>1. Ints(s, i, i)
  BY DEF Ints
<1>2. PICK v : Horner(b, zero, s, i, i - i, v) /\ Number(b, zero, s, i, i) = v[i - i]
  BY <1>1, NumberFunction
<1> QED BY <1>2 DEF Horner

LEMMA NumberType ==
  ASSUME NEW b \in Int, NEW zero \in Int, NEW s, NEW i \in Int, NEW j \in Int,
         i <= j, Ints(s, i, j)
  PROVE  Number(b, zero, s, i, j) \in Int
<1>1. PICK v : Horner(b, zero, s, i, j - i, v) /\ Number(b, zero, s, i, j) = v[j - i]
  BY NumberFunction
<1>2. v \in [0..(j - i) -> Int] /\ j - i \in 0..(j - i)
  BY <1>1 DEF Horner
<1> QED BY <1>1, <1>2

\* t holds s[i], ..., s[j - 1], d places further up.
Shifted(s, i, j, t, d) == \A k \in i..(j - 1) : t[k + d] = s[k]

\* The value depends on the characters only, not on where they are.
LEMMA NumberSame ==
  ASSUME NEW b \in Int, NEW zero \in Int, NEW s, NEW t,
         NEW i \in Int, NEW j \in Int, NEW d \in Int, i <= j,
         Ints(s, i, j), Shifted(s, i, j, t, d)
  PROVE  Number(b, zero, t, i + d, j + d) = Number(b, zero, s, i, j)
<1> DEFINE n == j - i
           ii == i + d
           jj == j + d
<1>1. n \in Nat /\ ii \in Int /\ jj \in Int /\ jj - ii = n /\ ii <= jj
  OBVIOUS
<1>2. ASSUME NEW k \in 1..n PROVE t[ii + k - 1] = s[i + k - 1]
  <2>1. i + k - 1 \in i..(j - 1) /\ ii + k - 1 = (i + k - 1) + d
    OBVIOUS
  <2> QED BY <2>1 DEF Shifted
<1>3. Ints(t, ii, jj)
  <2> SUFFICES ASSUME NEW k \in ii..(jj - 1) PROVE t[k] \in Int
    BY DEF Ints
  <2>1. k - d \in i..(j - 1) /\ (k - d) + d = k
    OBVIOUS
  <2> QED BY <2>1 DEF Ints, Shifted
<1>4. PICK v : Horner(b, zero, s, i, n, v) /\ Number(b, zero, s, i, j) = v[n]
  BY NumberFunction
<1> HIDE DEF ii, jj
<1>5. PICK w : Horner(b, zero, t, ii, n, w) /\ Number(b, zero, t, ii, jj) = w[n]
  <2>1. PICK w : Horner(b, zero, t, ii, jj - ii, w) /\ Number(b, zero, t, ii, jj) = w[jj - ii]
    BY <1>1, <1>3, NumberFunction
  <2> QED BY <1>1, <2>1
<1> HIDE DEF n
<1>6. \A k \in 0..n : v[k] = w[k]
  <2>1. \A k \in 1..n : v[k - 1] = w[k - 1] => v[k] = w[k]
    BY <1>2, <1>4, <1>5 DEF Horner
  <2>2. v[0] = w[0]
    BY <1>4, <1>5 DEF Horner
  <2> QED BY <1>1, <2>1, <2>2, Agree
<1>7. v[n] = w[n]
  BY <1>1, <1>6
<1> QED BY <1>4, <1>5, <1>7 DEF ii, jj

LEMMA NumberStep ==
  ASSUME NEW b \in Int, NEW zero \in Int, NEW s, NEW i \in Int, NEW j \in Int,
         i <= j, Ints(s, i, j + 1)
  PROVE  Number(b, zero, s, i, j + 1) = b * Number(b, zero, s, i, j) + (s[j] - zero)
<1> DEFINE n == j - i
           jj == j + 1
<1>1. n \in Nat /\ n + 1 \in Nat /\ jj \in Int /\ i <= jj /\ jj - i = n + 1 /\ i + (n + 1) - 1 = j
  OBVIOUS
<1>2. Ints(s, i, j)
  BY DEF Ints
<1>3. PICK v : Horner(b, zero, s, i, n, v) /\ Number(b, zero, s, i, j) = v[n]
  BY <1>2, NumberFunction
<1> HIDE DEF jj
<1>4. PICK w : Horner(b, zero, s, i, n + 1, w) /\ Number(b, zero, s, i, jj) = w[n + 1]
  <2>1. Ints(s, i, jj)
    BY DEF jj
  <2>2. PICK w : Horner(b, zero, s, i, jj - i, w) /\ Number(b, zero, s, i, jj) = w[jj - i]
    BY <1>1, <2>1, NumberFunction
  <2> QED BY <1>1, <2>2
<1> HIDE DEF n
<1>5. \A k \in 0..n : v[k] = w[k]
  <2>1. \A k \in 1..n : v[k - 1] = w[k - 1] => v[k] = w[k]
    BY <1>1, <1>3, <1>4 DEF Horner
  <2>2. v[0] = w[0]
    BY <1>3, <1>4 DEF Horner
  <2> QED BY <1>1, <2>1, <2>2, Agree
<1>6. v[n] = w[n]
  BY <1>1, <1>5
<1>7. w[n + 1] = b * w[n] + (s[j] - zero)
  <2>1. n + 1 \in 1..(n + 1) /\ (n + 1) - 1 = n
    BY <1>1
  <2> QED BY <1>1, <1>4, <2>1 DEF Horner
<1> QED BY <1>3, <1>4, <1>6, <1>7 DEF jj

LEMMA NumberOfOne ==
  ASSUME NEW b \in Int, NEW zero \in Int, NEW s, NEW i \in Int, s[i] \in Int
  PROVE  Number(b, zero, s, i, i + 1) = s[i] - zero
<1>1. Ints(s, i, i + 1)
  BY DEF Ints
<1>2. Number(b, zero, s, i, i + 1) = b * Number(b, zero, s, i, i) + (s[i] - zero)
  BY <1>1, NumberStep
<1> QED BY <1>2, NumberEmpty

\* The value of a text is that of its two parts, the first one moved in front
\* of the second.
LEMMA NumberSplit ==
  ASSUME NEW b \in Int, b > 0, NEW zero \in Int, NEW s, NEW i \in Int, NEW j \in Int,
         NEW m \in Int, i <= m, m <= j, Ints(s, i, j)
  PROVE  Number(b, zero, s, i, j)
           = Number(b, zero, s, i, m) * Pow(b, j - m) + Number(b, zero, s, m, j)
<1> DEFINE V(x, y) == Number(b, zero, s, x, y)
           A == {n \in Nat : m + n <= j => V(i, m + n) = V(i, m) * Pow(b, n) + V(m, m + n)}
<1>1. V(i, m) \in Int
  <2>1. Ints(s, i, m)
    BY DEF Ints
  <2> QED BY <2>1, NumberType
<1>2. 0 \in A
  <2>1. V(m, m) = 0 /\ Pow(b, 0) = 1
    BY NumberEmpty, PowZero
  <2> HIDE DEF V
  <2>2. V(i, m + 0) = V(i, m) * Pow(b, 0) + V(m, m + 0)
    BY <1>1, <2>1
  <2> QED BY <2>2
<1>3. ASSUME NEW n \in Nat, n \in A PROVE n + 1 \in A
  <2>1. SUFFICES ASSUME m + (n + 1) <= j
                 PROVE  V(i, m + (n + 1)) = V(i, m) * Pow(b, n + 1) + V(m, m + (n + 1))
    <3> HIDE DEF V
    <3> QED OBVIOUS
  <2> DEFINE y == m + n
  <2>2. y \in Int /\ i <= y /\ m <= y /\ m + (n + 1) = y + 1 /\ y <= j - 1
    BY <2>1
  <2>3. V(i, y) = V(i, m) * Pow(b, n) + V(m, y)
    <3> HIDE DEF V
    <3> QED BY <1>3, <2>1
  <2> HIDE DEF y
  <2>4. Ints(s, i, y + 1) /\ Ints(s, m, y + 1) /\ Ints(s, m, y) /\ s[y] \in Int
    BY <2>2 DEF Ints
  <2>5. V(i, y + 1) = b * V(i, y) + (s[y] - zero)
    BY <2>2, <2>4, NumberStep
  <2>6. V(m, y + 1) = b * V(m, y) + (s[y] - zero)
    BY <2>2, <2>4, NumberStep
  <2>7. V(m, y) \in Int
    BY <2>2, <2>4, NumberType
  <2>8. Pow(b, n + 1) = b * Pow(b, n) /\ Pow(b, n) \in Nat
    BY PowStep, PowType
  <2> HIDE DEF V
  <2>9. V(i, y + 1) = V(i, m) * Pow(b, n + 1) + V(m, y + 1)
    <3> DEFINE p == Pow(b, n)
               v == V(i, m)
               w == V(m, y)
               d == s[y] - zero
    <3>1. p \in Int /\ v \in Int /\ w \in Int /\ d \in Int
      BY <1>1, <2>4, <2>7, <2>8
    <3>2. V(i, y + 1) = b * (v * p + w) + d /\ V(m, y + 1) = b * w + d /\ Pow(b, n + 1) = b * p
      BY <2>3, <2>5, <2>6, <2>8
    <3> HIDE DEF p, v, w, d
    <3>3. b * (v * p + w) + d = v * (b * p) + (b * w + d)
      BY <3>1
    <3> QED BY <3>2, <3>3 DEF v
  <2> QED BY <2>2, <2>9
<1>4. Nat \subseteq A
  <2> HIDE DEF A
  <2> QED BY <1>2, <1>3, Induction
<1>5. j - m \in Nat /\ m + (j - m) = j
  OBVIOUS
<1>6. V(i, j) = V(i, m) * Pow(b, j - m) + V(m, j)
  <2> HIDE DEF V
  <2> QED BY <1>4, <1>5
<1> QED BY <1>6

\* Of digits in base b, n of them stand for less than Pow(b, n), and for zero
\* only if all of them do.
LEMMA NumberBound ==
  ASSUME NEW b \in Int, b > 0, NEW zero \in Int, NEW s, NEW i \in Int, NEW j \in Int,
         i <= j, \A k \in i..(j - 1) : s[k] \in Int /\ s[k] - zero \in 0..(b - 1)
  PROVE  /\ Number(b, zero, s, i, j) \in Nat
         /\ Number(b, zero, s, i, j) < Pow(b, j - i)
         /\ Number(b, zero, s, i, j) = 0 <=> \A k \in i..(j - 1) : s[k] = zero
<1> DEFINE V(n) == Number(b, zero, s, i, i + n)
           Good(n) == /\ V(n) \in Nat
                      /\ V(n) < Pow(b, n)
                      /\ V(n) = 0 <=> \A k \in i..(i + n - 1) : s[k] = zero
           A == {n \in Nat : i + n <= j => Good(n)}
<1>1. 0 \in A
  <2>1. V(0) = 0 /\ Pow(b, 0) = 1
    BY NumberEmpty, PowZero
  <2> HIDE DEF V
  <2>2. Good(0)
    BY <2>1
  <2> HIDE DEF Good
  <2> QED BY <2>2
<1>2. ASSUME NEW n \in Nat, n \in A PROVE n + 1 \in A
  <2>1. SUFFICES ASSUME i + (n + 1) <= j PROVE Good(n + 1)
    <3> HIDE DEF Good
    <3> QED OBVIOUS
  <2>2. Good(n)
    <3> HIDE DEF Good
    <3> QED BY <1>2, <2>1
  <2> DEFINE y == i + n
  <2>3. y \in Int /\ i <= y /\ i + (n + 1) = y + 1 /\ y \in i..(j - 1)
    BY <2>1
  <2> HIDE DEF y
  <2>4. Ints(s, i, y + 1) /\ s[y] \in Int /\ s[y] - zero \in 0..(b - 1)
    BY <2>3 DEF Ints
  <2>5. V(n + 1) = b * V(n) + (s[y] - zero)
    <3>1. Number(b, zero, s, i, y + 1) = b * Number(b, zero, s, i, y) + (s[y] - zero)
      BY <2>3, <2>4, NumberStep
    <3> QED BY <2>3, <3>1 DEF y
  <2>6. Pow(b, n + 1) = b * Pow(b, n) /\ Pow(b, n) \in Nat
    BY PowStep, PowType
  <2> DEFINE v == V(n)
             p == Pow(b, n)
             d == s[y] - zero
  <2>7. v \in Nat /\ v < p /\ p \in Nat /\ d \in 0..(b - 1) /\ V(n + 1) = b * v + d
        /\ Pow(b, n + 1) = b * p
    BY <2>2, <2>4, <2>5, <2>6
  <2>8. v = 0 <=> \A k \in i..(y - 1) : s[k] = zero
    BY <2>2 DEF y
  <2>9. d = 0 <=> s[y] = zero
    BY <2>4
  <2> HIDE DEF v, p, d, V
  <2>10. b * v \in Nat /\ b * v + d \in Nat /\ (b * v + d = 0 <=> v = 0 /\ d = 0)
    BY <2>7
  <2>11. b * v + d < b * p
    <3>1. b * (v + 1) <= b * p
      BY <2>7
    <3>2. b * (v + 1) = b * v + b
      BY <2>7
    <3> QED BY <2>7, <2>10, <3>1, <3>2
  <2>12. V(n + 1) = 0 <=> \A k \in i..(i + (n + 1) - 1) : s[k] = zero
    <3>1. \A k : k \in i..(i + (n + 1) - 1) <=> k \in i..(y - 1) \/ k = y
      BY <2>3
    <3> QED BY <2>7, <2>8, <2>9, <2>10, <3>1
  <2> QED BY <2>7, <2>10, <2>11, <2>12
<1>3. Nat \subseteq A
  <2> HIDE DEF A
  <2> QED BY <1>1, <1>2, Induction
<1>4. j - i \in Nat /\ i + (j - i) = j
  OBVIOUS
<1>5. Good(j - i)
  <2> HIDE DEF Good
  <2> QED BY <1>3, <1>4
<1> QED BY <1>4, <1>5

-----------------------------------------------------------------------------
(* Division of an amount by ten *)

AmountBytes == [1..NumBytes -> 0..255]

LEMMA CarryFunction ==
  ASSUME NEW n \in AmountBytes
  PROVE  /\ Carry(n) \in [0..NumBytes -> 0..9]
         /\ Carry(n)[0] = 0
         /\ \A k \in 1..NumBytes :
              Carry(n)[k] = (256 * Carry(n)[k - 1] + n[k]) % 10
<1> DEFINE F == [k \in 1..NumBytes |-> [v \in Int |-> (256 * v + n[k]) % 10]]
           IsCarry(r) == r = [k \in 0..NumBytes |->
                                IF k = 0 THEN 0 ELSE (256 * r[k - 1] + n[k]) % 10]
<1>1. NumBytes \in Nat
  BY AmountAssumption
<1>2. \A k \in 1..NumBytes : n[k] \in 0..255
  BY DEF AmountBytes
<1>3. F \in [1..NumBytes -> [Int -> Int]]
  <2> SUFFICES ASSUME NEW k \in 1..NumBytes, NEW v \in Int
               PROVE  (256 * v + n[k]) % 10 \in Int
    OBVIOUS
  <2> QED BY <1>2
<1>4. PICK g : /\ g \in [0..NumBytes -> Int] /\ g[0] = 0
               /\ \A k \in 1..NumBytes : g[k] = F[k][g[k - 1]]
  <2> HIDE DEF F
  <2>1. 0 \in Int
    OBVIOUS
  <2>2. \E g \in [0..NumBytes -> Int] :
          g[0] = 0 /\ \A k \in 1..NumBytes : g[k] = F[k][g[k - 1]]
    BY <1>1, <1>3, <2>1, Recursion
  <2> QED BY <2>2
<1>5. ASSUME NEW k \in 1..NumBytes PROVE g[k] = (256 * g[k - 1] + n[k]) % 10
  <2>1. g[k - 1] \in Int
    BY <1>1, <1>4
  <2> QED BY <1>4, <2>1
<1>6. IsCarry(g)
  BY <1>4, <1>5
<1>7. IsCarry(Carry(n))
  <2>1. Carry(n) = CHOOSE r : IsCarry(r)
    BY DEF Carry
  <2> HIDE DEF IsCarry
  <2> QED BY <1>6, <2>1
<1> DEFINE c == Carry(n)
<1>8. c[0] = 0 /\ \A k \in 1..NumBytes : c[k] = (256 * c[k - 1] + n[k]) % 10
  <2> HIDE DEF c
  <2>1. IsCarry(c)
    BY <1>7 DEF c
  <2>2. c[0] = 0
    BY <1>1, <2>1
  <2>3. ASSUME NEW k \in 1..NumBytes PROVE c[k] = (256 * c[k - 1] + n[k]) % 10
    <3>1. k \in 0..NumBytes /\ k # 0
      BY <1>1
    <3> QED BY <2>1, <3>1, Zenon
  <2> QED BY <2>2, <2>3
<1>9. \A k \in 0..NumBytes : c[k] = g[k]
  <2> HIDE DEF c
  <2>1. \A k \in 1..NumBytes : c[k - 1] = g[k - 1] => c[k] = g[k]
    BY <1>5, <1>8
  <2>2. c[0] = g[0]
    BY <1>4, <1>8
  <2> QED BY <1>1, <2>1, <2>2, Agree
<1>10. \A k \in 0..NumBytes : g[k] \in 0..9
  <2> SUFFICES ASSUME NEW k \in 0..NumBytes PROVE g[k] \in 0..9
    OBVIOUS
  <2>1. CASE k = 0
    BY <1>4, <2>1
  <2>2. CASE k # 0
    <3>1. k \in 1..NumBytes /\ k - 1 \in 0..NumBytes
      BY <1>1, <2>2
    <3>2. g[k - 1] \in Int
      BY <1>4, <3>1
    <3>3. n[k] \in Int
      BY <1>2, <3>1
    <3>4. \A x, y \in Int : (256 * x + y) % 10 \in 0..9
      OBVIOUS
    <3> QED BY <1>5, <3>1, <3>2, <3>3, <3>4
  <2> QED BY <2>1, <2>2
<1>11. c \in [0..NumBytes -> 0..9]
  <2> HIDE DEF c
  <2>1. DOMAIN c = 0..NumBytes /\ c = [k \in DOMAIN c |-> c[k]]
    BY <1>7 DEF c
  <2> QED BY <1>9, <1>10, <2>1
<1> QED BY <1>8, <1>11

LEMMA Quotient ==
  ASSUME NEW x \in Nat, NEW m \in Nat \ {0}
  PROVE  x = m * (x \div m) + (x % m)
OBVIOUS

\* One step of the division: no more than a byte is left of it.
LEMMA DivideStep ==
  ASSUME NEW r \in 0..9, NEW d \in 0..255
  PROVE  /\ (256 * r + d) \div 10 \in 0..255
         /\ 256 * r + d = 10 * ((256 * r + d) \div 10) + ((256 * r + d) % 10)
<1> DEFINE x == 256 * r + d
<1>1. x \in 0..2559
  OBVIOUS
<1> HIDE DEF x
<1>2. x \div 10 \in 0..255
  BY <1>1
<1>3. x = 10 * (x \div 10) + (x % 10)
  BY <1>1, Quotient
<1> QED BY <1>2, <1>3 DEF x

LEMMA DivideExact ==
  ASSUME NEW n \in AmountBytes
  PROVE  /\ DivideByTen(n).quotient \in AmountBytes
         /\ DivideByTen(n).r \in 0..9
         /\ Amount(n) = 10 * Amount(DivideByTen(n).quotient) + DivideByTen(n).r
<1> DEFINE c == Carry(n)
           q == [i \in 1..NumBytes |-> (256 * c[i - 1] + n[i]) \div 10]
           V(k) == Number(256, 0, n, 1, 1 + k)
           Q(k) == Number(256, 0, q, 1, 1 + k)
           A == {k \in Nat : k <= NumBytes => V(k) = 10 * Q(k) + c[k]}
<1>1. NumBytes \in Nat
  BY AmountAssumption
<1>2. DivideByTen(n).quotient = q /\ DivideByTen(n).r = c[NumBytes]
  BY DEF DivideByTen
<1>3. /\ c \in [0..NumBytes -> 0..9] /\ c[0] = 0
      /\ \A k \in 1..NumBytes : c[k] = (256 * c[k - 1] + n[k]) % 10
  BY CarryFunction
<1> HIDE DEF c
<1>4. \A k \in 1..NumBytes : n[k] \in 0..255
  BY DEF AmountBytes
<1>5. ASSUME NEW k \in 1..NumBytes
      PROVE  q[k] \in 0..255 /\ 256 * c[k - 1] + n[k] = 10 * q[k] + c[k]
  <2>1. c[k - 1] \in 0..9 /\ n[k] \in 0..255
    BY <1>1, <1>3, <1>4
  <2>2. q[k] = (256 * c[k - 1] + n[k]) \div 10
    OBVIOUS
  <2>3. c[k] = (256 * c[k - 1] + n[k]) % 10
    BY <1>3
  <2> HIDE DEF q
  <2> QED BY <2>1, <2>2, <2>3, DivideStep
<1>6. q \in AmountBytes
  BY <1>5 DEF AmountBytes
<1> HIDE DEF q
<1>7. 0 \in A
  <2>1. V(0) = 0 /\ Q(0) = 0
    BY NumberEmpty
  <2> HIDE DEF V, Q
  <2> QED BY <1>3, <2>1
<1>8. ASSUME NEW k \in Nat, k \in A PROVE k + 1 \in A
  <2>1. SUFFICES ASSUME k + 1 <= NumBytes PROVE V(k + 1) = 10 * Q(k + 1) + c[k + 1]
    <3> HIDE DEF V, Q
    <3> QED OBVIOUS
  <2>2. V(k) = 10 * Q(k) + c[k]
    <3> HIDE DEF V, Q
    <3> QED BY <1>1, <1>8, <2>1
  <2> DEFINE j == k + 1
  <2>3. j \in 1..NumBytes /\ j \in Int /\ 1 <= j /\ 1 + k = j /\ 1 + (k + 1) = j + 1
    BY <2>1
  <2>4. j - 1 = k
    OBVIOUS
  <2> HIDE DEF j
  <2>5. Ints(n, 1, j + 1) /\ Ints(q, 1, j + 1) /\ Ints(q, 1, j)
    <3>1. \A k_1 \in 1..NumBytes : n[k_1] \in Int /\ q[k_1] \in Int
      BY <1>4, <1>5
    <3>2. j \in 1..NumBytes /\ j \in Int
      BY <2>3
    <3> QED BY <1>1, <3>1, <3>2 DEF Ints
  <2>6. Number(256, 0, n, 1, j + 1) = 256 * Number(256, 0, n, 1, j) + (n[j] - 0)
    BY <2>3, <2>5, NumberStep
  <2>7. Number(256, 0, q, 1, j + 1) = 256 * Number(256, 0, q, 1, j) + (q[j] - 0)
    BY <2>3, <2>5, NumberStep
  <2>8. Number(256, 0, q, 1, j) \in Int
    BY <2>3, <2>5, NumberType
  <2>9. Q(k) \in Int /\ n[j] \in Int /\ q[j] \in Int
    BY <1>4, <1>5, <2>3, <2>8
  <2>10. c[j] \in Int /\ c[k] \in Int
    <3>1. j \in 0..NumBytes /\ k \in 0..NumBytes
      BY <1>1, <2>1, <2>3
    <3> QED BY <1>3, <3>1
  <2>11. V(k + 1) = 256 * V(k) + n[j] /\ Q(k + 1) = 256 * Q(k) + q[j]
    BY <2>3, <2>6, <2>7, <2>9
  <2>12. 256 * c[k] + n[j] = 10 * q[j] + c[j]
    BY <1>5, <2>3, <2>4
  <2> HIDE DEF V, Q
  <2>13. V(k + 1) = 10 * Q(k + 1) + c[j]
    BY <2>2, <2>9, <2>10, <2>11, <2>12
  <2> QED BY <2>13 DEF j
<1>9. Nat \subseteq A
  <2> HIDE DEF A
  <2> QED BY <1>7, <1>8, Induction
<1>10. Amount(n) = 10 * Amount(q) + c[NumBytes]
  <2>1. 1 + NumBytes = NumBytes + 1
    BY <1>1
  <2>2. V(NumBytes) = 10 * Q(NumBytes) + c[NumBytes]
    <3> HIDE DEF V, Q
    <3> QED BY <1>1, <1>9
  <2> QED BY <2>1, <2>2 DEF Amount
<1> QED BY <1>1, <1>2, <1>3, <1>6, <1>10

\* An amount is less than a power of ten that has Digits digits, and it is zero
\* if all its bytes are.
LEMMA AmountBound ==
  ASSUME NEW n \in AmountBytes
  PROVE  /\ Amount(n) \in Nat
         /\ Amount(n) < Pow(10, Digits)
         /\ Amount(n) = 0 <=> \A i \in 1..NumBytes : n[i] = 0
<1>1. NumBytes \in Nat /\ Pow(256, NumBytes) <= Pow(10, Digits) /\ Digits \in Nat
  BY AmountAssumption
<1> DEFINE j == NumBytes + 1
<1>2. j \in Int /\ 1 <= j /\ j - 1 = NumBytes
  BY <1>1
<1>3. ASSUME NEW k \in 1..(j - 1)
      PROVE  n[k] \in Int /\ n[k] - 0 \in 0..(256 - 1)
  <2>1. n[k] \in 0..255
    BY <1>2 DEF AmountBytes
  <2> QED BY <2>1
<1> HIDE DEF j
<1>4. /\ Number(256, 0, n, 1, j) \in Nat
      /\ Number(256, 0, n, 1, j) < Pow(256, j - 1)
      /\ Number(256, 0, n, 1, j) = 0 <=> \A k \in 1..(j - 1) : n[k] = 0
  BY <1>2, <1>3, NumberBound
<1>5. Amount(n) = Number(256, 0, n, 1, j)
  BY DEF Amount, j
<1>6. Pow(256, NumBytes) \in Nat /\ Pow(10, Digits) \in Nat
  BY <1>1, PowType
<1> QED BY <1>1, <1>2, <1>4, <1>5, <1>6

-----------------------------------------------------------------------------
(* The inductive invariant *)

Value == Amount(balance)
Scale == fmt.unitScale
Skip == IF fmt.suffix = << >> THEN 0 ELSE Size + 1

\* The number that the digits in s[i], ..., s[j - 1] stand for.
Dec(s, i, j) == Number(10, Zero, s, i, j)

AllDigits(s, i, j) == \A k \in i..(j - 1) : IsDigit(s[k])

\* What is left to divide and the digits written so far make up the amount;
\* what is left has as many digits as there is room for, and is zero before
\* the first digit only.
DivideInv ==
  /\ end = Top /\ start <= Top /\ Top - start <= Digits
  /\ AllDigits(buf, start, Top)
  /\ Amount(num) * Pow(10, Top - start) + Dec(buf, start, Top) = Value
  /\ Amount(num) < Pow(10, Digits - (Top - start))
  /\ start < Top => Amount(num) > 0

\* The digits are the amount, and no zero leads them but down to the place in
\* front of the point.
PadInv ==
  /\ end = Top /\ start < Top /\ Top - start <= Digits
  /\ point = Top - 1 - Scale
  /\ AllDigits(buf, start, Top)
  /\ Dec(buf, start, Top) = Value
  /\ buf[start] = Zero => start >= point
  /\ pc = "shift" => start <= point

\* The zeros taken off are the powers of ten that the fraction has lost.
TrimInv ==
  /\ start < point /\ point <= end /\ end <= Top /\ Top - start <= Digits + 1
  /\ point = Top - 1 - Scale
  /\ AllDigits(buf, start, point)
  /\ buf[start] = Zero => point = start + 1
  /\ \/ /\ end = point
        /\ Dec(buf, start, point) * Pow(10, Scale) = Value
     \/ /\ end > point /\ buf[point] = Period
        /\ AllDigits(buf, point + 1, end)
        /\ Dec(buf, start, point) * Pow(10, Scale)
             + Dec(buf, point + 1, end) * Pow(10, Scale - (end - (point + 1)))
           = Value

SuffixInv ==
  /\ start < end /\ end <= Top /\ Top - start <= Digits + 1
  /\ Canonical(buf, start, end, Scale, Value)

CopyInv ==
  /\ 0 <= start /\ start + Skip < end /\ end <= Top
  /\ \A k \in 1..Skip : buf[start + k - 1] = Append(fmt.suffix, Space)[k]
  /\ Canonical(buf, start + Skip, end, Scale, Value)

IInv ==
  /\ TypeOK
  /\ pc = "divide" => DivideInv
  /\ pc \in {"pad", "shift"} => PadInv
  /\ pc = "trim" => TrimInv
  /\ pc = "suffix" => SuffixInv
  /\ pc = "copy" => CopyInv
  /\ pc = "done" => 0 <= start /\ start <= end /\ end <= Top /\ TextIsExact

-----------------------------------------------------------------------------
(* Decimal texts *)

LEMMA Sizes ==
  /\ Top \in Nat /\ Top = SymbolMax + 1 + Digits + 1
  /\ SymbolMax \in Nat /\ Digits \in Nat /\ Digits > 0
BY AmountAssumption DEF Top, AMOUNT_TEXT_MAX_LEN

LEMMA FormatType ==
  ASSUME NEW f \in Formats
  PROVE  /\ f.unitScale \in 0..(Digits - 1)
         /\ f.suffix \in Seq(0..127) /\ Len(f.suffix) \in 0..SymbolMax
BY AmountAssumption

LEMMA ElementsOfSeq ==
  ASSUME NEW S, NEW s \in Seq(S), NEW k \in 1..Len(s)
  PROVE  s[k] \in S
OBVIOUS

LEMMA FunctionIsSeq ==
  ASSUME NEW S, NEW n \in Nat, NEW f \in [1..n -> S]
  PROVE  f \in Seq(S) /\ Len(f) = n
OBVIOUS

LEMMA DigitsAreInts ==
  ASSUME NEW s, NEW i \in Int, NEW j \in Int, AllDigits(s, i, j)
  PROVE  Ints(s, i, j)
BY DEF AllDigits, Ints, IsDigit, Zero

\* A digit in front.
LEMMA DecPrepend ==
  ASSUME NEW s, NEW t, NEW i \in Int, NEW m \in Int, NEW j \in Int,
         m = i + 1, m <= j, NEW d \in 0..9, t[i] = Zero + d,
         AllDigits(s, m, j), Shifted(s, m, j, t, 0)
  PROVE  /\ AllDigits(t, i, j)
         /\ Dec(t, i, j) = d * Pow(10, j - m) + Dec(s, m, j)
<1>1. i <= m
  OBVIOUS
<1>2. \A k \in i..(j - 1) : k = i \/ k \in m..(j - 1)
  OBVIOUS
<1>3. \A k \in m..(j - 1) : t[k] = s[k]
  <2> SUFFICES ASSUME NEW k \in m..(j - 1) PROVE t[k] = s[k]
    OBVIOUS
  <2>1. k + 0 = k
    OBVIOUS
  <2> QED BY <2>1 DEF Shifted
<1>4. IsDigit(t[i])
  BY DEF IsDigit, Zero
<1>5. AllDigits(t, i, j)
  BY <1>2, <1>3, <1>4 DEF AllDigits
<1>6. Ints(t, i, j) /\ Ints(s, m, j) /\ t[i] \in Int /\ Zero \in Int
  BY <1>1, <1>3, <1>4, <1>5, DigitsAreInts DEF IsDigit, Zero
<1>7. Number(10, Zero, t, i, j)
        = Number(10, Zero, t, i, m) * Pow(10, j - m) + Number(10, Zero, t, m, j)
  BY <1>1, <1>6, NumberSplit DEF Zero
<1>8. Number(10, Zero, t, i, m) = d
  <2>1. 10 \in Int /\ Zero \in Int /\ t[i] \in Int
    BY <1>6
  <2>2. Number(10, Zero, t, i, i + 1) = t[i] - Zero
    <3> DEFINE b == 10
    <3>1. b \in Int
      OBVIOUS
    <3> HIDE DEF b
    <3>2. Number(b, Zero, t, i, i + 1) = t[i] - Zero
      BY ONLY <2>1, <3>1, i \in Int, NumberOfOne
    <3> QED BY <3>2 DEF b
  <2> QED BY <1>1, <2>2 DEF Zero
<1>9. Number(10, Zero, t, m, j) = Number(10, Zero, s, m, j)
  <2>1. Number(10, Zero, t, m + 0, j + 0) = Number(10, Zero, s, m, j)
    BY <1>1, <1>6, NumberSame
  <2> QED BY <1>1, <2>1
<1>10. Dec(t, i, j) = d * Pow(10, j - m) + Dec(s, m, j)
  BY <1>7, <1>8, <1>9 DEF Dec
<1> QED BY <1>5, <1>10

\* Copied to another place, a text still stands for the number.
LEMMA CanonicalSame ==
  ASSUME NEW s, NEW t, NEW i \in Int, NEW j \in Int, NEW d \in Int,
         NEW u \in Nat, NEW n, Shifted(s, i, j, t, d), Canonical(s, i, j, u, n)
  PROVE  Canonical(t, i + d, j + d, u, n)
<1>1. PICK p \in (i + 1)..j :
        /\ \A k \in i..(p - 1) : IsDigit(s[k])
        /\ s[i] = Zero => p = i + 1
        /\ \/ /\ p = j
              /\ Number(10, Zero, s, i, p) * Pow(10, u) = n
           \/ /\ s[p] = Period
              /\ p + 1 < j /\ j - (p + 1) <= u
              /\ \A k \in (p + 1)..(j - 1) : IsDigit(s[k])
              /\ s[j - 1] # Zero
              /\ Number(10, Zero, s, i, p) * Pow(10, u)
                   + Number(10, Zero, s, p + 1, j) * Pow(10, u - (j - (p + 1))) = n
  BY DEF Canonical
<1> DEFINE ii == i + d
           jj == j + d
           pp == p + d
<1>2. /\ p \in Int /\ i < p /\ p <= j /\ ii \in Int /\ jj \in Int
      /\ pp \in (ii + 1)..jj /\ (p = i + 1 => pp = ii + 1) /\ (p = j => pp = jj)
  OBVIOUS
<1>3. ASSUME NEW x \in i..j, NEW y \in i..j, x <= y, \A k \in x..(y - 1) : IsDigit(s[k])
      PROVE  /\ \A k \in (x + d)..(y + d - 1) : IsDigit(t[k])
             /\ Number(10, Zero, t, x + d, y + d) = Number(10, Zero, s, x, y)
  <2>1. Shifted(s, x, y, t, d)
    BY DEF Shifted
  <2>2. ASSUME NEW k \in (x + d)..(y + d - 1) PROVE IsDigit(t[k])
    <3>1. k - d \in x..(y - 1) /\ (k - d) + d = k
      OBVIOUS
    <3>2. t[k] = s[k - d]
      BY <2>1, <3>1 DEF Shifted
    <3> QED BY <1>3, <3>1, <3>2
  <2>3. Ints(s, x, y) /\ Zero \in Int /\ x \in Int /\ y \in Int
    BY <1>3 DEF Ints, IsDigit, Zero
  <2>4. Number(10, Zero, t, x + d, y + d) = Number(10, Zero, s, x, y)
    BY <1>3, <2>1, <2>3, NumberSame
  <2> QED BY <2>2, <2>4
<1>4. t[ii] = s[i]
  BY <1>2 DEF Shifted
<1>5. /\ \A k \in ii..(pp - 1) : IsDigit(t[k])
      /\ Number(10, Zero, t, ii, pp) = Number(10, Zero, s, i, p)
  <2>1. i \in i..j /\ p \in i..j /\ i <= p
    BY <1>2
  <2> QED BY <1>1, <1>3, <2>1
<1>6. CASE p = j /\ Number(10, Zero, s, i, p) * Pow(10, u) = n
  <2>1. pp = jj /\ Number(10, Zero, t, ii, pp) * Pow(10, u) = n
    BY <1>2, <1>5, <1>6
  <2> HIDE DEF ii, jj, pp
  <2>2. Canonical(t, ii, jj, u, n)
    BY <1>1, <1>2, <1>4, <1>5, <2>1 DEF Canonical
  <2> QED BY <2>2 DEF ii, jj
<1>7. CASE /\ s[p] = Period
           /\ p + 1 < j /\ j - (p + 1) <= u
           /\ \A k \in (p + 1)..(j - 1) : IsDigit(s[k])
           /\ s[j - 1] # Zero
           /\ Number(10, Zero, s, i, p) * Pow(10, u)
                + Number(10, Zero, s, p + 1, j) * Pow(10, u - (j - (p + 1))) = n
  <2>1. p + 1 \in i..j /\ j \in i..j /\ p + 1 <= j
    BY <1>2, <1>7
  <2>2. /\ \A k \in ((p + 1) + d)..(j + d - 1) : IsDigit(t[k])
        /\ Number(10, Zero, t, (p + 1) + d, j + d) = Number(10, Zero, s, p + 1, j)
    BY <1>3, <1>7, <2>1
  <2>3. (p + 1) + d = pp + 1 /\ pp + 1 < jj /\ jj - (pp + 1) = j - (p + 1)
    BY <1>2, <1>7
  <2>4. t[pp] = s[p] /\ t[jj - 1] = s[j - 1]
    <3>1. p \in i..(j - 1) /\ j - 1 \in i..(j - 1) /\ (j - 1) + d = jj - 1
      BY <1>2, <1>7
    <3> QED BY <3>1 DEF Shifted
  <2>5. /\ \A k \in (pp + 1)..(jj - 1) : IsDigit(t[k])
        /\ Number(10, Zero, t, pp + 1, jj) = Number(10, Zero, s, p + 1, j)
    BY <2>2, <2>3
  <2> HIDE DEF ii, jj, pp
  <2>6. Canonical(t, ii, jj, u, n)
    BY <1>1, <1>2, <1>4, <1>5, <1>7, <2>3, <2>4, <2>5 DEF Canonical
  <2> QED BY <2>6 DEF ii, jj
<1> QED BY <1>1, <1>6, <1>7

-----------------------------------------------------------------------------
(* Each action keeps the invariant *)

LEMMA TypeFacts ==
  ASSUME IInv
  PROVE  /\ balance \in AmountBytes /\ num \in AmountBytes
         /\ Value \in Nat /\ Amount(num) \in Nat
         /\ Scale \in 0..(Digits - 1)
         /\ fmt.suffix \in Seq(0..127) /\ Size \in 0..SymbolMax
         /\ buf \in [0..Top -> 0..127]
         /\ start \in Int /\ end \in Int /\ point \in Int
<1>1. balance \in AmountBytes /\ num \in AmountBytes
  BY AmountAssumption DEF IInv, TypeOK, AmountBytes
<1>2. Value \in Nat /\ Amount(num) \in Nat
  BY <1>1, AmountBound DEF Value
<1>3. fmt \in Formats
  BY DEF IInv, TypeOK
<1> QED BY <1>1, <1>2, <1>3, FormatType DEF IInv, TypeOK, Scale, Size

LEMMA InitIInv == Init => IInv
<1> SUFFICES ASSUME Init PROVE IInv
  OBVIOUS
<1>1. balance \in AmountBytes /\ num = balance /\ start = Top /\ end = Top /\ pc = "divide"
  BY AmountAssumption DEF Init, AmountBytes
<1>2. TypeOK
  <2>1. buf \in [0..Top -> 0..127]
    BY DEF Init, NUL
  <2>2. dest \in Seq(0..127)
    BY DEF Init
  <2>3. balance \in Balances /\ fmt \in Formats /\ point = 0
    BY DEF Init
  <2>4. Top \in Int
    BY Sizes
  <2>5. num \in [1..NumBytes -> 0..255]
    BY <1>1 DEF AmountBytes
  <2>6. start \in Int /\ end \in Int /\ point \in Int
    BY <1>1, <2>3, <2>4
  <2>7. pc \in {"divide", "pad", "shift", "trim", "suffix", "copy", "done"}
    BY <1>1
  <2> QED BY <2>1, <2>2, <2>3, <2>5, <2>6, <2>7 DEF TypeOK
<1>3. DivideInv
  <2>1. Amount(num) = Value /\ Amount(num) \in Nat /\ Amount(num) < Pow(10, Digits)
    BY <1>1, AmountBound DEF Value
  <2>2. Pow(10, 0) = 1
    BY PowZero
  <2>3. Dec(buf, Top, Top) = 0
    BY Sizes, NumberEmpty DEF Dec, Zero
  <2>4. Top - start = 0 /\ Digits - 0 = Digits
    BY <1>1, Sizes
  <2>5. AllDigits(buf, Top, Top)
    BY Sizes DEF AllDigits
  <2> QED BY <1>1, <2>1, <2>2, <2>3, <2>4, <2>5, Sizes DEF DivideInv
<1> QED BY <1>1, <1>2, <1>3 DEF IInv

\* Ten times the quotient and the digit in front of the others are what there
\* was to divide.
LEMMA DivideKeeps ==
  ASSUME IInv, Divide
  PROVE  IInv'
<1> DEFINE q == DivideByTen(num)
           k == Top - start
           a == Amount(num)
           aq == Amount(q.quotient)
           p == Pow(10, k)
<1>1. /\ pc = "divide" /\ num' = q.quotient /\ start' = start - 1
      /\ buf' = [buf EXCEPT ![start - 1] = Zero + q.r]
      /\ pc' = IF \A i \in 1..NumBytes : q.quotient[i] = 0 THEN "pad" ELSE "divide"
      /\ point' = IF \A i \in 1..NumBytes : q.quotient[i] = 0
                  THEN end - 1 - fmt.unitScale ELSE point
      /\ UNCHANGED <<balance, fmt, end, dest>>
  BY DEF Divide, input
<1>2. DivideInv
  BY <1>1 DEF IInv
<1>3. q.quotient \in AmountBytes /\ q.r \in 0..9 /\ a = 10 * aq + q.r
  BY TypeFacts, DivideExact
<1>4. /\ aq \in Nat
      /\ aq = 0 <=> \A i \in 1..NumBytes : q.quotient[i] = 0
  BY <1>3, AmountBound
<1> HIDE DEF q
<1>5. k \in Nat /\ k <= Digits /\ end = Top /\ start <= Top /\ a * p + Dec(buf, start, Top) = Value
      /\ a < Pow(10, Digits - k) /\ (start < Top => a > 0)
  BY <1>2, TypeFacts, Sizes DEF DivideInv
<1>6. k < Digits
  <2>1. SUFFICES ASSUME k = Digits PROVE FALSE
    BY <1>5, Sizes
  <2>2. Pow(10, Digits - k) = 1
    <3>1. Digits - k = 0
      BY <2>1, Sizes
    <3> QED BY <3>1, PowZero
  <2>3. start < Top
    BY <2>1, TypeFacts, Sizes
  <2> QED BY <1>5, <2>2, <2>3, TypeFacts
<1>7. /\ start - 1 \in 0..Top /\ start - 1 < Top /\ (start - 1) + 1 = start /\ start \in Int
      /\ Top - (start - 1) = k + 1 /\ k + 1 <= Digits /\ Digits - k = (Digits - (k + 1)) + 1
      /\ Digits - (k + 1) \in Nat
  <2>1. start \in Int /\ Top \in Int /\ Digits \in Int /\ Digits < Top
    BY TypeFacts, Sizes
  <2>2. k = Top - start
    OBVIOUS
  <2> HIDE DEF k
  <2> QED BY <1>5, <1>6, <2>1, <2>2
<1>8. buf' \in [0..Top -> 0..127] /\ buf'[start - 1] = Zero + q.r
  <2>1. Zero + q.r \in 0..127
    BY <1>3 DEF Zero
  <2> QED BY <1>1, <1>7, <2>1, TypeFacts
<1>9. /\ AllDigits(buf', start - 1, Top)
      /\ Dec(buf', start - 1, Top) = q.r * p + Dec(buf, start, Top)
  <2>1. AllDigits(buf, (start - 1) + 1, Top)
    BY <1>2, <1>7 DEF DivideInv
  <2>2. \A x \in ((start - 1) + 1)..(Top - 1) : buf'[x] = buf[x]
    BY <1>1, <1>7, TypeFacts, Sizes
  <2>3. start - 1 \in Int /\ Top \in Int
    BY <1>7, Sizes
  <2>4. /\ AllDigits(buf', start - 1, Top)
        /\ Dec(buf', start - 1, Top)
             = q.r * Pow(10, Top - ((start - 1) + 1)) + Dec(buf, (start - 1) + 1, Top)
    <3> DEFINE i == start - 1
               t == buf'
               d == q.r
               m == (start - 1) + 1
    <3>1. /\ i \in Int /\ m \in Int /\ Top \in Int /\ m = i + 1 /\ m <= Top
          /\ d \in 0..9 /\ t[i] = Zero + d
      BY <1>3, <1>7, <1>8, <2>3
    <3>2. AllDigits(buf, m, Top) /\ Shifted(buf, m, Top, t, 0)
      BY <2>1, <2>2, <2>3 DEF Shifted
    <3> HIDE DEF i, t, d, m
    <3>3. /\ AllDigits(t, i, Top)
          /\ Dec(t, i, Top) = d * Pow(10, Top - m) + Dec(buf, m, Top)
      BY <3>1, <3>2, DecPrepend
    <3> QED BY <3>3 DEF i, t, d, m
  <2> QED BY <1>7, <2>4
<1>10. Pow(10, k + 1) = 10 * p /\ p \in Nat
  BY <1>5, PowStep, PowType
<1>11. Dec(buf, start, Top) \in Int
  <2>1. AllDigits(buf, start, Top) /\ Top \in Int /\ start \in Int /\ start <= Top
    BY <1>2, <1>5, TypeFacts, Sizes DEF DivideInv
  <2>2. Ints(buf, start, Top) /\ Zero \in Int
    BY <2>1, DigitsAreInts DEF Zero
  <2> QED BY <2>1, <2>2, NumberType DEF Dec
<1>12. aq * Pow(10, k + 1) + Dec(buf', start - 1, Top) = Value
  <2> DEFINE w == Dec(buf, start, Top)
             r == q.r
  <2>1. w \in Int /\ r \in Int /\ aq \in Int /\ p \in Int /\ a = 10 * aq + r
    BY <1>3, <1>4, <1>10, <1>11
  <2>2. a * p + w = Value /\ Dec(buf', start - 1, Top) = r * p + w /\ Pow(10, k + 1) = 10 * p
    BY <1>5, <1>9, <1>10
  <2> HIDE DEF w, r, aq, p, a
  <2>3. (10 * aq + r) * p + w = aq * (10 * p) + (r * p + w)
    BY <2>1
  <2> QED BY <2>1, <2>2, <2>3
<1>13. aq < Pow(10, Digits - (k + 1))
  <2>1. Pow(10, Digits - k) = 10 * Pow(10, Digits - (k + 1)) /\ Pow(10, Digits - (k + 1)) \in Nat
    <3> DEFINE d == Digits - (k + 1)
    <3>1. d \in Nat /\ Digits - k = d + 1
      BY <1>7
    <3> HIDE DEF d
    <3>2. Pow(10, d + 1) = 10 * Pow(10, d) /\ Pow(10, d) \in Nat
      BY <3>1, PowStep, PowType
    <3> QED BY <3>1, <3>2 DEF d
  <2> QED BY <1>3, <1>4, <1>5, <2>1
<1>14. TypeOK'
  <2>1. pc' \in {"divide", "pad"} /\ point' \in Int /\ start' \in Int
    BY <1>1, TypeFacts DEF Scale
  <2> QED BY <1>1, <1>3, <1>8, <2>1 DEF IInv, TypeOK, AmountBytes
<1> HIDE DEF k, aq, p, a
<1>15. CASE aq = 0
  <2>1. pc' = "pad" /\ point' = Top - 1 - Scale
    BY <1>1, <1>4, <1>5, <1>15 DEF Scale
  <2>2. Dec(buf', start - 1, Top) = Value
    <3>1. \A x \in Int : 0 * x = 0
      OBVIOUS
    <3>2. Dec(buf', start - 1, Top) \in Int
      BY <1>3, <1>9, <1>10, <1>11
    <3> QED BY <1>7, <1>10, <1>12, <1>15, <3>1, <3>2
  <2>3. buf'[start - 1] = Zero => start - 1 >= Top - 1 - Scale
    <3>1. SUFFICES ASSUME buf'[start - 1] = Zero PROVE start - 1 >= Top - 1 - Scale
      OBVIOUS
    <3>2. q.r = 0
      BY <1>3, <1>8, <3>1 DEF Zero
    <3>3. a = 0
      BY <1>3, <1>15, <3>2
    <3>4. start \in Int /\ Top \in Int /\ start <= Top /\ Scale \in Nat
      BY <1>5, TypeFacts, Sizes
    <3> QED BY <1>5, <3>3, <3>4
  <2>4. Value' = Value /\ Scale' = Scale /\ end' = Top /\ Top' = Top /\ Digits' = Digits
    BY <1>1, <1>5 DEF Value, Scale, Top, AMOUNT_TEXT_MAX_LEN
  <2>5. PadInv'
    BY <1>1, <1>7, <1>9, <2>1, <2>2, <2>3, <2>4 DEF PadInv, Dec, AllDigits
  <2> QED BY <1>14, <2>1, <2>5 DEF IInv
<1>16. CASE aq # 0
  <2>1. pc' = "divide" /\ num' = q.quotient /\ Amount(num') = aq
    BY <1>1, <1>4, <1>16 DEF aq
  <2>2. Value' = Value /\ end' = Top
    BY <1>1, <1>5 DEF Value
  <2>3. DivideInv'
    BY <1>1, <1>4, <1>7, <1>9, <1>12, <1>13, <1>16, <2>1, <2>2
    DEF DivideInv, Dec, AllDigits
  <2> QED BY <1>14, <2>1, <2>3 DEF IInv
<1> QED BY <1>15, <1>16

\* A zero in front changes nothing, and the first one stands for the whole part.
LEMMA PadKeeps ==
  ASSUME IInv, Pad
  PROVE  IInv'
<1>1. /\ pc = "pad" /\ UNCHANGED <<balance, fmt, num, end, point, dest>>
      /\ \/ /\ start > point /\ start' = start - 1 /\ pc' = pc
            /\ buf' = [buf EXCEPT ![start - 1] = Zero]
         \/ /\ ~ (start > point) /\ pc' = "shift" /\ UNCHANGED <<start, buf>>
  BY DEF Pad, input
<1>2. PadInv
  BY <1>1 DEF IInv
<1>3. /\ start \in Int /\ end \in Int /\ point \in Int /\ Top \in Int /\ Scale \in 0..(Digits - 1)
      /\ buf \in [0..Top -> 0..127] /\ Digits \in Nat /\ Digits < Top
  BY TypeFacts, Sizes
<1>4. /\ end = Top /\ start < Top /\ Top - start <= Digits /\ point = Top - 1 - Scale
      /\ AllDigits(buf, start, Top) /\ Dec(buf, start, Top) = Value
      /\ (buf[start] = Zero => start >= point)
  BY <1>2 DEF PadInv
<1>5. Value' = Value /\ Scale' = Scale
  BY <1>1 DEF Value, Scale
<1>6. CASE start > point /\ start' = start - 1 /\ pc' = pc
           /\ buf' = [buf EXCEPT ![start - 1] = Zero]
  <2> DEFINE i == start - 1
             t == buf'
  <2>1. i \in 0..Top /\ i < Top /\ i + 1 = start /\ i >= point /\ Top - i <= Digits /\ i \in Int
    BY <1>3, <1>4, <1>6
  <2>2. t[i] = Zero + 0 /\ 0 \in 0..9
    BY <1>3, <1>6, <2>1 DEF Zero
  <2>3. \A x \in (i + 1)..(Top - 1) : t[x] = buf[x]
    BY <1>3, <1>6, <2>1
  <2>4. AllDigits(buf, i + 1, Top)
    BY <1>4, <2>1
  <2>5. t \in [0..Top -> 0..127]
    BY <1>3, <1>6, <2>1 DEF Zero
  <2>6. start' = i
    BY <1>6
  <2> HIDE DEF i, t
  <2>7. /\ AllDigits(t, i, Top)
        /\ Dec(t, i, Top) = 0 * Pow(10, Top - (i + 1)) + Dec(buf, i + 1, Top)
    <3> DEFINE z == 0
               m == i + 1
    <3>1. z \in 0..9 /\ t[i] = Zero + z
      BY <2>2
    <3>2. /\ i \in Int /\ m \in Int /\ Top \in Int /\ m = i + 1 /\ m <= Top
      BY <1>3, <2>1
    <3>3. AllDigits(buf, m, Top) /\ Shifted(buf, m, Top, t, 0)
      BY <2>3, <2>4, <3>2 DEF Shifted
    <3> HIDE DEF z, m
    <3>4. /\ AllDigits(t, i, Top)
          /\ Dec(t, i, Top) = z * Pow(10, Top - m) + Dec(buf, m, Top)
      BY <3>1, <3>2, <3>3, DecPrepend
    <3> QED BY <3>4 DEF z, m
  <2>8. Dec(t, i, Top) = Value
    <3>1. Top - (i + 1) \in Nat
      BY <1>3, <2>1
    <3>2. Pow(10, Top - (i + 1)) \in Nat
      BY <3>1, PowType
    <3> QED BY <1>4, <2>1, <2>7, <3>2, TypeFacts
  <2>9. TypeOK'
    BY <1>1, <1>6, <2>1, <2>5, <2>6 DEF IInv, TypeOK, t
  <2>10. PadInv'
    BY <1>1, <1>4, <1>5, <1>6, <2>1, <2>6, <2>7, <2>8 DEF PadInv, Dec, AllDigits, t
  <2> QED BY <1>1, <1>6, <2>9, <2>10 DEF IInv
<1>7. CASE ~ (start > point) /\ pc' = "shift" /\ UNCHANGED <<start, buf>>
  <2>1. TypeOK'
    BY <1>1, <1>7 DEF IInv, TypeOK
  <2>2. PadInv'
    BY <1>1, <1>3, <1>4, <1>5, <1>7 DEF PadInv, Dec, AllDigits
  <2> QED BY <1>7, <2>1, <2>2 DEF IInv
<1> QED BY <1>1, <1>6, <1>7

\* The digits in front of the point move by one place, and the point stands
\* where the last of them was.
LEMMA ShiftKeeps ==
  ASSUME IInv, Shift
  PROVE  IInv'
<1> DEFINE t == buf'
           m == point + 1
<1>1. /\ pc = "shift" /\ pc' = "trim" /\ start' = start - 1
      /\ UNCHANGED <<balance, fmt, num, end, point, dest>>
      /\ t = [i \in 0..Top |->
                IF i = point /\ point # end THEN Period
                ELSE IF start - 1 <= i /\ i < point THEN buf[i + 1] ELSE buf[i]]
  BY DEF Shift, input
<1> HIDE DEF t
<1>2. PadInv
  BY <1>1 DEF IInv
<1>3. /\ start \in Int /\ end \in Int /\ point \in Int /\ Top \in Int /\ Scale \in 0..(Digits - 1)
      /\ buf \in [0..Top -> 0..127] /\ Digits \in Nat /\ Digits < Top
  BY TypeFacts, Sizes
<1>4. /\ end = Top /\ start < Top /\ Top - start <= Digits /\ point = Top - 1 - Scale
      /\ AllDigits(buf, start, Top) /\ Dec(buf, start, Top) = Value
      /\ (buf[start] = Zero => start >= point) /\ start <= point
  BY <1>1, <1>2 DEF PadInv
<1>5. /\ m \in Int /\ start < m /\ m <= Top /\ point < Top /\ 0 <= start - 1 /\ start - 1 < point
      /\ Top - m = Scale /\ m = point + 1 /\ start - 1 \in Int
  BY <1>3, <1>4
<1> HIDE DEF m
<1>6. Value' = Value /\ Scale' = Scale
  BY <1>1 DEF Value, Scale
<1>7. t \in [0..Top -> 0..127]
  <2> SUFFICES ASSUME NEW i \in 0..Top PROVE t[i] \in 0..127
    BY <1>1
  <2>1. CASE i = point
    BY <1>1, <1>4, <1>5, <2>1 DEF Period
  <2>2. CASE i # point /\ start - 1 <= i /\ i < point
    <3>1. i + 1 \in 0..Top
      BY <1>3, <1>5, <2>2
    <3>2. t[i] = buf[i + 1]
      BY <1>1, <2>2
    <3> QED BY <1>3, <3>1, <3>2
  <2>3. CASE i # point /\ ~ (start - 1 <= i /\ i < point)
    <3>1. t[i] = buf[i]
      BY <1>1, <2>3
    <3> QED BY <1>3, <3>1
  <2> QED BY <2>1, <2>2, <2>3
<1>8. t[point] = Period
  BY <1>1, <1>3, <1>4, <1>5
<1>9. Shifted(buf, start, m, t, -1)
  <2> SUFFICES ASSUME NEW k \in start..(m - 1) PROVE t[k + (-1)] = buf[k]
    BY DEF Shifted
  <2> DEFINE i == k - 1
  <2>1. k + (-1) = i /\ i \in 0..Top /\ i # point /\ start - 1 <= i /\ i < point /\ i + 1 = k
    BY <1>3, <1>5
  <2> HIDE DEF i
  <2>2. t[i] = buf[i + 1]
    BY <1>1, <2>1
  <2> QED BY <2>1, <2>2
<1>10. Shifted(buf, m, Top, t, 0)
  <2> SUFFICES ASSUME NEW k \in m..(Top - 1) PROVE t[k + 0] = buf[k]
    BY DEF Shifted
  <2>1. k + 0 = k /\ k \in 0..Top /\ k # point /\ ~ (k < point)
    BY <1>3, <1>5
  <2> QED BY <1>1, <2>1
<1>11. Ints(buf, start, Top) /\ Ints(buf, start, m) /\ Ints(buf, m, Top) /\ Zero \in Int
       /\ Ints(t, start - 1, point) /\ Ints(t, m, Top)
  <2>1. ASSUME NEW i \in 0..Top PROVE buf[i] \in Int /\ t[i] \in Int
    <3>1. buf[i] \in 0..127
      BY <1>3
    <3>2. t[i] \in 0..127
      BY <1>7
    <3> QED BY <3>1, <3>2
  <2> QED BY <1>3, <1>5, <2>1 DEF Ints, Zero
<1>12. Dec(t, start - 1, point) = Dec(buf, start, m)
  <2>1. start + (-1) = start - 1 /\ m + (-1) = point /\ -1 \in Int /\ start <= m
    BY <1>3, <1>5
  <2>2. Number(10, Zero, t, start + (-1), m + (-1)) = Number(10, Zero, buf, start, m)
    BY <1>3, <1>5, <1>9, <1>11, <2>1, NumberSame
  <2> QED BY <2>1, <2>2 DEF Dec
<1>13. Dec(t, m, Top) = Dec(buf, m, Top)
  <2>1. Number(10, Zero, t, m + 0, Top + 0) = Number(10, Zero, buf, m, Top)
    BY <1>3, <1>5, <1>10, <1>11, NumberSame
  <2>2. m + 0 = m /\ Top + 0 = Top
    BY <1>3, <1>5
  <2> QED BY <2>1, <2>2 DEF Dec
<1>14. Dec(t, start - 1, point) * Pow(10, Scale) + Dec(t, m, Top) * Pow(10, Scale - (Top - m)) = Value
  <2>1. Number(10, Zero, buf, start, Top)
          = Number(10, Zero, buf, start, m) * Pow(10, Top - m) + Number(10, Zero, buf, m, Top)
    BY <1>3, <1>5, <1>11, NumberSplit
  <2>2. Scale - (Top - m) = 0
    BY <1>3, <1>5
  <2>3. Pow(10, Scale - (Top - m)) = 1
    BY <2>2, PowZero
  <2>4. Dec(buf, m, Top) \in Int
    BY <1>3, <1>5, <1>11, NumberType DEF Dec
  <2>5. Dec(buf, start, Top) = Dec(buf, start, m) * Pow(10, Scale) + Dec(buf, m, Top)
    BY <1>5, <2>1 DEF Dec
  <2> QED BY <1>4, <1>12, <1>13, <2>3, <2>4, <2>5
<1>15. AllDigits(t, start - 1, point) /\ AllDigits(t, m, Top)
  <2>1. \A k \in start..(Top - 1) : IsDigit(buf[k])
    BY <1>4 DEF AllDigits
  <2>2. ASSUME NEW k \in (start - 1)..(point - 1) PROVE IsDigit(t[k])
    <3> DEFINE i == k + 1
    <3>1. i \in start..(m - 1) /\ i + (-1) = k /\ i \in start..(Top - 1)
      BY <1>3, <1>5
    <3> HIDE DEF i
    <3>2. t[k] = buf[i]
      BY <1>9, <3>1 DEF Shifted
    <3> QED BY <2>1, <3>1, <3>2
  <2>3. ASSUME NEW k \in m..(Top - 1) PROVE IsDigit(t[k])
    <3>1. k + 0 = k /\ k \in start..(Top - 1)
      BY <1>3, <1>5
    <3>2. t[k] = buf[k]
      BY <1>10, <3>1 DEF Shifted
    <3> QED BY <2>1, <3>1, <3>2
  <2> QED BY <2>2, <2>3 DEF AllDigits
<1>16. t[start - 1] = Zero => point = (start - 1) + 1
  <2>1. start \in start..(m - 1) /\ start + (-1) = start - 1
    BY <1>3, <1>5
  <2>2. t[start - 1] = buf[start]
    BY <1>9, <2>1 DEF Shifted
  <2> QED BY <1>3, <1>4, <2>2
<1>17. TypeOK'
  <2>1. start' \in Int /\ pc' = "trim"
    BY <1>1, <1>5
  <2>2. buf' \in [0..Top -> 0..127]
    BY <1>7 DEF t
  <2> QED BY <1>1, <2>1, <2>2 DEF IInv, TypeOK
<1>18. TrimInv'
  <2>1. start - 1 < point /\ point <= Top /\ Top - (start - 1) <= Digits + 1 /\ Top > point
    BY <1>3, <1>4, <1>5
  <2>2. start' = start - 1 /\ point' = point /\ end' = Top /\ buf' = t /\ Top' = Top
    BY <1>1, <1>4 DEF t, Top, AMOUNT_TEXT_MAX_LEN
  <2>3. /\ AllDigits(t, point + 1, Top)
        /\ Dec(t, start - 1, point) * Pow(10, Scale)
             + Dec(t, point + 1, Top) * Pow(10, Scale - (Top - (point + 1))) = Value
    BY <1>5, <1>14, <1>15
  <2> HIDE DEF t
  <2>4. t[point] = Period /\ AllDigits(t, start - 1, point) /\ point = Top - 1 - Scale
    BY <1>4, <1>8, <1>15
  <2>5. /\ start' < point' /\ point' <= end' /\ end' <= Top' /\ Top' - start' <= Digits + 1
        /\ point' = Top' - 1 - Scale' /\ end' > point'
    BY <1>3, <1>5, <1>6, <2>1, <2>2, <2>4
  <2>8. buf'[point'] = Period /\ (buf'[start'] = Zero => point' = start' + 1)
    BY <1>16, <2>2, <2>4
  <2>6. AllDigits(buf', start', point') /\ AllDigits(buf', point' + 1, end')
    BY <2>2, <2>3, <2>4
  <2>7. Dec(buf', start', point') * Pow(10, Scale')
          + Dec(buf', point' + 1, end') * Pow(10, Scale' - (end' - (point' + 1))) = Value'
    BY <1>6, <2>2, <2>3, Zenon
  <2> QED BY <2>5, <2>6, <2>7, <2>8 DEF TrimInv, Dec, AllDigits
<1> QED BY <1>1, <1>17, <1>18 DEF IInv

\* A zero taken off the end takes a power of ten with it.
LEMMA TrimOneKeeps ==
  ASSUME IInv, pc = "trim", end > point, buf[end - 1] \in {Zero, Period},
         end' = end - 1, UNCHANGED <<pc, balance, fmt, num, buf, start, point, dest>>
  PROVE  IInv'
<1> DEFINE m == point + 1
           e == end - 1
           x == Scale - (end - m)
<1>1. TrimInv
  BY DEF IInv
<1>2. /\ start \in Int /\ end \in Int /\ point \in Int /\ Top \in Int /\ Scale \in 0..(Digits - 1)
      /\ buf \in [0..Top -> 0..127] /\ Digits \in Nat /\ Digits < Top
  BY TypeFacts, Sizes
<1>3. /\ start < point /\ point <= end /\ end <= Top /\ Top - start <= Digits + 1
      /\ point = Top - 1 - Scale /\ AllDigits(buf, start, point)
      /\ (buf[start] = Zero => point = start + 1)
  BY <1>1 DEF TrimInv
<1>4. /\ buf[point] = Period /\ AllDigits(buf, m, end)
      /\ Dec(buf, start, point) * Pow(10, Scale) + Dec(buf, m, end) * Pow(10, x) = Value
  <2>1. end # point
    BY <1>2
  <2> QED BY <1>1, <2>1 DEF TrimInv
<1>5. /\ m \in Int /\ e \in Int /\ m <= end /\ e + 1 = end /\ m = point + 1 /\ x \in Nat
      /\ point <= e /\ e <= Top /\ (e # point => m <= e) /\ Scale - (e - m) = x + 1
      /\ (e = point => e < m /\ end = m /\ x = Scale)
  BY <1>2, <1>3
<1> HIDE DEF m, e, x
<1>6. Value' = Value /\ Scale' = Scale
  BY DEF Value, Scale
<1>7. TypeOK'
  BY <1>5 DEF IInv, TypeOK, e
<1>8. start' = start /\ point' = point /\ end' = e /\ buf' = buf /\ Top' = Top
  BY DEF e, Top, AMOUNT_TEXT_MAX_LEN
<1>9. /\ start' < point' /\ point' <= end' /\ end' <= Top' /\ Top' - start' <= Digits + 1
      /\ point' = Top' - 1 - Scale' /\ AllDigits(buf', start', point')
      /\ (buf'[start'] = Zero => point' = start' + 1)
  BY <1>2, <1>3, <1>5, <1>6, <1>8
<1>10. CASE e = point
  <2>1. Dec(buf, m, end) = 0
    BY <1>5, <1>10, NumberEmpty DEF Dec, Zero
  <2>2. Dec(buf, start, point) \in Int
    <3>1. Ints(buf, start, point) /\ Zero \in Int /\ start <= point
      BY <1>2, <1>3, DigitsAreInts DEF Zero
    <3> QED BY <1>2, <3>1, NumberType DEF Dec
  <2>3. Pow(10, Scale) \in Nat
    BY <1>2, PowType
  <2>4. Dec(buf, start, point) * Pow(10, Scale) = Value
    <3> DEFINE v == Dec(buf, start, point)
               p == Pow(10, Scale)
               w == Dec(buf, m, end)
    <3>1. v * p + w * p = Value /\ w = 0 /\ v \in Int /\ p \in Int
      BY <1>4, <1>5, <1>10, <2>1, <2>2, <2>3
    <3> HIDE DEF v, p, w
    <3>2. v * p \in Int /\ 0 * p = 0
      BY <3>1
    <3>3. v * p = Value
      BY <3>1, <3>2
    <3> QED BY <3>3 DEF v, p
  <2>5. end' = point' /\ Dec(buf', start', point') * Pow(10, Scale') = Value'
    BY <1>6, <1>8, <1>10, <2>4
  <2>6. TrimInv'
    BY <1>9, <2>5 DEF TrimInv, Dec, AllDigits
  <2> QED BY <1>7, <2>6 DEF IInv
<1>11. CASE e # point
  <2>1. m <= e /\ point < e
    BY <1>2, <1>5, <1>11
  <2>2. e \in m..(end - 1)
    BY <1>2, <1>5, <2>1
  <2>3. IsDigit(buf[e])
    BY <1>4, <2>2 DEF AllDigits
  <2>4. buf[e] = Zero
    BY <2>3 DEF IsDigit, Zero, Period, e
  <2>5. AllDigits(buf, m, e)
    BY <1>2, <1>4, <1>5 DEF AllDigits
  <2>6. Ints(buf, m, e) /\ Ints(buf, m, e + 1) /\ Zero \in Int
    <3>1. Ints(buf, m, end)
      BY <1>2, <1>4, <1>5, DigitsAreInts
    <3> QED BY <1>2, <1>5, <3>1 DEF Ints, Zero
  <2>7. Dec(buf, m, end) = 10 * Dec(buf, m, e) /\ Dec(buf, m, e) \in Int
    <3>1. Number(10, Zero, buf, m, e + 1) = 10 * Number(10, Zero, buf, m, e) + (buf[e] - Zero)
      BY <1>5, <2>1, <2>6, NumberStep
    <3>2. Number(10, Zero, buf, m, e) \in Int
      BY <1>5, <2>1, <2>6, NumberType
    <3>3. buf[e] - Zero = 0
      BY <2>4 DEF Zero
    <3> QED BY <1>5, <3>1, <3>2, <3>3 DEF Dec
  <2>8. Pow(10, x + 1) = 10 * Pow(10, x) /\ Pow(10, x) \in Nat
    <3>1. x \in Nat
      BY <1>5
    <3> QED BY <3>1, TenStep
  <2>9. Dec(buf, m, end) * Pow(10, x) = Dec(buf, m, e) * Pow(10, x + 1)
    <3> DEFINE w == Dec(buf, m, e)
               p == Pow(10, x)
    <3>1. w \in Int /\ p \in Int /\ Dec(buf, m, end) = 10 * w /\ Pow(10, x + 1) = 10 * p
      BY <2>7, <2>8
    <3> HIDE DEF w, p
    <3>2. (10 * w) * p = w * (10 * p)
      BY <3>1
    <3>3. Dec(buf, m, end) * p = w * Pow(10, x + 1)
      BY <3>1, <3>2
    <3> QED BY <3>3 DEF w, p
  <2>10. Dec(buf, start, point) * Pow(10, Scale)
           + Dec(buf, point + 1, e) * Pow(10, Scale - (e - (point + 1))) = Value
    BY <1>4, <1>5, <2>9
  <2>11. /\ end' > point' /\ buf'[point'] = Period
    BY <1>4, <1>8, <1>2, <1>5, <2>1
  <2>12. AllDigits(buf', point' + 1, end')
    BY <1>5, <1>8, <2>5
  <2>13. Dec(buf', start', point') * Pow(10, Scale')
           + Dec(buf', point' + 1, end') * Pow(10, Scale' - (end' - (point' + 1))) = Value'
    BY <1>6, <1>8, <2>10, Zenon
  <2>14. TrimInv'
    BY <1>9, <2>11, <2>12, <2>13 DEF TrimInv, Dec, AllDigits
  <2> QED BY <1>7, <2>14 DEF IInv
<1> QED BY <1>10, <1>11

\* Where no zero is left at the end, the text is the one that stands for the
\* amount; the terminator is behind it.
LEMMA TrimEndKeeps ==
  ASSUME IInv, pc = "trim", ~ (end > point /\ buf[end - 1] \in {Zero, Period}),
         buf' = [buf EXCEPT ![end] = NUL], pc' = "suffix",
         UNCHANGED <<balance, fmt, num, start, end, point, dest>>
  PROVE  IInv'
<1>1. TrimInv
  BY DEF IInv
<1>2. /\ start \in Int /\ end \in Int /\ point \in Int /\ Top \in Int /\ Scale \in 0..(Digits - 1)
      /\ buf \in [0..Top -> 0..127] /\ Digits \in Nat /\ Digits < Top
  BY TypeFacts, Sizes
<1>3. /\ start < point /\ point <= end /\ end <= Top /\ Top - start <= Digits + 1
      /\ point = Top - 1 - Scale /\ AllDigits(buf, start, point)
      /\ (buf[start] = Zero => point = start + 1)
  BY <1>1 DEF TrimInv
<1>4. Canonical(buf, start, end, Scale, Value)
  <2>1. point \in (start + 1)..end
    BY <1>2, <1>3
  <2>2. \A k \in start..(point - 1) : IsDigit(buf[k])
    BY <1>3 DEF AllDigits
  <2>3. CASE end = point
    <3>1. Number(10, Zero, buf, start, point) * Pow(10, Scale) = Value
      BY <1>1, <1>2, <2>3 DEF TrimInv, Dec
    <3> QED BY <1>3, <2>1, <2>2, <2>3, <3>1 DEF Canonical
  <2>4. CASE end # point
    <3>1. /\ end > point /\ buf[point] = Period /\ AllDigits(buf, point + 1, end)
          /\ Dec(buf, start, point) * Pow(10, Scale)
               + Dec(buf, point + 1, end) * Pow(10, Scale - (end - (point + 1))) = Value
      BY <1>1, <2>4 DEF TrimInv
    <3>2. buf[end - 1] # Zero /\ buf[end - 1] # Period
      BY <3>1
    <3>3. end - 1 # point
      BY <3>1, <3>2
    <3>4. point + 1 < end /\ end - (point + 1) <= Scale
      BY <1>2, <1>3, <3>1, <3>3
    <3>5. \A k \in (point + 1)..(end - 1) : IsDigit(buf[k])
      BY <3>1 DEF AllDigits
    <3>6. Number(10, Zero, buf, start, point) * Pow(10, Scale)
            + Number(10, Zero, buf, point + 1, end) * Pow(10, Scale - (end - (point + 1))) = Value
      BY <3>1 DEF Dec
    <3> QED BY <1>3, <2>1, <2>2, <3>1, <3>2, <3>4, <3>5, <3>6 DEF Canonical
  <2> QED BY <2>3, <2>4
<1>5. Canonical(buf', start, end, Scale, Value)
  <2>1. Shifted(buf, start, end, buf', 0)
    BY <1>2, <1>3 DEF Shifted
  <2>2. start + 0 = start /\ end + 0 = end /\ 0 \in Int /\ Scale \in Nat
    BY <1>2
  <2>3. Canonical(buf', start + 0, end + 0, Scale, Value)
    BY <1>2, <1>4, <2>1, <2>2, CanonicalSame
  <2> QED BY <2>2, <2>3
<1>6. TypeOK'
  <2>1. buf' \in [0..Top -> 0..127]
    <3>1. NUL \in 0..127 /\ buf \in [0..Top -> 0..127] /\ buf' = [buf EXCEPT ![end] = NUL]
      BY <1>2 DEF NUL
    <3> QED BY <3>1, Zenon
  <2> QED BY <2>1 DEF IInv, TypeOK
<1>7. SuffixInv'
  <2>1. Value' = Value /\ Scale' = Scale
    BY DEF Value, Scale
  <2>2. start < end
    BY <1>2, <1>3
  <2> QED BY <1>3, <1>5, <2>1, <2>2 DEF SuffixInv
<1> QED BY <1>6, <1>7 DEF IInv

LEMMA TrimKeeps ==
  ASSUME IInv, Trim
  PROVE  IInv'
BY TrimOneKeeps, TrimEndKeeps DEF Trim, input

\* The symbol and a space in front of the text leave it what it is.
LEMMA SuffixKeeps ==
  ASSUME IInv, Suffix
  PROVE  IInv'
<1> DEFINE first == start - 1 - Size
<1>1. /\ pc = "suffix" /\ pc' = "copy" /\ UNCHANGED <<balance, fmt, num, end, point, dest>>
      /\ \/ /\ Size > 0 /\ start' = first
            /\ buf' = [i \in 0..Top |->
                         IF first <= i /\ i < start - 1 THEN fmt.suffix[i - first + 1]
                         ELSE IF i = start - 1 THEN Space ELSE buf[i]]
         \/ ~ (Size > 0) /\ start' = start /\ buf' = buf
  BY DEF Suffix, input
<1> HIDE DEF first
<1>2. SuffixInv
  BY <1>1 DEF IInv
<1>3. /\ start \in Int /\ end \in Int /\ Top \in Int /\ Scale \in 0..(Digits - 1)
      /\ buf \in [0..Top -> 0..127] /\ Digits \in Nat /\ Top = SymbolMax + 1 + Digits + 1
      /\ SymbolMax \in Nat /\ Size \in 0..SymbolMax
  BY TypeFacts, Sizes
<1>4. /\ start < end /\ end <= Top /\ Top - start <= Digits + 1
      /\ Canonical(buf, start, end, Scale, Value)
  BY <1>2 DEF SuffixInv
<1>5. fmt.suffix \in Seq(0..127) /\ Len(fmt.suffix) = Size
  BY TypeFacts DEF Size
<1>6. Value' = Value /\ Scale' = Scale /\ Size' = Size /\ Skip' = Skip
  BY <1>1 DEF Value, Scale, Size, Skip
<1>7. CASE /\ Size > 0 /\ start' = first
           /\ buf' = [i \in 0..Top |->
                        IF first <= i /\ i < start - 1 THEN fmt.suffix[i - first + 1]
                        ELSE IF i = start - 1 THEN Space ELSE buf[i]]
  <2> DEFINE t == buf'
  <2>1. first \in Int /\ 0 <= first /\ first + Size = start - 1 /\ first + (Size + 1) = start
    BY <1>3, <1>4 DEF first
  <2>2. t = [i \in 0..Top |->
               IF first <= i /\ i < start - 1 THEN fmt.suffix[i - first + 1]
               ELSE IF i = start - 1 THEN Space ELSE buf[i]]
    BY <1>7
  <2> HIDE DEF t
  <2>3. ASSUME NEW i \in first..(start - 2)
        PROVE  t[i] = fmt.suffix[i - first + 1] /\ i - first + 1 \in 1..Size
    BY <1>3, <1>4, <2>1, <2>2
  <2>4. t[start - 1] = Space
    BY <1>3, <1>4, <2>1, <2>2
  <2>5. \A i \in start..Top : t[i] = buf[i]
    BY <1>3, <2>1, <2>2
  <2>6. t \in [0..Top -> 0..127]
    <3> SUFFICES ASSUME NEW i \in 0..Top PROVE t[i] \in 0..127
      BY <2>2
    <3>1. CASE first <= i /\ i < start - 1
      <4>1. i \in first..(start - 2)
        BY <1>3, <2>1, <3>1
      <4>2. t[i] = fmt.suffix[i - first + 1] /\ i - first + 1 \in 1..Len(fmt.suffix)
        BY <1>5, <2>3, <4>1
      <4> DEFINE x == i - first + 1
      <4>3. x \in 1..Len(fmt.suffix)
        BY <4>2
      <4> HIDE DEF x
      <4>4. fmt.suffix[x] \in 0..127
        BY <1>5, <4>3, ElementsOfSeq
      <4> QED BY <4>2, <4>4 DEF x
    <3>2. CASE i = start - 1
      BY <2>4, <3>2 DEF Space
    <3>3. CASE ~ (first <= i /\ i < start - 1) /\ i # start - 1
      <4>1. t[i] = buf[i]
        BY <2>2, <3>3
      <4> QED BY <1>3, <4>1
    <3> QED BY <3>1, <3>2, <3>3
  <2>7. Skip = Size + 1
    <3>1. fmt.suffix # << >>
      BY <1>5, <1>7
    <3> QED BY <3>1 DEF Skip
  <2>8. ASSUME NEW k \in 1..Skip PROVE t[first + k - 1] = Append(fmt.suffix, Space)[k]
    <3>1. CASE k <= Size
      <4>1. first + k - 1 \in first..(start - 2) /\ (first + k - 1) - first + 1 = k
        BY <1>3, <2>1, <2>7, <3>1
      <4>2. t[first + k - 1] = fmt.suffix[k]
        BY <2>3, <4>1
      <4>3. k \in 1..Len(fmt.suffix)
        BY <1>3, <1>5, <2>7, <3>1
      <4>4. Append(fmt.suffix, Space)[k] = fmt.suffix[k]
        BY <1>5, <4>3
      <4> QED BY <4>2, <4>4
    <3>2. CASE ~ (k <= Size)
      <4>1. k = Size + 1 /\ k = Len(fmt.suffix) + 1
        BY <1>3, <1>5, <2>7, <3>2
      <4>2. first + k - 1 = start - 1
        BY <1>3, <2>1, <4>1
      <4>3. Append(fmt.suffix, Space)[k] = Space
        BY <1>5, <4>1
      <4> QED BY <2>4, <4>2, <4>3
    <3> QED BY <3>1, <3>2
  <2>9. Canonical(t, start, end, Scale, Value)
    <3>1. Shifted(buf, start, end, t, 0)
      BY <1>3, <1>4, <2>5 DEF Shifted
    <3>2. start + 0 = start /\ end + 0 = end /\ 0 \in Int /\ Scale \in Nat
      BY <1>3
    <3>3. Canonical(t, start + 0, end + 0, Scale, Value)
      BY <1>3, <1>4, <3>1, <3>2, CanonicalSame
    <3> QED BY <3>2, <3>3
  <2>10. start' = first /\ buf' = t
    BY <1>7 DEF t
  <2>11. TypeOK'
    BY <1>1, <2>1, <2>6, <2>10 DEF IInv, TypeOK
  <2>12. first + Skip = start
    BY <2>1, <2>7
  <2>13. CopyInv'
    BY <1>1, <1>3, <1>4, <1>6, <2>1, <2>8, <2>9, <2>10, <2>12 DEF CopyInv
  <2> QED BY <1>1, <2>11, <2>13 DEF IInv
<1>8. CASE ~ (Size > 0) /\ start' = start /\ buf' = buf
  <2>1. Skip = 0
    <3>1. fmt.suffix = << >>
      <4>1. Len(fmt.suffix) = 0
        BY <1>3, <1>5, <1>8
      <4> QED BY <1>5, <4>1
    <3> QED BY <3>1 DEF Skip
  <2>2. TypeOK'
    BY <1>1, <1>8 DEF IInv, TypeOK
  <2>3. 0 <= start /\ start + 0 = start
    BY <1>3, <1>4
  <2>4. CopyInv'
    BY <1>1, <1>3, <1>4, <1>6, <1>8, <2>1, <2>3 DEF CopyInv
  <2> QED BY <1>1, <2>2, <2>4 DEF IInv
<1> QED BY <1>1, <1>7, <1>8

LEMMA CopyKeeps ==
  ASSUME IInv, Copy
  PROVE  IInv'
<1> DEFINE n == end - start
           t == [i \in 1..n |-> buf[start + i - 1]]
<1>1. /\ pc = "copy" /\ pc' = "done" /\ dest' = t
      /\ UNCHANGED <<balance, fmt, num, buf, start, end, point>>
  BY DEF Copy, input
<1>2. CopyInv
  BY <1>1 DEF IInv
<1>3. /\ start \in Int /\ end \in Int /\ Top \in Int /\ Scale \in 0..(Digits - 1)
      /\ buf \in [0..Top -> 0..127]
  BY TypeFacts, Sizes
<1>4. /\ 0 <= start /\ start + Skip < end /\ end <= Top
      /\ \A k \in 1..Skip : buf[start + k - 1] = Append(fmt.suffix, Space)[k]
      /\ Canonical(buf, start + Skip, end, Scale, Value)
  BY <1>2 DEF CopyInv
<1>5. Skip \in Nat /\ Skip = IF fmt.suffix = << >> THEN 0 ELSE Len(fmt.suffix) + 1
  BY TypeFacts DEF Skip, Size
<1>6. n \in Nat /\ Skip < n
  BY <1>3, <1>4, <1>5
<1>7. \A i \in 1..n : t[i] = buf[start + i - 1] /\ start + i - 1 \in 0..Top
  BY <1>3, <1>4
<1>8. t \in Seq(0..127) /\ Len(t) = n
  <2>1. \A i \in 1..n : t[i] \in 0..127
    BY <1>3, <1>7
  <2>2. t \in [1..n -> 0..127]
    BY <2>1
  <2> HIDE DEF t
  <2> QED BY <1>6, <2>2, FunctionIsSeq
<1> HIDE DEF n, t
<1>9. TypeOK'
  BY <1>1, <1>8 DEF IInv, TypeOK
<1>10. \A k \in 1..Skip : t[k] = Append(fmt.suffix, Space)[k]
  <2>1. \A k \in 1..Skip : k \in 1..n
    BY <1>5, <1>6
  <2> QED BY <1>4, <1>7, <2>1
<1>11. Canonical(t, Skip + 1, Len(t) + 1, Scale, Value)
  <2> DEFINE d == 1 - start
             i == start + Skip
  <2>1. d \in Int /\ i \in Int /\ i + d = Skip + 1 /\ end + d = n + 1 /\ Scale \in Nat
    BY <1>3, <1>5 DEF n
  <2>2. Shifted(buf, i, end, t, d)
    <3> SUFFICES ASSUME NEW k \in i..(end - 1) PROVE t[k + d] = buf[k]
      BY DEF Shifted
    <3> DEFINE x == k + d
    <3>1. x \in 1..n /\ start + x - 1 = k
      BY <1>3, <1>4, <1>5 DEF n
    <3> HIDE DEF x
    <3>2. t[x] = buf[k]
      BY <1>7, <3>1
    <3> QED BY <3>2 DEF x
  <2>3. Canonical(buf, i, end, Scale, Value)
    BY <1>4
  <2> HIDE DEF d, i
  <2>4. Canonical(t, i + d, end + d, Scale, Value)
    BY <1>3, <2>1, <2>2, <2>3, CanonicalSame
  <2> QED BY <1>8, <2>1, <2>4
<1>12. Denotes(t, fmt, balance)
  BY <1>5, <1>6, <1>8, <1>10, <1>11 DEF Denotes, Scale, Value
<1>13. TextIsExact'
  BY <1>1, <1>12 DEF TextIsExact
<1>14. 0 <= start /\ start <= end /\ end <= Top
  BY <1>3, <1>4, <1>5
<1> QED BY <1>1, <1>9, <1>13, <1>14 DEF IInv

-----------------------------------------------------------------------------
(* The theorems *)

LEMMA NextKeepsIInv == IInv /\ [Next]_vars => IInv'
<1> SUFFICES ASSUME IInv, [Next]_vars PROVE IInv'
  OBVIOUS
<1>1. CASE Divide
  BY <1>1, DivideKeeps
<1>2. CASE Pad
  BY <1>2, PadKeeps
<1>3. CASE Shift
  BY <1>3, ShiftKeeps
<1>4. CASE Trim
  BY <1>4, TrimKeeps
<1>5. CASE Suffix
  BY <1>5, SuffixKeeps
<1>6. CASE Copy
  BY <1>6, CopyKeeps
<1>7. CASE UNCHANGED vars
  <2>1. /\ pc' = pc /\ balance' = balance /\ fmt' = fmt /\ num' = num /\ buf' = buf
        /\ start' = start /\ end' = end /\ point' = point /\ dest' = dest
    BY <1>7 DEF vars, input
  <2>2. TypeOK'
    BY <2>1 DEF IInv, TypeOK
  <2>3. (pc = "divide" => DivideInv)'
    BY <2>1 DEF IInv, DivideInv, Value
  <2>4. (pc \in {"pad", "shift"} => PadInv)'
    BY <2>1 DEF IInv, PadInv, Value, Scale
  <2>5. (pc = "trim" => TrimInv)'
    BY <2>1 DEF IInv, TrimInv, Value, Scale
  <2>6. (pc = "suffix" => SuffixInv)'
    BY <2>1 DEF IInv, SuffixInv, Value, Scale
  <2>7. (pc = "copy" => CopyInv)'
    BY <2>1 DEF IInv, CopyInv, Value, Scale, Skip, Size
  <2>8. (pc = "done" => 0 <= start /\ start <= end /\ end <= Top /\ TextIsExact)'
    BY <2>1 DEF IInv, TextIsExact
  <2> QED
    BY <2>2, <2>3, <2>4, <2>5, <2>6, <2>7, <2>8 DEF IInv
<1> QED
  BY <1>1, <1>2, <1>3, <1>4, <1>5, <1>6, <1>7 DEF Next, Done

LEMMA Invariance == Spec => []IInv
<1> QED
  BY InitIInv, NextKeepsIInv, PTL DEF Spec

\* The amount has no more digits than there is room for, nor does a scale
\* reach in front of them.
LEMMA IInvInBounds == IInv => InBounds
<1> SUFFICES ASSUME IInv PROVE InBounds
  OBVIOUS
<1>1. /\ start \in Int /\ end \in Int /\ point \in Int /\ Scale \in 0..(Digits - 1)
      /\ Top \in Nat /\ Top = SymbolMax + 1 + Digits + 1
      /\ SymbolMax \in Nat /\ Digits \in Nat /\ Digits > 0 /\ Skip \in Nat
  BY TypeFacts, Sizes DEF Skip
<1>2. CASE pc = "divide"
  BY <1>1, <1>2 DEF IInv, DivideInv, InBounds
<1>3. CASE pc \in {"pad", "shift"}
  BY <1>1, <1>3 DEF IInv, PadInv, InBounds
<1>4. CASE pc = "trim"
  BY <1>1, <1>4 DEF IInv, TrimInv, InBounds
<1>5. CASE pc = "suffix"
  BY <1>1, <1>5 DEF IInv, SuffixInv, InBounds
<1>6. CASE pc = "copy"
  BY <1>1, <1>6 DEF IInv, CopyInv, InBounds
<1>7. CASE pc = "done"
  BY <1>1, <1>7 DEF IInv, InBounds
<1> QED
  BY <1>2, <1>3, <1>4, <1>5, <1>6, <1>7 DEF IInv, TypeOK

(* Every variable keeps its type: what is written to the buffer is always an
   ASCII character, every quotient has bytes (libv_helpers.c:181-275). *)
THEOREM TypeCorrect == Spec => []TypeOK
<1>1. IInv => TypeOK
  BY DEF IInv
<1> QED
  BY <1>1, Invariance, PTL

(* No index leaves the buffer: for amounts of any size, every scale and every
   symbol that the table may hold, AMOUNT_TEXT_MAX_LEN is enough
   (libv_helpers.c:185-274, libv_rom_variables.h:40). *)
THEOREM BoundsSafe == Spec => []InBounds
<1> QED
  BY Invariance, IInvInBounds, PTL

(* The text that is shown for an amount is exact and in its only form, for
   every amount, scale and symbol (libv_helpers.c:181-275). *)
THEOREM TextExact == Spec => []TextIsExact
<1>1. IInv => TextIsExact
  BY DEF IInv, TextIsExact
<1> QED
  BY <1>1, Invariance, PTL

\* Every turn of a loop moves an end of the text to the left; in between the
\* next loop begins.
Phase == [divide |-> 6, pad |-> 5, shift |-> 4, trim |-> 3, suffix |-> 2,
          copy |-> 1, done |-> 0]
Left == start + end + Phase[pc]

(* The loops end: from one step to the next something that cannot go below
   zero decreases, so that no amount keeps the app dividing, padding or
   trimming for ever (libv_helpers.c:193-262). *)
THEOREM Terminates == Spec => [][Left' < Left /\ Left' \in Nat]_vars
<1>1. ASSUME IInv, InBounds', TypeOK', [Next]_vars
      PROVE  [Left' < Left /\ Left' \in Nat]_vars
  <2>1. /\ start \in Int /\ end \in Int /\ Size \in Nat
        /\ 0 <= start /\ 0 <= end
    BY <1>1, TypeFacts, IInvInBounds, Sizes DEF InBounds
  <2>2. /\ start' \in Nat /\ end' \in Nat
    BY <1>1 DEF InBounds, TypeOK
  <2>3. CASE Divide
    BY <2>1, <2>2, <2>3 DEF Divide, Left, Phase
  <2>4. CASE Pad
    BY <2>1, <2>2, <2>4 DEF Pad, Left, Phase
  <2>5. CASE Shift
    BY <2>1, <2>2, <2>5 DEF Shift, Left, Phase
  <2>6. CASE Trim
    BY <2>1, <2>2, <2>6 DEF Trim, Left, Phase
  <2>7. CASE Suffix
    <3> DEFINE x == start'
    <3>1. pc = "suffix" /\ pc' = "copy" /\ end' = end /\ (x = start \/ x = start - 1 - Size)
      BY <2>7 DEF Suffix
    <3>2. Left = start + end + 2 /\ Left' = x + end + 1
      BY <3>1 DEF Left, Phase
    <3>3. x \in Nat
      BY <2>2
    <3> HIDE DEF x
    <3>4. x + end + 1 < start + end + 2 /\ x + end + 1 \in Nat
      BY <2>1, <3>1, <3>3
    <3> QED BY <3>2, <3>4
  <2>8. CASE Copy
    BY <2>1, <2>2, <2>8 DEF Copy, Left, Phase
  <2>9. CASE UNCHANGED vars
    BY <2>9
  <2> QED
    BY <1>1, <2>3, <2>4, <2>5, <2>6, <2>7, <2>8, <2>9 DEF Next, Done
<1> QED
  BY <1>1, Invariance, BoundsSafe, TypeCorrect, PTL DEF Spec

-----------------------------------------------------------------------------
(* What the text tells *)

\* s[i], ..., s[j - 1] are digits in base b.
InBase(b, zero, s, i, j) ==
  \A k \in i..(j - 1) : s[k] \in Int /\ s[k] - zero \in 0..(b - 1)

\* As many digits that stand for the same number are the same.
LEMMA NumberInjective ==
  ASSUME NEW b \in {10, 256}, NEW zero \in Int, NEW s, NEW t,
         NEW i \in Int, NEW j \in Int, i <= j,
         InBase(b, zero, s, i, j), InBase(b, zero, t, i, j),
         Number(b, zero, s, i, j) = Number(b, zero, t, i, j)
  PROVE  \A k \in i..(j - 1) : s[k] = t[k]
<1> DEFINE V(n) == Number(b, zero, s, i, i + n)
           W(n) == Number(b, zero, t, i, i + n)
           Same(n) == \A k \in i..(i + n - 1) : s[k] = t[k]
           A == {n \in Nat : i + n <= j => (V(n) = W(n) => Same(n))}
<1>1. 0 \in A
  OBVIOUS
<1>2. ASSUME NEW n \in Nat, n \in A PROVE n + 1 \in A
  <2> DEFINE m == i + n
  <2>1. SUFFICES ASSUME i + (n + 1) <= j, V(n + 1) = W(n + 1) PROVE Same(n + 1)
    <3> HIDE DEF V, W, Same
    <3> QED OBVIOUS
  <2>2. /\ m \in Int /\ i <= m /\ m + 1 <= j /\ m \in i..(j - 1) /\ b \in Int
        /\ i + (n + 1) = m + 1
    BY <2>1
  <2>3. i + n <= j => (V(n) = W(n) => Same(n))
    BY <1>2
  <2> HIDE DEF m
  <2>4. /\ Ints(s, i, m + 1) /\ Ints(t, i, m + 1) /\ Ints(s, i, m) /\ Ints(t, i, m)
    BY <2>2 DEF Ints, InBase
  <2>5. /\ Number(b, zero, s, i, m + 1) = b * Number(b, zero, s, i, m) + (s[m] - zero)
        /\ Number(b, zero, t, i, m + 1) = b * Number(b, zero, t, i, m) + (t[m] - zero)
    BY <2>2, <2>4, NumberStep
  <2>6. Number(b, zero, s, i, m) \in Int /\ Number(b, zero, t, i, m) \in Int
    BY <2>2, <2>4, NumberType
  <2>7. /\ s[m] - zero \in 0..(b - 1) /\ t[m] - zero \in 0..(b - 1)
        /\ s[m] \in Int /\ t[m] \in Int
    BY <2>2 DEF InBase
  <2>8. Number(b, zero, s, i, m + 1) = Number(b, zero, t, i, m + 1)
    BY <2>1, <2>2
  <2>9. Number(b, zero, s, i, m) = Number(b, zero, t, i, m) /\ s[m] - zero = t[m] - zero
    <3> DEFINE x == Number(b, zero, s, i, m)
               y == Number(b, zero, t, i, m)
               c == s[m] - zero
               d == t[m] - zero
    <3>1. /\ x \in Int /\ y \in Int /\ c \in 0..(b - 1) /\ d \in 0..(b - 1)
          /\ b * x + c = b * y + d
      BY <2>5, <2>6, <2>7, <2>8
    <3> HIDE DEF x, y, c, d
    <3>2. x = y /\ c = d
      <4>1. CASE b = 10
        BY <3>1, <4>1
      <4>2. CASE b = 256
        BY <3>1, <4>2
      <4> QED BY <4>1, <4>2
    <3> QED BY <3>2 DEF x, y, c, d
  <2>10. s[m] = t[m]
    BY <2>7, <2>9
  <2>11. Same(n)
    <3>1. V(n) = W(n)
      BY <2>9 DEF m
    <3>2. i + n <= j
      BY <2>1
    <3> HIDE DEF V, W, Same
    <3> QED BY <2>3, <3>1, <3>2
  <2>12. \A k \in i..(i + (n + 1) - 1) : k = m \/ k \in i..(i + n - 1)
    BY DEF m
  <2> QED BY <2>10, <2>11, <2>12
<1> HIDE DEF A
<1>3. Nat \subseteq A
  BY <1>1, <1>2, Induction
<1>4. j - i \in Nat /\ i + (j - i) = j
  OBVIOUS
<1>5. j - i \in A
  BY <1>3, <1>4
<1>6. V(j - i) = W(j - i) /\ i + (j - i) <= j
  BY <1>4
<1>7. Same(j - i)
  <2> HIDE DEF V, W, Same
  <2> QED BY <1>5, <1>6 DEF A
<1> QED BY <1>4, <1>7

\* No two amounts are the same number.
LEMMA AmountInjective ==
  ASSUME NEW x \in AmountBytes, NEW y \in AmountBytes, Amount(x) = Amount(y)
  PROVE  x = y
<1> DEFINE j == NumBytes + 1
           b == 256
           z == 0
<1>1. j \in Int /\ 1 \in Int /\ 1 <= j /\ j - 1 = NumBytes /\ NumBytes \in Nat
  BY AmountAssumption
<1>2. b \in {10, 256} /\ z \in Int
  OBVIOUS
<1>3. InBase(b, z, x, 1, j) /\ InBase(b, z, y, 1, j)
  <2> SUFFICES ASSUME NEW n \in AmountBytes, NEW k \in 1..NumBytes
               PROVE  n[k] \in Int /\ n[k] - 0 \in 0..255
    BY <1>1 DEF InBase
  <2>1. n[k] \in 0..255
    BY DEF AmountBytes
  <2> QED BY <2>1
<1>4. Number(b, z, x, 1, j) = Number(b, z, y, 1, j)
  BY DEF Amount
<1> HIDE DEF b, z, j
<1>5. \A k \in 1..(j - 1) : x[k] = y[k]
  <2> DEFINE i == 1
  <2>1. i \in Int /\ i <= j
    BY <1>1
  <2>2. InBase(b, z, x, i, j) /\ InBase(b, z, y, i, j) /\ Number(b, z, x, i, j) = Number(b, z, y, i, j)
    BY <1>3, <1>4
  <2> HIDE DEF i
  <2>3. \A k \in i..(j - 1) : x[k] = y[k]
    BY <1>1, <1>2, <2>1, <2>2, NumberInjective
  <2> QED BY <2>3 DEF i
<1> QED BY <1>1, <1>5 DEF AmountBytes

\* A text stands for one number.
LEMMA CanonicalValue ==
  ASSUME NEW s, NEW i \in Int, NEW j \in Int, NEW u \in Nat, NEW n, NEW m,
         Canonical(s, i, j, u, n), Canonical(s, i, j, u, m)
  PROVE  n = m
<1> DEFINE Point(p, v) ==
             /\ \A k \in i..(p - 1) : IsDigit(s[k])
             /\ \/ /\ p = j
                   /\ Number(10, Zero, s, i, p) * Pow(10, u) = v
                \/ /\ s[p] = Period
                   /\ p + 1 < j
                   /\ Number(10, Zero, s, i, p) * Pow(10, u)
                        + Number(10, Zero, s, p + 1, j) * Pow(10, u - (j - (p + 1))) = v
<1>1. PICK p : p \in (i + 1)..j /\ Point(p, n)
  BY DEF Canonical
<1>2. PICK q : q \in (i + 1)..j /\ Point(q, m)
  BY DEF Canonical
<1>3. ~IsDigit(Period)
  BY DEF IsDigit, Period, Zero
<1>4. ~(p < q)
  <2> SUFFICES ASSUME p < q PROVE FALSE
    OBVIOUS
  <2>1. p # j /\ p \in i..(q - 1)
    BY <1>1, <1>2
  <2> QED BY <1>1, <1>2, <1>3, <2>1
<1>5. ~(q < p)
  <2> SUFFICES ASSUME q < p PROVE FALSE
    OBVIOUS
  <2>1. q # j /\ q \in i..(p - 1)
    BY <1>1, <1>2
  <2> QED BY <1>1, <1>2, <1>3, <2>1
<1>6. p = q
  BY <1>1, <1>2, <1>4, <1>5
<1> QED BY <1>1, <1>2, <1>6

(* The text tells the amount: two amounts whose texts are the same, for the
   same token, are the same to the byte.  With TextExact, what the user reads
   is what is hashed (libv_helpers.c:181-275). *)
THEOREM AmountsTold ==
  ASSUME NEW f \in Formats, NEW x \in Balances, NEW y \in Balances, NEW s \in Seq(0..127),
         Denotes(s, f, x), Denotes(s, f, y)
  PROVE  x = y
<1> DEFINE skip == IF f.suffix = << >> THEN 0 ELSE Len(f.suffix) + 1
           i == skip + 1
           j == Len(s) + 1
<1>1. x \in AmountBytes /\ y \in AmountBytes
  BY AmountAssumption DEF AmountBytes
<1>2. i \in Int /\ j \in Int /\ f.unitScale \in Nat
  <2>1. Digits \in Nat
    BY Sizes
  <2> QED BY <2>1, FormatType
<1>3. Canonical(s, i, j, f.unitScale, Amount(x)) /\ Canonical(s, i, j, f.unitScale, Amount(y))
  BY DEF Denotes
<1> HIDE DEF i, j
<1>4. Amount(x) = Amount(y)
  BY <1>2, <1>3, CanonicalValue
<1> QED BY <1>1, <1>4, AmountInjective
\* Multiplied by a positive number, a number does not become less.
LEMMA TimesGrows ==
  ASSUME NEW x \in Nat, NEW y \in Nat \ {0}
  PROVE  x * y \in Nat /\ x <= x * y
OBVIOUS

\* Division with remainder has one result.
LEMMA OneQuotient ==
  ASSUME NEW P \in Nat \ {0}, NEW x \in Nat, NEW y \in Nat,
         NEW a \in Nat, NEW c \in Nat, a < P, c < P, x * P + a = y * P + c
  PROVE  x = y /\ a = c
<1>1. ASSUME NEW v \in Nat, NEW w \in Nat, NEW e \in Nat, NEW f \in Nat,
             e < P, v < w
      PROVE  v * P + e # w * P + f
  <2>1. PICK d \in Nat \ {0} : w = v + d
    <3>1. w - v \in Nat \ {0} /\ w = v + (w - v)
      BY <1>1
    <3> QED BY <3>1
  <2>2. w * P = v * P + d * P /\ v * P \in Nat /\ d * P \in Nat
    BY <2>1
  <2>3. P <= d * P
    <3>1. P <= P * d
      BY TimesGrows
    <3> QED BY <3>1
  <2> QED BY <1>1, <2>2, <2>3
<1>2. ~(x < y) /\ ~(y < x)
  BY <1>1
<1>3. x = y
  BY <1>2
<1> QED BY <1>3

LEMMA TenSum ==
  ASSUME NEW n \in Nat, NEW m \in Nat
  PROVE  Pow(10, n + m) = Pow(10, n) * Pow(10, m)
<1> DEFINE A == {k \in Nat : Pow(10, n + k) = Pow(10, n) * Pow(10, k)}
<1>1. 0 \in A
  <2>1. Pow(10, 0) = 1 /\ n + 0 = n /\ Pow(10, n) \in Nat
    BY PowZero, PowType
  <2> QED BY <2>1
<1>2. ASSUME NEW k \in Nat, k \in A PROVE k + 1 \in A
  <2> DEFINE x == Pow(10, n)
             y == Pow(10, k)
  <2>1. /\ Pow(10, k + 1) = 10 * y /\ y \in Nat /\ x \in Nat
        /\ Pow(10, (n + k) + 1) = 10 * Pow(10, n + k)
    BY TenStep
  <2>2. Pow(10, n + k) = x * y
    BY <1>2
  <2>3. n + (k + 1) = (n + k) + 1
    OBVIOUS
  <2> HIDE DEF x, y
  <2>4. 10 * (x * y) = x * (10 * y)
    BY <2>1
  <2>5. Pow(10, n + (k + 1)) = x * Pow(10, k + 1)
    BY <2>1, <2>2, <2>3, <2>4
  <2> QED BY <2>5 DEF x
<1> HIDE DEF A
<1>3. Nat \subseteq A
  BY <1>1, <1>2, Induction
<1> QED BY <1>3 DEF A

LEMMA TenGrows ==
  ASSUME NEW n \in Nat, NEW m \in Nat, n <= m
  PROVE  Pow(10, n) <= Pow(10, m)
<1>1. m - n \in Nat /\ n + (m - n) = m
  OBVIOUS
<1>2. Pow(10, n) \in Nat /\ Pow(10, m - n) \in Nat \ {0}
  BY <1>1, PowType
<1>3. Pow(10, n + (m - n)) = Pow(10, n) * Pow(10, m - n)
  BY <1>1, TenSum
<1> QED BY <1>1, <1>2, <1>3, TimesGrows

\* Digits stand for a number below the power of ten with as many zeros.
LEMMA DecBound ==
  ASSUME NEW s, NEW i \in Int, NEW j \in Int, i <= j, AllDigits(s, i, j)
  PROVE  /\ Dec(s, i, j) \in Nat
         /\ Dec(s, i, j) < Pow(10, j - i)
         /\ Dec(s, i, j) = 0 <=> \A k \in i..(j - 1) : s[k] = Zero
<1>1. \A k \in i..(j - 1) : s[k] \in Int /\ s[k] - Zero \in 0..(10 - 1)
  BY DEF AllDigits, IsDigit, Zero
<1>2. Zero \in Int
  BY DEF Zero
<1> QED BY <1>1, <1>2, NumberBound DEF Dec

\* A longer number without leading zero is larger.
LEMMA LongerIsLarger ==
  ASSUME NEW s, NEW t, NEW i \in Int, NEW p \in Int, NEW q \in Int, i < p, p < q,
         AllDigits(s, i, p), AllDigits(t, i, q), t[i] # Zero
  PROVE  Dec(s, i, p) < Dec(t, i, q)
<1> DEFINE m == i + 1
           d == t[i] - Zero
<1>1. m \in Int /\ m = i + 1 /\ m <= q /\ q - m \in Nat /\ p - i \in Nat /\ p - i <= q - m
  OBVIOUS
<1>2. IsDigit(t[i])
  BY DEF AllDigits
<1>3. d \in 1..9 /\ t[i] = Zero + d
  BY <1>2 DEF IsDigit, Zero
<1>4. AllDigits(t, m, q) /\ Shifted(t, m, q, t, 0)
  <2>1. \A k \in m..(q - 1) : k \in i..(q - 1) /\ k + 0 = k
    BY <1>1
  <2> QED BY <2>1 DEF AllDigits, Shifted
<1> HIDE DEF m, d
<1>5. Dec(t, i, q) = d * Pow(10, q - m) + Dec(t, m, q)
  BY <1>1, <1>3, <1>4, DecPrepend
<1>6. Dec(t, m, q) \in Nat
  BY <1>1, <1>4, DecBound
<1>7. Dec(s, i, p) \in Nat /\ Dec(s, i, p) < Pow(10, p - i)
  BY DecBound
<1>8. /\ Pow(10, p - i) <= Pow(10, q - m)
      /\ Pow(10, q - m) \in Nat /\ Pow(10, p - i) \in Nat
  BY <1>1, TenGrows, PowType
<1>9. Pow(10, q - m) <= d * Pow(10, q - m) /\ d * Pow(10, q - m) \in Nat
  <2> DEFINE x == Pow(10, q - m)
  <2>1. x \in Nat
    BY <1>8
  <2> HIDE DEF x
  <2>2. x <= x * d /\ x * d \in Nat
    BY <1>3, <2>1, TimesGrows
  <2>3. x * d = d * x
    BY <1>3, <2>1
  <2> QED BY <2>2, <2>3 DEF x
<1> QED BY <1>5, <1>6, <1>7, <1>8, <1>9

\* s[i], ..., s[p - 1] is a number without leading zeros.
Whole(s, i, p) == AllDigits(s, i, p) /\ (s[i] = Zero => p = i + 1)

\* Digits of the same number, as many of them, are the same.
LEMMA DecInjective ==
  ASSUME NEW s, NEW t, NEW i \in Int, NEW p \in Int, i <= p,
         AllDigits(s, i, p), AllDigits(t, i, p), Dec(s, i, p) = Dec(t, i, p)
  PROVE  \A k \in i..(p - 1) : s[k] = t[k]
<1> DEFINE b == 10
<1>1. b \in {10, 256} /\ Zero \in Int
  BY DEF Zero
<1>2. InBase(b, Zero, s, i, p) /\ InBase(b, Zero, t, i, p)
  BY DEF AllDigits, InBase, IsDigit, Zero
<1>3. Number(b, Zero, s, i, p) = Number(b, Zero, t, i, p)
  BY DEF Dec
<1> HIDE DEF b
<1> QED BY <1>1, <1>2, <1>3, NumberInjective

LEMMA WholeUnique ==
  ASSUME NEW s, NEW t, NEW i \in Int, NEW p \in Int, NEW q \in Int, i < p, i < q,
         Whole(s, i, p), Whole(t, i, q), Dec(s, i, p) = Dec(t, i, q)
  PROVE  p = q /\ \A k \in i..(p - 1) : s[k] = t[k]
<1>1. AllDigits(s, i, p) /\ AllDigits(t, i, q)
  BY DEF Whole
<1>2. Dec(s, i, p) \in Nat /\ Dec(t, i, q) \in Nat
  BY <1>1, DecBound
<1>3. ~(p < q)
  <2> SUFFICES ASSUME p < q PROVE FALSE
    OBVIOUS
  <2>1. t[i] # Zero
    BY DEF Whole
  <2> QED BY <1>1, <1>2, <2>1, LongerIsLarger
<1>4. ~(q < p)
  <2> SUFFICES ASSUME q < p PROVE FALSE
    OBVIOUS
  <2>1. s[i] # Zero
    BY DEF Whole
  <2> QED BY <1>1, <1>2, <2>1, LongerIsLarger
<1>5. p = q
  BY <1>3, <1>4
<1> QED BY <1>1, <1>5, DecInjective

\* s[m], ..., s[j - 1] are the digits of a fraction in units of Pow(10, u), and
\* do not end in zero.
Fraction(s, m, j, u) ==
  AllDigits(s, m, j) /\ m < j /\ j - m <= u /\ s[j - 1] # Zero

\* What the digits of a fraction stand for, in units.
Units(s, m, j, u) == Dec(s, m, j) * Pow(10, u - (j - m))

LEMMA UnitsBound ==
  ASSUME NEW s, NEW m \in Int, NEW j \in Int, NEW u \in Nat, Fraction(s, m, j, u)
  PROVE  /\ Units(s, m, j, u) \in Nat \ {0}
         /\ Units(s, m, j, u) < Pow(10, u)
<1> DEFINE x == Dec(s, m, j)
           y == Pow(10, u - (j - m))
           z == Pow(10, j - m)
<1>1. /\ AllDigits(s, m, j) /\ m < j /\ j - m <= u /\ s[j - 1] # Zero
      /\ j - m \in Nat /\ u - (j - m) \in Nat /\ j - 1 \in m..(j - 1)
  BY DEF Fraction
<1>2. x \in Nat \ {0} /\ x < z
  BY <1>1, DecBound
<1>3. y \in Nat \ {0} /\ z \in Nat \ {0}
  BY <1>1, PowType
<1>4. Pow(10, u) = z * y
  <2>1. (j - m) + (u - (j - m)) = u
    BY <1>1
  <2> QED BY <1>1, <2>1, TenSum
<1> HIDE DEF x, y, z
<1>5. x * y \in Nat \ {0} /\ x * y < z * y
  <2>1. PICK d \in Nat \ {0} : z = x + d
    <3>1. z - x \in Nat \ {0} /\ z = x + (z - x)
      BY <1>2, <1>3
    <3> QED BY <3>1
  <2>2. z * y = x * y + d * y
    BY <1>2, <1>3, <2>1
  <2>3. x * y \in Nat /\ x <= x * y /\ d * y \in Nat /\ d <= d * y
    BY <1>2, <1>3, <2>1, TimesGrows
  <2> QED BY <1>2, <2>1, <2>2, <2>3
<1> QED BY <1>4, <1>5 DEF Units, x, y

\* A fraction with fewer digits stands for another number: the last digit of
\* the longer one is not zero.
LEMMA ShorterDiffers ==
  ASSUME NEW s, NEW t, NEW m \in Int, NEW j \in Int, NEW l \in Int, NEW u \in Nat,
         j < l, Fraction(s, m, j, u), Fraction(t, m, l, u)
  PROVE  Units(s, m, j, u) # Units(t, m, l, u)
<1> DEFINE e == l - 1
           x == Dec(s, m, j)
           v == Dec(t, m, e)
           d == t[e] - Zero
           y == Pow(10, u - (l - m))
           g == Pow(10, e - j)
<1>1. /\ AllDigits(s, m, j) /\ m < j /\ j - m <= u
      /\ AllDigits(t, m, l) /\ m < l /\ l - m <= u /\ t[e] # Zero
  BY DEF Fraction
<1>2. /\ e \in Int /\ m <= e /\ e + 1 = l /\ e - j \in Nat /\ u - (l - m) \in Nat
      /\ e \in m..(l - 1) /\ (e - j) + 1 \in Nat
      /\ ((e - j) + 1) + (u - (l - m)) = u - (j - m)
  BY <1>1
<1>3. AllDigits(t, m, e)
  BY <1>1, <1>2 DEF AllDigits
<1>4. x \in Nat /\ v \in Nat
  BY <1>1, <1>2, <1>3, DecBound
<1>5. d \in 1..9
  BY <1>1, <1>2 DEF AllDigits, IsDigit, Zero
<1>6. Dec(t, m, l) = 10 * v + d
  <2>1. Ints(t, m, e + 1) /\ Zero \in Int
    BY <1>1, <1>2, DigitsAreInts DEF Zero
  <2>2. Number(10, Zero, t, m, e + 1) = 10 * Number(10, Zero, t, m, e) + (t[e] - Zero)
    <3> DEFINE b == 10
    <3>1. b \in Int
      OBVIOUS
    <3> HIDE DEF b, e
    <3>2. Number(b, Zero, t, m, e + 1) = b * Number(b, Zero, t, m, e) + (t[e] - Zero)
      BY <1>2, <2>1, <3>1, NumberStep
    <3> QED BY <3>2 DEF b
  <2> QED BY <1>2, <2>2 DEF Dec
<1>7. Pow(10, u - (j - m)) = (10 * g) * y /\ g \in Nat /\ y \in Nat \ {0}
  <2>1. Pow(10, ((e - j) + 1) + (u - (l - m))) = Pow(10, (e - j) + 1) * y
    BY <1>2, TenSum
  <2>2. Pow(10, (e - j) + 1) = 10 * g
    BY <1>2, TenStep
  <2>3. g \in Nat /\ y \in Nat \ {0}
    BY <1>2, PowType
  <2> QED BY <1>2, <2>1, <2>2, <2>3
<1> HIDE DEF e, x, v, d, y, g
<1>8. x * ((10 * g) * y) # (10 * v + d) * y
  <2>1. x * ((10 * g) * y) = (10 * (x * g)) * y /\ x * g \in Nat
    BY <1>4, <1>7
  <2> DEFINE a == x * g
  <2>2. a \in Nat
    BY <2>1
  <2> HIDE DEF a
  <2>3. (10 * a) # 10 * v + d
    BY <1>4, <1>5, <2>2
  <2>4. (10 * a) * y # (10 * v + d) * y
    <3> DEFINE c == 10 * a
               f == 10 * v + d
    <3>1. c \in Nat /\ f \in Nat /\ c # f
      BY <1>4, <1>5, <2>2, <2>3
    <3> HIDE DEF c, f
    <3>2. c * y # f * y
      <4>1. 0 \in Nat /\ 0 < y
        BY <1>7
      <4>2. c * y + 0 = f * y + 0 => c = f
        BY <1>7, <3>1, <4>1, OneQuotient
      <4>3. c * y \in Nat /\ f * y \in Nat
        BY <1>7, <3>1
      <4> QED BY <3>1, <4>2, <4>3
    <3> QED BY <3>2 DEF c, f
  <2> QED BY <2>1, <2>4 DEF a
<1> QED BY <1>6, <1>7, <1>8 DEF Units, x, y

LEMMA FractionUnique ==
  ASSUME NEW s, NEW t, NEW m \in Int, NEW j \in Int, NEW l \in Int, NEW u \in Nat,
         Fraction(s, m, j, u), Fraction(t, m, l, u),
         Units(s, m, j, u) = Units(t, m, l, u)
  PROVE  j = l /\ \A k \in m..(j - 1) : s[k] = t[k]
<1>1. j = l
  <2>1. ~(j < l) /\ ~(l < j)
    BY ShorterDiffers
  <2> QED BY <2>1
<1>2. /\ AllDigits(s, m, j) /\ AllDigits(t, m, j) /\ m <= j
      /\ u - (j - m) \in Nat
  BY <1>1 DEF Fraction
<1>3. Dec(s, m, j) = Dec(t, m, j)
  <2> DEFINE x == Dec(s, m, j)
             v == Dec(t, m, j)
             y == Pow(10, u - (j - m))
  <2>1. x \in Nat /\ v \in Nat /\ y \in Nat \ {0} /\ x * y = v * y
    BY <1>1, <1>2, DecBound, PowType DEF Units
  <2> HIDE DEF x, v, y
  <2>2. 0 \in Nat /\ 0 < y /\ x * y + 0 = v * y + 0
    BY <2>1
  <2>3. x = v
    BY <2>1, <2>2, OneQuotient
  <2> QED BY <2>3 DEF x, v
<1> QED BY <1>1, <1>2, <1>3, DecInjective

\* A number has one canonical text.
LEMMA CanonicalUnique ==
  ASSUME NEW s, NEW t, NEW i \in Int, NEW j \in Int, NEW l \in Int, NEW u \in Nat,
         NEW n, Canonical(s, i, j, u, n), Canonical(t, i, l, u, n)
  PROVE  j = l /\ \A k \in i..(j - 1) : s[k] = t[k]
<1> DEFINE P == Pow(10, u)
           Rest(c, m, e) == IF m > e THEN 0 ELSE Units(c, m, e, u)
           Text(c, p, e) ==
             /\ p \in (i + 1)..e /\ Whole(c, i, p)
             /\ p = e \/ (c[p] = Period /\ Fraction(c, p + 1, e, u))
             /\ Dec(c, i, p) * P + Rest(c, p + 1, e) = n
<1>1. P \in Nat \ {0}
  BY PowType
<1>2. ASSUME NEW c, NEW e \in Int, Canonical(c, i, e, u, n)
      PROVE  \E p : Text(c, p, e)
  <2>1. PICK p : p \in (i + 1)..e /\
          /\ \A k \in i..(p - 1) : IsDigit(c[k])
          /\ c[i] = Zero => p = i + 1
          /\ \/ /\ p = e
                /\ Number(10, Zero, c, i, p) * Pow(10, u) = n
             \/ /\ c[p] = Period
                /\ p + 1 < e /\ e - (p + 1) <= u
                /\ \A k \in (p + 1)..(e - 1) : IsDigit(c[k])
                /\ c[e - 1] # Zero
                /\ Number(10, Zero, c, i, p) * Pow(10, u)
                     + Number(10, Zero, c, p + 1, e) * Pow(10, u - (e - (p + 1))) = n
    BY <1>2 DEF Canonical
  <2>2. Whole(c, i, p)
    BY <2>1 DEF Whole, AllDigits
  <2>3. CASE p = e /\ Dec(c, i, p) * P = n
    <3>1. Rest(c, p + 1, e) = 0 /\ Dec(c, i, p) \in Nat
      BY <2>1, <2>2, <2>3, DecBound DEF Whole
    <3>2. Dec(c, i, p) * P + Rest(c, p + 1, e) = n
      <4> DEFINE x == Dec(c, i, p)
      <4>1. x * P \in Nat
        BY <1>1, <3>1
      <4> HIDE DEF x, P, Rest
      <4> QED BY <2>3, <3>1, <4>1 DEF x
    <3> QED BY <2>1, <2>2, <2>3, <3>2
  <2>4. CASE /\ c[p] = Period /\ Fraction(c, p + 1, e, u)
             /\ Dec(c, i, p) * P + Units(c, p + 1, e, u) = n
    <3>1. Rest(c, p + 1, e) = Units(c, p + 1, e, u)
      BY <2>1, <2>4 DEF Fraction
    <3> QED BY <2>1, <2>2, <2>4, <3>1
  <2> QED BY <2>1, <2>3, <2>4 DEF Fraction, AllDigits, Units, Dec
<1>3. PICK p : Text(s, p, j)
  BY <1>2
<1>4. PICK q : Text(t, q, l)
  BY <1>2
<1>5. ASSUME NEW c, NEW r, NEW e \in Int, Text(c, r, e)
      PROVE  /\ r \in Int /\ i < r /\ Dec(c, i, r) \in Nat
             /\ Rest(c, r + 1, e) \in Nat /\ Rest(c, r + 1, e) < P
             /\ Rest(c, r + 1, e) = 0 <=> r = e
  <2>1. r \in Int /\ i < r /\ i <= r /\ r <= e /\ r + 1 \in Int
    BY <1>5
  <2>2. Dec(c, i, r) \in Nat
    BY <1>5, <2>1, DecBound DEF Whole
  <2>3. CASE r = e
    BY <1>1, <2>1, <2>2, <2>3
  <2>4. CASE r # e
    <3>1. Fraction(c, r + 1, e, u)
      BY <1>5, <2>4
    <3>2. Units(c, r + 1, e, u) \in Nat \ {0} /\ Units(c, r + 1, e, u) < P
      BY <2>1, <3>1, UnitsBound
    <3>3. Rest(c, r + 1, e) = Units(c, r + 1, e, u)
      BY <2>1, <3>1 DEF Fraction
    <3> QED BY <2>1, <2>2, <2>4, <3>2, <3>3
  <2> QED BY <2>3, <2>4
<1> DEFINE a == Rest(s, p + 1, j)
           c == Rest(t, q + 1, l)
           x == Dec(s, i, p)
           y == Dec(t, i, q)
<1>6. /\ p \in Int /\ i < p /\ x \in Nat /\ a \in Nat /\ a < P /\ (a = 0 <=> p = j)
      /\ x * P + a = n
  <2> HIDE DEF Rest, P
  <2> QED BY <1>3, <1>5
<1>7. /\ q \in Int /\ i < q /\ y \in Nat /\ c \in Nat /\ c < P /\ (c = 0 <=> q = l)
      /\ y * P + c = n
  <2> HIDE DEF Rest, P
  <2> QED BY <1>4, <1>5
<1>8. x = y /\ a = c
  <2> HIDE DEF a, c, x, y, P
  <2> QED BY <1>1, <1>6, <1>7, OneQuotient
<1>9. p = q /\ \A k \in i..(p - 1) : s[k] = t[k]
  <2>1. Whole(s, i, p) /\ Whole(t, i, q)
    BY <1>3, <1>4
  <2> QED BY <1>6, <1>7, <1>8, <2>1, WholeUnique
<1>10. CASE p = j
  <2>1. q = l
    BY <1>6, <1>7, <1>8, <1>10
  <2> QED BY <1>9, <1>10, <2>1
<1>11. CASE p # j
  <2>1. q # l
    BY <1>6, <1>7, <1>8, <1>11
  <2>2. /\ s[p] = Period /\ Fraction(s, p + 1, j, u)
        /\ t[p] = Period /\ Fraction(t, p + 1, l, u)
    BY <1>3, <1>4, <1>9, <1>11, <2>1
  <2>3. Units(s, p + 1, j, u) = Units(t, p + 1, l, u)
    BY <1>6, <1>7, <1>8, <1>9, <2>2 DEF Fraction
  <2>4. j = l /\ \A k \in (p + 1)..(j - 1) : s[k] = t[k]
    BY <1>6, <2>2, <2>3, FractionUnique
  <2>5. \A k \in i..(j - 1) : k \in i..(p - 1) \/ k = p \/ k \in (p + 1)..(j - 1)
    BY <1>6
  <2> QED BY <1>9, <2>2, <2>4, <2>5
<1> QED BY <1>10, <1>11

LEMMA SameSeq ==
  ASSUME NEW S, NEW s \in Seq(S), NEW t \in Seq(S), Len(s) = Len(t),
         \A k \in 1..Len(s) : s[k] = t[k]
  PROVE  s = t
OBVIOUS

(* An amount has one text: the reference that the text is checked against
   leaves no choice of digits, point, zeros or symbol (libv_helpers.c:181-275). *)
THEOREM TextUnique ==
  ASSUME NEW f \in Formats, NEW x \in Balances,
         NEW s \in Seq(0..127), NEW t \in Seq(0..127),
         Denotes(s, f, x), Denotes(t, f, x)
  PROVE  s = t
<1> DEFINE skip == IF f.suffix = << >> THEN 0 ELSE Len(f.suffix) + 1
           i == skip + 1
           j == Len(s) + 1
           l == Len(t) + 1
           u == f.unitScale
<1>1. /\ skip \in Nat /\ i \in Int /\ j \in Int /\ l \in Int /\ u \in Nat
      /\ Len(s) \in Nat /\ Len(t) \in Nat
  <2>1. Digits \in Nat
    BY Sizes
  <2> QED BY <2>1, FormatType
<1>2. /\ skip < Len(s) /\ \A k \in 1..skip : s[k] = Append(f.suffix, Space)[k]
      /\ Canonical(s, i, j, u, Amount(x))
  BY DEF Denotes
<1>3. /\ skip < Len(t) /\ \A k \in 1..skip : t[k] = Append(f.suffix, Space)[k]
      /\ Canonical(t, i, l, u, Amount(x))
  BY DEF Denotes
<1>4. j = l /\ \A k \in i..(j - 1) : s[k] = t[k]
  <2> HIDE DEF i, j, l, u
  <2> QED BY <1>1, <1>2, <1>3, CanonicalUnique
<1>5. \A k \in 1..Len(s) : k \in 1..skip \/ k \in i..(j - 1)
  BY <1>1
<1>6. \A k \in 1..Len(s) : s[k] = t[k]
  BY <1>2, <1>3, <1>4, <1>5
<1>7. Len(s) = Len(t)
  BY <1>1, <1>4
<1> QED BY <1>6, <1>7, SameSeq
=============================================================================
