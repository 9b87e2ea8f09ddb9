------------------------- MODULE RequestHashProofs -------------------------
(***************************************************************************)
(* Calls that differ in one byte have different hashes, for every size of  *)
(* word that 29 is prime to, every byte and every length of call: until    *)
(* the byte that differs the two hashes are equal, from it on they differ. *)
(***************************************************************************)
EXTENDS RequestHash, TLAPS

\* Division with remainder.
LEMMA Quotient ==
  ASSUME NEW a \in Nat
  PROVE  /\ a % Word \in 0..(Word - 1)
         /\ \E q \in Int : a = Word * q + (a % Word)
<1>1. Word \in Nat /\ Word > 0
  BY HashAssumption
<1>2. a % Word \in 0..(Word - 1)
  BY <1>1
<1>3. a \div Word \in Int
  BY <1>1
<1>4. a = Word * (a \div Word) + (a % Word)
  BY <1>1
<1> QED BY <1>2, <1>3, <1>4

LEMMA Multiple == ASSUME NEW q \in Int PROVE (Word * q) % Word = 0
<1>1. Word \in Nat /\ Word > 0
  BY HashAssumption
<1> QED BY <1>1

\* Two numbers with one remainder are a multiple of Word apart.
LEMMA SameRemainder ==
  ASSUME NEW a \in Nat, NEW b \in Nat, a % Word = b % Word
  PROVE  (b - a) % Word = 0
<1>1. PICK q \in Int : a = Word * q + (a % Word)
  BY Quotient
<1>2. PICK p \in Int : b = Word * p + (b % Word)
  BY Quotient
<1>3. a % Word \in Nat /\ Word \in Nat
  BY Quotient, HashAssumption
<1>4. Word * (p - q) = Word * p - Word * q
  BY <1>3
<1>5. Word * p \in Int /\ Word * q \in Int
  BY <1>3
<1>6. b - a = Word * (p - q)
  <2> DEFINE r == a % Word
             wp == Word * p
             wq == Word * q
             wd == Word * (p - q)
  <2>1. a = wq + r /\ b = wp + r /\ wd = wp - wq
    BY <1>1, <1>2, <1>4
  <2>2. r \in Int /\ wp \in Int /\ wq \in Int
    BY <1>3, <1>5
  <2> HIDE DEF r, wp, wq, wd
  <2>3. b - a = wd
    BY <2>1, <2>2
  <2> QED BY <2>3 DEF wd
<1>7. p - q \in Int
  OBVIOUS
<1> QED BY <1>6, <1>7, Multiple

HashValue == 0..(Word - 1)

LEMMA NextHashType ==
  ASSUME NEW h \in HashValue, NEW b \in Byte
  PROVE  NextHash(h, b) \in HashValue
<1>1. h \in Nat /\ b \in Nat
  BY HashAssumption DEF HashValue
<1>2. 29 * h + b \in Nat
  BY <1>1
<1> QED BY <1>2, Quotient DEF NextHash, HashValue

\* Equal bytes keep different hashes apart: 29 * k is no multiple of Word.
LEMMA StaysDifferent ==
  ASSUME NEW h \in HashValue, NEW g \in HashValue, NEW b \in Byte, h < g
  PROVE  NextHash(h, b) # NextHash(g, b)
<1>1. SUFFICES ASSUME NextHash(h, b) = NextHash(g, b) PROVE FALSE
  OBVIOUS
<1>2. h \in Nat /\ g \in Nat /\ b \in Nat /\ Word \in Nat
  BY HashAssumption DEF HashValue
<1>3. g - h \in 1..(Word - 1)
  BY <1>2 DEF HashValue
<1>4. 29 * h + b \in Nat /\ 29 * g + b \in Nat
  BY <1>2
<1>5. ((29 * g + b) - (29 * h + b)) % Word = 0
  BY <1>1, <1>4, SameRemainder DEF NextHash
<1>6. (29 * g + b) - (29 * h + b) = 29 * (g - h)
  BY <1>2
<1> QED BY <1>3, <1>5, <1>6, HashAssumption

\* Different bytes take equal hashes apart.
LEMMA BecomesDifferent ==
  ASSUME NEW h \in HashValue, NEW b \in Byte, NEW c \in Byte, b < c
  PROVE  NextHash(h, b) # NextHash(h, c)
<1>1. SUFFICES ASSUME NextHash(h, b) = NextHash(h, c) PROVE FALSE
  OBVIOUS
<1>2. h \in Nat /\ b \in Nat /\ c \in Nat /\ c < Word /\ Word \in Nat
  BY HashAssumption DEF HashValue
<1>3. 29 * h + b \in Nat /\ 29 * h + c \in Nat
  BY <1>2
<1>4. ((29 * h + c) - (29 * h + b)) % Word = 0
  BY <1>1, <1>3, SameRemainder DEF NextHash
<1>5. (29 * h + c) - (29 * h + b) = c - b /\ c - b \in 1..(Word - 1)
  BY <1>2
<1>6. (c - b) % Word = c - b
  BY <1>2, <1>5
<1> QED BY <1>4, <1>5, <1>6
-----------------------------------------------------------------------------
\* Where two calls alike but for byte d are: before d, and after it.
Apart ==
  \A d \in 1..Len(data) : AlikeBut(d) =>
    /\ i < d \/ recorded = data => recordedHash = result
    /\ i >= d /\ recorded # data => recordedHash # result

IInv == TypeOK /\ Len(recorded) = Len(data) /\ Apart

LEMMA SameButOne ==
  ASSUME NEW s \in Seq(Byte), NEW t \in Seq(Byte), Len(s) = Len(t),
         NEW d \in 1..Len(t), \A j \in (1..Len(t)) \ {d} : s[j] = t[j]
  PROVE  s = t <=> s[d] = t[d]
  OBVIOUS

LEMMA InitInv == Init => IInv
<1> SUFFICES ASSUME Init PROVE IInv
  OBVIOUS
<1>1. recorded \in Seq(Byte) /\ data \in Seq(Byte)
  BY HashAssumption DEF Init
<1>2. Len(data) \in Nat /\ Seed \in 0..(Word - 1)
  BY <1>1, HashAssumption DEF Seed
<1> QED BY <1>2 DEF Init, IInv, TypeOK, Apart

LEMMA NextInv == ASSUME IInv, [Next]_vars PROVE IInv'
<1>1. CASE UNCHANGED vars
  BY <1>1 DEF vars, IInv, TypeOK, Apart, AlikeBut
<1>2. CASE HashByte
  <2> DEFINE b == recorded[i + 1]
             c == data[i + 1]
  <2>1. /\ recorded \in Seq(Byte) /\ data \in Seq(Byte) /\ Len(recorded) = Len(data)
        /\ Len(data) \in Nat /\ i \in Nat /\ i < Len(data)
    BY <1>2, HashAssumption DEF IInv, TypeOK, HashByte
  <2>2. b \in Byte /\ c \in Byte
    BY <2>1
  <2>3. recordedHash \in HashValue /\ result \in HashValue
    BY DEF IInv, TypeOK, HashValue
  <2>4. /\ recordedHash' = NextHash(recordedHash, b) /\ result' = NextHash(result, c)
        /\ i' = i + 1 /\ UNCHANGED <<recorded, data>>
    BY <1>2 DEF HashByte
  <2>5. recordedHash' \in HashValue /\ result' \in HashValue
    BY <2>2, <2>3, <2>4, NextHashType
  <2>6. TypeOK'
    BY <2>1, <2>4, <2>5 DEF IInv, TypeOK, HashValue
  <2>7. ASSUME NEW d \in 1..Len(data), AlikeBut(d)
        PROVE  /\ i' < d \/ recorded = data => recordedHash' = result'
               /\ i' >= d /\ recorded # data => recordedHash' # result'
    <3>1. /\ i < d \/ recorded = data => recordedHash = result
          /\ i >= d /\ recorded # data => recordedHash # result
      BY <2>7 DEF IInv, Apart
    <3>2. recorded = data <=> recorded[d] = data[d]
      BY <2>1, <2>7, SameButOne DEF AlikeBut
    <3>3. CASE i + 1 # d
      <4>1. b = c
        BY <2>1, <2>7, <3>3 DEF AlikeBut
      <4>2. CASE recordedHash = result
        BY <2>1, <2>4, <3>1, <3>3, <4>1, <4>2
      <4>3. CASE recordedHash < result
        BY <2>1, <2>2, <2>3, <2>4, <3>1, <3>3, <4>1, <4>3, StaysDifferent
      <4>4. CASE result < recordedHash
        BY <2>1, <2>2, <2>3, <2>4, <3>1, <3>3, <4>1, <4>4, StaysDifferent
      <4>5. recordedHash \in Int /\ result \in Int
        BY <2>3, HashAssumption DEF HashValue
      <4> QED BY <4>2, <4>3, <4>4, <4>5
    <3>4. CASE i + 1 = d
      <4>1. recordedHash = result /\ (recorded = data <=> b = c)
        BY <2>1, <3>1, <3>2, <3>4
      <4>2. CASE b = c
        BY <2>1, <2>4, <3>4, <4>1, <4>2
      <4>3. CASE b < c
        BY <2>1, <2>2, <2>3, <2>4, <3>4, <4>1, <4>3, BecomesDifferent
      <4>4. CASE c < b
        BY <2>1, <2>2, <2>3, <2>4, <3>4, <4>1, <4>4, BecomesDifferent
      <4>5. b \in Int /\ c \in Int
        <5>1. Byte \subseteq Int
          BY HashAssumption
        <5> QED BY <2>2, <5>1
      <4> QED BY <4>2, <4>3, <4>4, <4>5
    <3> QED BY <3>3, <3>4
  <2>8. Apart'
    BY <2>4, <2>7 DEF Apart, AlikeBut
  <2> QED BY <2>1, <2>4, <2>6, <2>8 DEF IInv
<1> QED BY <1>1, <1>2 DEF Next
-----------------------------------------------------------------------------
THEOREM Invariance == Spec => []IInv
  BY InitInv, NextInv, PTL DEF Spec

\* The type invariant.
THEOREM TypeCorrect == Spec => []TypeOK
<1>1. IInv => TypeOK
  BY DEF IInv
<1> QED BY <1>1, Invariance, PTL

\* A retry is recognised, and no call that differs in one byte is taken for it:
\* for calls of any length, made of any bytes (libv_app.c:58-59).
THEOREM OneByteSafe == Spec => []OneByteApart
<1>1. IInv => OneByteApart
  <2> SUFFICES ASSUME IInv, i = Len(data), NEW d \in 1..Len(data), AlikeBut(d)
               PROVE  recordedHash = result <=> recorded = data
    BY DEF OneByteApart
  <2>1. i >= d
    BY DEF IInv, TypeOK
  <2> QED BY <2>1 DEF IInv, Apart
<1> QED BY <1>1, Invariance, PTL
=============================================================================
