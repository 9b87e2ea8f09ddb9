-------------------------- MODULE ConfirmTextProofs --------------------------
(***************************************************************************)
(* What the display reads from the union, for every account, block and     *)
(* checksum.  Each writer puts one text and a terminator where it says;    *)
(* what it writes on the way to it stays inside the member it writes to.   *)
(***************************************************************************)
EXTENDS ConfirmText, TLAPS

Memory == [Cells -> Chars]

-----------------------------------------------------------------------------
(* Copies *)

(* A function on 1..n is a sequence of length n. *)
LEMMA FunctionIsSeq ==
  ASSUME NEW S, NEW n \in Nat, NEW f \in [1..n -> S]
  PROVE  f \in Seq(S) /\ Len(f) = n
BY SMT

LEMMA SeqIsFunction ==
  ASSUME NEW S, NEW n \in Nat, NEW f \in Seq(S), Len(f) = n
  PROVE  f \in [1..n -> S]
BY SMT

LEMMA AppendSeq ==
  ASSUME NEW S, NEW s \in Seq(S), NEW e \in S
  PROVE  /\ Append(s, e) \in Seq(S) /\ Len(Append(s, e)) = Len(s) + 1
         /\ \A i \in 1..Len(s) : Append(s, e)[i] = s[i]
         /\ Append(s, e)[Len(s) + 1] = e
BY SMT

LEMMA PrefixSeq ==
  ASSUME NEW S, NEW s \in Seq(S), NEW n \in Nat, n <= Len(s)
  PROVE  /\ SubSeq(s, 1, n) \in Seq(S) /\ Len(SubSeq(s, 1, n)) = n
         /\ \A i \in 1..n : SubSeq(s, 1, n)[i] = s[i]
BY SMT

LEMMA ConcatSeq ==
  ASSUME NEW S, NEW s \in Seq(S), NEW t \in Seq(S)
  PROVE  s \o t \in Seq(S) /\ Len(s \o t) = Len(s) + Len(t)
BY SMT

(* A copy changes the cells it covers to the text. *)
LEMMA PutAt ==
  ASSUME NEW m \in Memory, NEW at \in Nat, NEW s \in Seq(Chars)
  PROVE  /\ Put(m, at, s) \in Memory
         /\ \A i \in Cells :
              Put(m, at, s)[i] = IF at <= i /\ i < at + Len(s)
                                 THEN s[i - at + 1] ELSE m[i]
<1>1. ASSUME NEW i \in Cells, at <= i, i < at + Len(s)
      PROVE  s[i - at + 1] \in Chars
  <2>1. i \in Nat /\ i - at + 1 \in 1..Len(s)
    BY <1>1 DEF Cells
  <2> QED
    BY <2>1
<1>2. DOMAIN m = Cells
  BY DEF Memory
<1> QED
  BY <1>1, <1>2 DEF Put, Memory

LEMMA TerminateAt ==
  ASSUME NEW m \in Memory, NEW at \in Cells
  PROVE  /\ Terminate(m, at) \in Memory
         /\ Terminate(m, at)[at] = NUL
         /\ \A i \in Cells \ {at} : Terminate(m, at)[i] = m[i]
BY DEF Terminate, Memory, Chars

(* Two copies, the second right behind the first. *)
LEMMA PutConcat ==
  ASSUME NEW m \in Memory, NEW at \in Nat,
         NEW s \in Seq(Chars), NEW t \in Seq(Chars)
  PROVE  Put(Put(m, at, s), at + Len(s), t) = Put(m, at, s \o t)
<1> DEFINE to == at + Len(s)
           once == Put(m, at, s)
           both == Put(once, to, t)
           whole == Put(m, at, s \o t)
<1>1. s \o t \in Seq(Chars) /\ Len(s \o t) = Len(s) + Len(t)
  OBVIOUS
<1>2. once \in Memory /\ to \in Nat /\ Len(s) \in Nat /\ Len(t) \in Nat
  BY PutAt
<1> HIDE DEF once
<1>3. /\ both \in Memory
      /\ \A i \in Cells : both[i] = IF to <= i /\ i < to + Len(t)
                                   THEN t[i - to + 1] ELSE once[i]
  BY <1>2, PutAt
<1>5. /\ whole \in Memory
      /\ \A i \in Cells : whole[i] = IF at <= i /\ i < at + Len(s \o t)
                                    THEN (s \o t)[i - at + 1] ELSE m[i]
  BY <1>1, PutAt
<1> HIDE DEF both, whole
<1>4. ASSUME NEW i \in Cells PROVE both[i] = whole[i]
  <2>1. i \in Nat
    BY DEF Cells
  <2>2. both[i] = IF to <= i /\ i < to + Len(t) THEN t[i - to + 1] ELSE once[i]
    BY <1>3
  <2>3. once[i] = IF at <= i /\ i < at + Len(s) THEN s[i - at + 1] ELSE m[i]
    BY PutAt DEF once
  <2>4. whole[i] = IF at <= i /\ i < at + Len(s) + Len(t)
                   THEN (s \o t)[i - at + 1] ELSE m[i]
    BY <1>1, <1>2, <1>5, <2>1
  <2>5. CASE at <= i /\ i < to
    <3>1. i - at + 1 \in 1..Len(s)
      BY <1>2, <2>1, <2>5
    <3>2. (s \o t)[i - at + 1] = s[i - at + 1]
      BY <3>1
    <3> QED
      BY <1>2, <2>1, <2>2, <2>3, <2>4, <2>5, <3>2
  <2>6. CASE to <= i /\ i < to + Len(t)
    <3>1. i - to + 1 \in 1..Len(t) /\ i - at + 1 = Len(s) + (i - to + 1)
      BY <1>2, <2>1, <2>6
    <3>2. (s \o t)[i - at + 1] = t[i - to + 1]
      BY <1>2, <3>1
    <3> QED
      BY <1>2, <2>1, <2>2, <2>4, <2>6, <3>2
  <2>7. CASE i < at \/ i >= to + Len(t)
    BY <1>2, <2>1, <2>2, <2>3, <2>4, <2>7
  <2> QED
    BY <1>2, <2>1, <2>5, <2>6, <2>7
<1>6. both = whole
  BY <1>3, <1>4, <1>5 DEF Memory
<1> QED
  BY <1>6 DEF both, whole, once

-----------------------------------------------------------------------------
(* Texts *)

NoNUL(s) == \A j \in 1..Len(s) : s[j] # NUL

(* The text is there, and ends there. *)
Reads(m, at, s) ==
  /\ \A j \in 1..Len(s) : m[at + j - 1] = s[j]
  /\ m[at + Len(s)] = NUL

(* Nothing but the string kept at `at` has been touched. *)
SameOutside(w, m, at) ==
  \A i \in Cells : i < at \/ i >= at + AMOUNT_TEXT_MAX_LEN => w[i] = m[i]

(* w is m with a text at `at`. *)
Shows(w, m, at, s) ==
  /\ w \in Memory
  /\ s \in Seq(Chars) /\ NoNUL(s) /\ Len(s) < AMOUNT_TEXT_MAX_LEN
  /\ Reads(w, at, s)
  /\ SameOutside(w, m, at)

(* The string has room in the union. *)
Room(at) == at + AMOUNT_TEXT_MAX_LEN <= Union

LEMMA Sizes ==
  /\ Union = 119 /\ AMOUNT_TEXT_MAX_LEN = 96 /\ Cells = 0..158
  /\ \A i \in Nat : i <= 158 => i \in Cells
BY DEF Cells, Union, Value, Label, AMOUNT_TEXT_MAX_LEN, Beyond

(* The display finds it: the first NUL is the one behind the text. *)
LEMMA TextFound ==
  ASSUME NEW m \in Memory, NEW at \in Nat, NEW s \in Seq(Chars), NoNUL(s),
         NEW end \in Nat, end = at + Len(s), end < Union, Reads(m, at, s)
  PROVE  TextAt(m, at) = s
<1> DEFINE Last == Union + Beyond
           P(i) == /\ i = Last \/ m[i] = NUL
                   /\ \A j \in at..(i - 1) : m[j] # NUL
<1>1. Last = 159 /\ end < 119
  BY Sizes DEF Beyond
<1> HIDE DEF Last
<1>2. Len(s) \in Nat /\ at <= end /\ end < Last
  BY <1>1
<1>3. ASSUME NEW j \in at..(end - 1) PROVE m[j] = s[j - at + 1] /\ m[j] # NUL
  <2>1. j - at + 1 \in 1..Len(s) /\ at + (j - at + 1) - 1 = j
    BY <1>2
  <2>2. s[j - at + 1] # NUL
    BY <2>1 DEF NoNUL
  <2> QED
    BY <2>1, <2>2 DEF Reads
<1>4. P(end)
  BY <1>3 DEF Reads
<1>5. ASSUME NEW i \in at..Last, P(i) PROVE i = end
  <2>0. i \in Int /\ at <= i /\ i <= Last
    BY <1>1
  <2>1. CASE i < end
    <3>1. i \in at..(end - 1) /\ i # Last
      BY <1>2, <2>0, <2>1
    <3> QED
      BY <1>3, <1>5, <3>1
  <2>2. CASE i > end
    <3>1. end \in at..(i - 1)
      BY <1>2, <2>0, <2>2
    <3>2. m[end] # NUL
      BY <1>5, <3>1
    <3> QED
      BY <3>2 DEF Reads
  <2> QED
    BY <2>0, <2>1, <2>2
<1>6. TextAt(m, at) = [i \in 1..Len(s) |-> m[at + i - 1]]
  <2>1. end \in at..Last
    BY <1>1, <1>2
  <2>2. (CHOOSE i \in at..Last : P(i)) = end
    BY <1>4, <1>5, <2>1
  <2>3. TextAt(m, at) = [i \in 1..(end - at) |-> m[at + i - 1]]
    BY <2>2 DEF TextAt, Last
  <2>4. end - at = Len(s)
    BY <1>2
  <2> QED
    BY <2>3, <2>4
<1>7. s = [i \in 1..Len(s) |-> s[i]]
  OBVIOUS
<1>8. \A i \in 1..Len(s) : m[at + i - 1] = s[i]
  BY DEF Reads
<1> QED
  BY <1>6, <1>7, <1>8

(* A text and its terminator, put over whatever other writes have left. *)
LEMMA PutShows ==
  ASSUME NEW m \in Memory, NEW n \in Memory, NEW at \in Nat, Room(at),
         NEW s \in Seq(Chars), NoNUL(s), Len(s) < AMOUNT_TEXT_MAX_LEN,
         NEW end \in Nat, end = at + Len(s), SameOutside(n, m, at)
  PROVE  Shows(Terminate(Put(n, at, s), end), m, at, s)
<1> DEFINE p == Put(n, at, s)
           w == Terminate(p, end)
<1>1. Len(s) \in Nat /\ Len(s) <= 95 /\ end \in Nat /\ end <= 118 /\ at <= end
  <2>1. Len(s) \in Nat
    OBVIOUS
  <2>2. Len(s) < 96 /\ at + 96 <= 119
    BY Sizes DEF Room
  <2> QED
    BY <2>1, <2>2
<1>2. end \in Cells
  <2>1. end <= 158
    BY <1>1
  <2> QED
    BY <2>1, Sizes, Zenon
<1>3. /\ p \in Memory
      /\ \A i \in Cells : p[i] = IF at <= i /\ i < at + Len(s)
                                 THEN s[i - at + 1] ELSE n[i]
  BY PutAt
<1> HIDE DEF p
<1>4. w \in Memory /\ w[end] = NUL /\ \A i \in Cells \ {end} : w[i] = p[i]
  BY <1>2, <1>3, TerminateAt
<1> HIDE DEF w
<1>5. ASSUME NEW j \in 1..Len(s) PROVE w[at + j - 1] = s[j]
  <2> DEFINE i == at + j - 1
  <2>1. i \in Nat /\ i < end /\ at <= i /\ i - at + 1 = j
    BY <1>1
  <2>2. i \in Cells /\ i # end
    BY <1>1, <2>1, Sizes
  <2> HIDE DEF i
  <2>3. w[i] = s[j]
    BY <1>3, <1>4, <2>1, <2>2
  <2> QED
    BY <2>3 DEF i
<1>6. ASSUME NEW i \in Cells, i < at \/ i >= at + AMOUNT_TEXT_MAX_LEN
      PROVE  w[i] = m[i]
  <2>1. i \in Nat
    BY Sizes
  <2>2. i # end /\ ~(at <= i /\ i < at + Len(s))
    BY <1>1, <1>6, <2>1, Sizes
  <2>3. n[i] = m[i]
    BY <1>6 DEF SameOutside
  <2> QED
    BY <1>3, <1>4, <2>2, <2>3
<1>7. Reads(w, at, s) /\ SameOutside(w, m, at)
  BY <1>4, <1>5, <1>6 DEF Reads, SameOutside
<1>8. Shows(w, m, at, s)
  BY <1>4, <1>7 DEF Shows
<1> QED
  BY <1>8 DEF w, p

-----------------------------------------------------------------------------
(* The texts of the fields *)

IsText(s, n) == s \in Seq(Chars) /\ NoNUL(s) /\ Len(s) = n

LEMMA ConcatText ==
  ASSUME NEW n \in Nat, NEW k \in Nat, NEW s, NEW t, IsText(s, n), IsText(t, k)
  PROVE  IsText(s \o t, n + k)
<1>1. s \in Seq(Chars) /\ t \in Seq(Chars) /\ Len(s) = n /\ Len(t) = k
  BY DEF IsText
<1>2. s \o t \in Seq(Chars) /\ Len(s \o t) = n + k
  BY <1>1
<1>3. ASSUME NEW j \in 1..Len(s \o t) PROVE (s \o t)[j] # NUL
  <2>1. CASE j <= n
    <3>1. j \in 1..Len(s) /\ (s \o t)[j] = s[j]
      BY <1>1, <1>2, <2>1
    <3> QED
      BY <3>1 DEF IsText, NoNUL
  <2>2. CASE j > n
    <3>1. j - n \in 1..Len(t) /\ (s \o t)[j] = t[j - n]
      BY <1>1, <1>2, <2>2
    <3> QED
      BY <3>1 DEF IsText, NoNUL
  <2> QED
    BY <1>2, <2>1, <2>2
<1> QED
  BY <1>2, <1>3 DEF IsText, NoNUL

(* n characters, none of them NUL, are a text. *)
LEMMA TextOfChars ==
  ASSUME NEW n \in Nat, NEW s \in [1..n -> Chars \ {NUL}]
  PROVE  IsText(s, n)
<1>1. s \in [1..n -> Chars]
  OBVIOUS
<1>2. s \in Seq(Chars) /\ Len(s) = n
  BY <1>1, FunctionIsSeq
<1> QED
  BY <1>2 DEF IsText, NoNUL

LEMMA LiteralText ==
  /\ IsText(Literal("vite_", 5), 5)
  /\ IsText(Literal("tti_", 4), 4)
  /\ IsText(Literal("garbage", 16), 16)
  /\ IsText(<<Dot, Dot>>, 2)
<1>1. ASSUME NEW name \in {"vite_", "tti_", "garbage"}, NEW n \in 0..95
      PROVE  IsText(Literal(name, n), n)
  <2>1. \A i \in 1..n : <<name, i>> \in Chars /\ <<name, i>> # NUL
    BY DEF Chars, NUL
  <2>2. Literal(name, n) \in [1..n -> Chars \ {NUL}]
    BY <2>1 DEF Literal
  <2> QED
    BY <2>2, TextOfChars
<1>2. IsText(<<Dot, Dot>>, 2)
  <2>1. Dot \in Chars /\ Dot # NUL
    BY DEF Dot, Chars, NUL
  <2>2. <<Dot, Dot>> \in [1..2 -> Chars \ {NUL}]
    BY <2>1
  <2> QED
    BY <2>2, TextOfChars
<1> QED
  BY <1>1, <1>2

LEMMA LabelText ==
  ASSUME NEW f \in DOMAIN LabelLen
  PROVE  /\ LabelLen[f] \in 1..12
         /\ IsText(Literal(f, LabelLen[f]), LabelLen[f])
<1>1. LabelLen[f] \in 1..12 /\ f # "NUL"
  <2>1. f \in {"Your account", "Contract", "To address", "Token ID",
               "Send amount", "Fee", "Data"}
    BY DEF LabelLen
  <2>2. f # "NUL"
    BY <2>1
  <2>3. /\ LabelLen["Your account"] = 12 /\ LabelLen["Contract"] = 8
        /\ LabelLen["To address"] = 10 /\ LabelLen["Token ID"] = 8
        /\ LabelLen["Send amount"] = 11 /\ LabelLen["Fee"] = 3
        /\ LabelLen["Data"] = 4
    BY DEF LabelLen
  <2>4. LabelLen[f] \in {12, 8, 10, 11, 3, 4}
    BY <2>1, <2>3, Zenon
  <2> QED
    BY <2>2, <2>4
<1>2. \A i \in 1..LabelLen[f] : <<f, i>> \in Chars /\ <<f, i>> # NUL
  BY <1>1 DEF Chars, NUL
<1>3. Literal(f, LabelLen[f]) \in [1..LabelLen[f] -> Chars \ {NUL}]
  BY <1>2 DEF Literal
<1> QED
  BY <1>1, <1>3, TextOfChars

LEMMA NibbleType ==
  ASSUME NEW b \in Seq(Byte), NEW i \in 1..(2 * Len(b))
  PROVE  Nibble(b, i) \in 0..15
<1>1. CASE i % 2 = 1
  <2>1. (i + 1) \div 2 \in 1..Len(b)
    BY <1>1
  <2>2. b[(i + 1) \div 2] \in Byte
    BY <2>1
  <2>3. \A x \in Byte : x \div 16 \in 0..15
    BY DEF Byte
  <2> QED
    BY <1>1, <2>2, <2>3 DEF Nibble
<1>2. CASE i % 2 # 1
  <2>1. i \div 2 \in 1..Len(b)
    BY <1>2
  <2>2. b[i \div 2] \in Byte
    BY <2>1
  <2>3. \A x \in Byte : x % 16 \in 0..15
    BY DEF Byte
  <2> QED
    BY <1>2, <2>2, <2>3 DEF Nibble
<1> QED
  BY <1>1, <1>2

LEMMA HexText ==
  ASSUME NEW b \in Seq(Byte)
  PROVE  /\ IsText(Hex(b), 2 * Len(b))
         /\ IsText(CapitalHex(b), 2 * Len(b))
<1>1. \A i \in 1..(2 * Len(b)) :
        /\ <<"hex", Nibble(b, i)>> \in Chars \ {NUL}
        /\ <<"HEX", Nibble(b, i)>> \in Chars \ {NUL}
  BY NibbleType DEF Chars, NUL
<1>2. 2 * Len(b) \in Nat
  OBVIOUS
<1>3. /\ Hex(b) \in [1..(2 * Len(b)) -> Chars \ {NUL}]
      /\ CapitalHex(b) \in [1..(2 * Len(b)) -> Chars \ {NUL}]
  BY <1>1 DEF Hex, CapitalHex
<1> QED
  BY <1>2, <1>3, TextOfChars

-----------------------------------------------------------------------------
(* Addresses and identifiers *)

IsAddress(a) == a \in [1..21 -> Byte] /\ Check[Raw(a)] \in [1..5 -> Byte]

LEMMA RawType ==
  ASSUME NEW a \in [1..21 -> Byte]
  PROVE  Raw(a) \in Seq(Byte) /\ Len(Raw(a)) = 20
<1>1. a \in Seq(Byte) /\ Len(a) = 21
  BY FunctionIsSeq
<1> QED
  BY <1>1 DEF Raw

LEMMA UserIsAddress ==
  ASSUME NEW account \in Accounts
  PROVE  IsAddress(User(account))
<1>1. account \in [1..20 -> Byte] /\ Check[account] \in [1..5 -> Byte]
  BY TextAssumption
<1>2. account \in Seq(Byte) /\ Len(account) = 20
  BY <1>1, FunctionIsSeq
<1>3. 0 \in Byte
  BY DEF Byte
<1>4. User(account) \in Seq(Byte) /\ Len(User(account)) = 21
  <2>1. Append(account, 0) \in Seq(Byte)
    BY <1>2, <1>3
  <2>2. Len(Append(account, 0)) = Len(account) + 1
    <3>1. account \in Seq(Byte)
      BY <1>2
    <3> QED
      BY <1>3, <3>1
  <2>3. Len(account) + 1 = 21
    BY <1>2
  <2> QED
    BY <2>1, <2>2, <2>3 DEF User
<1>5. User(account) \in [1..21 -> Byte]
  BY <1>4, SeqIsFunction
<1>6. Raw(User(account)) = account
  <2>1. \A i \in 1..Len(account) : User(account)[i] = account[i]
    BY <1>2, <1>3, AppendSeq, Zenon DEF User
  <2>2. Raw(User(account)) = [i \in 1..20 |-> User(account)[i]]
    BY <1>4 DEF Raw
  <2>3. account = [i \in 1..20 |-> account[i]]
    BY <1>1
  <2> QED
    BY <1>2, <2>1, <2>2, <2>3
<1> QED
  BY <1>1, <1>5, <1>6 DEF IsAddress

LEMMA AddressTextType ==
  ASSUME NEW a, IsAddress(a)
  PROVE  /\ IsText(Hex(Raw(a)), 40)
         /\ IsText(Hex(AddressCheck(a)), 10)
         /\ IsText(AddressText(a), 55)
<1>1. IsText(Hex(Raw(a)), 40)
  <2>1. Raw(a) \in Seq(Byte) /\ Len(Raw(a)) = 20
    BY RawType DEF IsAddress
  <2>2. IsText(Hex(Raw(a)), 2 * Len(Raw(a)))
    BY <2>1, HexText
  <2>3. 2 * Len(Raw(a)) = 40
    BY <2>1
  <2> QED
    BY <2>2, <2>3
<1>2. IsText(Hex(AddressCheck(a)), 10)
  <2>1. Check[Raw(a)] \in [1..5 -> Byte]
    BY DEF IsAddress
  <2>2. Inverted(Check[Raw(a)]) \in [1..5 -> Byte]
    <3>1. \A x \in Byte : 255 - x \in Byte
      BY DEF Byte
    <3>2. \A i \in 1..5 : Check[Raw(a)][i] \in Byte
      BY <2>1
    <3> QED
      BY <2>1, <3>1, <3>2 DEF Inverted
  <2>3. AddressCheck(a) \in [1..5 -> Byte]
    BY <2>1, <2>2 DEF AddressCheck
  <2>4. AddressCheck(a) \in Seq(Byte) /\ Len(AddressCheck(a)) = 5
    BY <2>3, FunctionIsSeq
  <2>5. IsText(Hex(AddressCheck(a)), 2 * Len(AddressCheck(a)))
    BY <2>4, HexText
  <2>6. 2 * Len(AddressCheck(a)) = 10
    BY <2>4
  <2> QED
    BY <2>5, <2>6
<1>3. IsText(Literal("vite_", 5) \o Hex(Raw(a)), 45)
  <2>1. IsText(Literal("vite_", 5) \o Hex(Raw(a)), 5 + 40)
    BY <1>1, LiteralText, ConcatText
  <2> QED
    BY <2>1
<1>4. IsText(AddressText(a), 55)
  <2>1. IsText((Literal("vite_", 5) \o Hex(Raw(a))) \o Hex(AddressCheck(a)), 45 + 10)
    BY <1>2, <1>3, ConcatText
  <2> QED
    BY <2>1 DEF AddressText
<1> QED
  BY <1>1, <1>2, <1>4

LEMMA AddressFormatted ==
  ASSUME NEW a, IsAddress(a), NEW m \in Memory, NEW at \in Nat
  PROVE  AddressFormat(m, at, a) = Put(m, at, AddressText(a))
<1> DEFINE v == Literal("vite_", 5)
           r == Hex(Raw(a))
           c == Hex(AddressCheck(a))
<1>1. /\ v \in Seq(Chars) /\ r \in Seq(Chars) /\ c \in Seq(Chars)
      /\ Len(v) = 5 /\ Len(r) = 40
  BY AddressTextType, LiteralText DEF IsText
<1>2. AddressFormat(m, at, a) = Put(Put(Put(m, at, v), at + 5, r), at + 5 + 40, c)
  BY DEF AddressFormat
<1>3. AddressText(a) = (v \o r) \o c
  BY DEF AddressText
<1> HIDE DEF v, r, c
<1>4. Put(Put(m, at, v), at + 5, r) = Put(m, at, v \o r)
  <2>1. Put(Put(m, at, v), at + Len(v), r) = Put(m, at, v \o r)
    BY <1>1, PutConcat
  <2> QED
    BY <1>1, <2>1
<1>5. v \o r \in Seq(Chars) /\ Len(v \o r) = Len(v) + Len(r)
  BY <1>1, ConcatSeq
<1>6. at + 5 + 40 = at + Len(v \o r)
  BY <1>1, <1>5
<1>7. Put(Put(m, at, v \o r), at + 5 + 40, c) = Put(m, at, (v \o r) \o c)
  <2>1. Put(Put(m, at, v \o r), at + Len(v \o r), c) = Put(m, at, (v \o r) \o c)
    BY <1>1, <1>5, PutConcat
  <2> QED
    BY <1>6, <2>1
<1> QED
  BY <1>2, <1>3, <1>4, <1>7

(* The whole address. *)
LEMMA FullAddressShows ==
  ASSUME NEW a, IsAddress(a), NEW m \in Memory, NEW at \in Nat, Room(at)
  PROVE  Shows(WriteAddressFull(m, at, a), m, at, AddressText(a))
<1>1. /\ AddressText(a) \in Seq(Chars) /\ NoNUL(AddressText(a))
      /\ Len(AddressText(a)) = 55
  BY AddressTextType DEF IsText
<1>2. SameOutside(m, m, at) /\ at + 55 \in Nat /\ 55 < AMOUNT_TEXT_MAX_LEN
  BY Sizes DEF SameOutside
<1>3. Shows(Terminate(Put(m, at, AddressText(a)), at + 55), m, at, AddressText(a))
  BY <1>1, <1>2, PutShows
<1> QED
  BY <1>3, AddressFormatted DEF WriteAddressFull

(* A copy within the string touches nothing else. *)
LEMMA PutOutside ==
  ASSUME NEW m \in Memory, NEW n \in Memory, NEW at \in Nat, NEW d \in Nat,
         NEW s \in Seq(Chars), SameOutside(n, m, at),
         d + Len(s) <= AMOUNT_TEXT_MAX_LEN
  PROVE  /\ Put(n, at + d, s) \in Memory
         /\ SameOutside(Put(n, at + d, s), m, at)
<1> DEFINE p == Put(n, at + d, s)
           len == Len(s)
<1>1. at + d \in Nat /\ len \in Nat
  OBVIOUS
<1>2. /\ p \in Memory
      /\ \A i \in Cells : p[i] = IF at + d <= i /\ i < at + d + len
                                 THEN s[i - (at + d) + 1] ELSE n[i]
  BY <1>1, PutAt
<1>3. d + len <= 96
  BY Sizes
<1> HIDE DEF p, len
<1>4. ASSUME NEW i \in Cells, i < at \/ i >= at + AMOUNT_TEXT_MAX_LEN
      PROVE  p[i] = m[i]
  <2>1. i \in Nat /\ (i < at \/ i >= at + 96)
    BY <1>4, Sizes
  <2>2. ~(at + d <= i /\ i < at + d + len)
    BY <1>1, <1>3, <2>1
  <2>3. n[i] = m[i]
    BY <1>4 DEF SameOutside
  <2> QED
    BY <1>2, <2>2, <2>3
<1> QED
  BY <1>2, <1>4 DEF SameOutside, p

LEMMA ShortTextType ==
  ASSUME NEW a, IsAddress(a)
  PROVE  /\ IsText(Ending(AddressText(a), 10), 10)
         /\ IsText(ShortText(a), 12)
         /\ \A j \in 1..10 : Ending(AddressText(a), 10)[j] = AddressText(a)[45 + j]
<1> DEFINE t == AddressText(a)
<1>1. t \in Seq(Chars) /\ NoNUL(t) /\ Len(t) = 55
  BY AddressTextType DEF IsText
<1> HIDE DEF t
<1>2. Ending(t, 10) = [j \in 1..10 |-> t[45 + j]]
  <2>1. Ending(t, 10) = SubSeq(t, 46, 55)
    BY <1>1 DEF Ending
  <2>2. SubSeq(t, 46, 55) = [j \in 1..10 |-> t[45 + j]]
    BY <1>1
  <2> QED
    BY <2>1, <2>2
<1>3. ASSUME NEW j \in 1..10 PROVE t[45 + j] \in Chars \ {NUL}
  <2>1. 45 + j \in 1..Len(t)
    BY <1>1
  <2>2. t[45 + j] \in Chars
    <3>1. t \in Seq(Chars)
      BY <1>1
    <3> QED
      BY <2>1, <3>1
  <2> QED
    BY <1>1, <2>1, <2>2 DEF NoNUL
<1>4. Ending(t, 10) \in [1..10 -> Chars \ {NUL}]
  BY <1>2, <1>3
<1>5. IsText(Ending(t, 10), 10)
  BY <1>4, TextOfChars
<1>6. IsText(<<Dot, Dot>> \o Ending(t, 10), 2 + 10)
  BY <1>5, LiteralText, ConcatText
<1> QED
  BY <1>2, <1>5, <1>6 DEF ShortText, t

(* Two dots and the checksum: the text is made out of the whole one, which
   lies in the same string. *)
LEMMA ShortAddressShows ==
  ASSUME NEW a, IsAddress(a), NEW m \in Memory, NEW at \in Nat, Room(at)
  PROVE  Shows(WriteAddressTruncated(m, at, a), m, at, ShortText(a))
<1> DEFINE t == AddressText(a)
           D == <<Dot, Dot>>
           e == Ending(AddressText(a), 10)
           whole == Put(m, at, t)
           dots == Put(whole, at, D)
<1>1. t \in Seq(Chars) /\ Len(t) = 55 /\ D \in Seq(Chars) /\ Len(D) = 2
  BY AddressTextType, LiteralText DEF IsText
<1>2. e \in Seq(Chars) /\ \A j \in 1..10 : e[j] = t[45 + j]
  BY ShortTextType DEF IsText
<1>3. e = [j \in 1..10 |-> e[j]]
  BY ShortTextType DEF IsText
<1>4. D \o e = ShortText(a) /\ ShortText(a) \in Seq(Chars) /\ NoNUL(ShortText(a))
      /\ Len(ShortText(a)) = 12
  BY ShortTextType DEF ShortText, IsText
<1>5. WriteAddressTruncated(m, at, a) =
        Terminate(Move(dots, at + 2, at + 5 + 40, 10), at + 12)
  BY AddressFormatted DEF WriteAddressTruncated
<1> HIDE DEF t, D, e
<1>6. whole \in Memory /\ SameOutside(whole, m, at)
  <2>1. SameOutside(m, m, at) /\ 0 + Len(t) <= AMOUNT_TEXT_MAX_LEN /\ at + 0 = at
    BY <1>1, Sizes DEF SameOutside
  <2>2. /\ Put(m, at + 0, t) \in Memory
        /\ SameOutside(Put(m, at + 0, t), m, at)
    BY <1>1, <2>1, PutOutside
  <2> QED
    BY <2>1, <2>2
<1>7. \A i \in Cells : whole[i] = IF at <= i /\ i < at + Len(t)
                                  THEN t[i - at + 1] ELSE m[i]
  BY <1>1, PutAt
<1> HIDE DEF whole
<1>8. /\ dots \in Memory
      /\ \A i \in Cells : dots[i] = IF at <= i /\ i < at + Len(D)
                                    THEN D[i - at + 1] ELSE whole[i]
  BY <1>1, <1>6, PutAt
<1>9. ASSUME NEW j \in 1..10 PROVE dots[at + 5 + 40 + j - 1] = e[j]
  <2> DEFINE i == at + 5 + 40 + j - 1
  <2>1. i \in Nat /\ at + 2 <= i /\ i < at + 55 /\ i - at + 1 = 45 + j
    OBVIOUS
  <2>2. at + 96 <= 119
    BY Sizes DEF Room
  <2>3. i \in Cells
    <3>1. i <= 158
      BY <2>1, <2>2
    <3> QED
      BY <2>1, <3>1, Sizes
  <2> HIDE DEF i
  <2>4. dots[i] = whole[i]
    BY <1>1, <1>8, <2>1, <2>3
  <2>5. whole[i] = t[i - at + 1]
    BY <1>1, <1>7, <2>1, <2>3
  <2>6. dots[i] = e[j]
    BY <1>2, <2>1, <2>4, <2>5
  <2> QED
    BY <2>6 DEF i
<1>10. Move(dots, at + 2, at + 5 + 40, 10) = Put(dots, at + 2, e)
  BY <1>3, <1>9 DEF Move
<1>11. Put(dots, at + 2, e) = Put(whole, at, D \o e)
  <2>1. Put(Put(whole, at, D), at + Len(D), e) = Put(whole, at, D \o e)
    BY <1>1, <1>2, <1>6, PutConcat
  <2> QED
    BY <1>1, <2>1
<1>12. at + 12 \in Nat /\ 12 < AMOUNT_TEXT_MAX_LEN
  BY Sizes
<1>13. Shows(Terminate(Put(whole, at, ShortText(a)), at + 12), m, at, ShortText(a))
  BY <1>4, <1>6, <1>12, PutShows
<1> QED
  BY <1>4, <1>5, <1>10, <1>11, <1>13

LEMMA TokenBytes ==
  ASSUME NEW k \in [1..10 -> Byte]
  PROVE  k \in Seq(Byte) /\ Len(k) = 10
BY FunctionIsSeq

LEMMA TokenShows ==
  ASSUME NEW k \in [1..10 -> Byte], Check[k] \in [1..2 -> Byte],
         NEW m \in Memory, NEW at \in Nat, Room(at)
  PROVE  Shows(WriteTokenId(m, at, k), m, at,
               Literal("tti_", 4) \o Hex(k) \o Hex(Check[k]))
<1> DEFINE v == Literal("tti_", 4)
           r == Hex(k)
           c == Hex(Check[k])
           whole == (v \o r) \o c
<1>1. IsText(v, 4) /\ IsText(r, 20) /\ IsText(c, 4)
  <2>1. k \in Seq(Byte) /\ Len(k) = 10
    BY TokenBytes
  <2>4. Check[k] \in Seq(Byte) /\ Len(Check[k]) = 2
    BY FunctionIsSeq
  <2>2. IsText(r, 2 * Len(k)) /\ IsText(c, 2 * Len(Check[k]))
    BY <2>1, <2>4, HexText
  <2>3. 2 * Len(k) = 20 /\ 2 * Len(Check[k]) = 4
    BY <2>1, <2>4
  <2> QED
    BY <2>2, <2>3, LiteralText
<1>2. WriteTokenId(m, at, k) =
        Terminate(Put(Put(Put(m, at, v), at + 4, r), at + 24, c), at + 28)
  BY DEF WriteTokenId, TokenIdFormat
<1> HIDE DEF v, r, c
<1>3. IsText(v \o r, 24)
  <2>1. IsText(v \o r, 4 + 20)
    BY <1>1, ConcatText
  <2> QED
    BY <2>1
<1>4. IsText(whole, 28)
  <2>1. IsText((v \o r) \o c, 24 + 4)
    BY <1>1, <1>3, ConcatText
  <2> QED
    BY <2>1
<1>5. /\ v \in Seq(Chars) /\ r \in Seq(Chars) /\ c \in Seq(Chars)
      /\ v \o r \in Seq(Chars) /\ Len(v) = 4 /\ Len(v \o r) = 24
  BY <1>1, <1>3 DEF IsText
<1>6. Put(Put(m, at, v), at + 4, r) = Put(m, at, v \o r)
  <2>1. Put(Put(m, at, v), at + Len(v), r) = Put(m, at, v \o r)
    BY <1>5, PutConcat
  <2> QED
    BY <1>5, <2>1
<1>7. Put(Put(m, at, v \o r), at + 24, c) = Put(m, at, whole)
  <2>1. Put(Put(m, at, v \o r), at + Len(v \o r), c) = Put(m, at, whole)
    BY <1>5, PutConcat
  <2> QED
    BY <1>5, <2>1
<1>8. SameOutside(m, m, at) /\ at + 28 \in Nat /\ 28 < AMOUNT_TEXT_MAX_LEN
  BY Sizes DEF SameOutside
<1>9. whole \in Seq(Chars) /\ NoNUL(whole) /\ Len(whole) = 28
  BY <1>4 DEF IsText
<1> HIDE DEF whole
<1>10. Shows(Terminate(Put(m, at, whole), at + 28), m, at, whole)
  BY <1>8, <1>9, PutShows
<1> QED
  BY <1>2, <1>6, <1>7, <1>10 DEF whole, v, r, c

LEMMA NameShows ==
  ASSUME NEW a \in [1..21 -> Byte], HasName(a), NEW m \in Memory,
         NEW at \in Nat, Room(at)
  PROVE  Shows(WriteReceiver(m, at, a), m, at, NameOf(a))
<1> DEFINE len == NameLen[a[20] + 1]
<1>1. a[20] \in Byte /\ a[20] + 1 \in 1..8 /\ len \in 1..24
  <2>1. a[20] \in Byte
    OBVIOUS
  <2>2. a[20] < Len(NameLen) /\ Len(NameLen) = 8
    BY DEF HasName, NameLen
  <2>3. a[20] + 1 \in 1..8
    BY <2>1, <2>2 DEF Byte
  <2>4. \A i \in 1..8 : NameLen[i] \in 0..24
    BY DEF NameLen
  <2>5. len \in 0..24 /\ len > 0
    BY <2>3, <2>4 DEF HasName
  <2> QED
    BY <2>1, <2>3, <2>5
<1>2. NameOf(a) = [i \in 1..len |-> <<"contract", 32 * a[20] + i>>]
  BY DEF NameOf
<1> HIDE DEF len
<1>3. ASSUME NEW i \in 1..len
      PROVE  <<"contract", 32 * a[20] + i>> \in Chars \ {NUL}
  <2>1. a[20] \in 0..7 /\ i \in 1..24
    BY <1>1 DEF Byte
  <2>2. 32 * a[20] + i \in Byte
    BY <2>1 DEF Byte
  <2> QED
    BY <2>2 DEF Chars, NUL
<1>4. NameOf(a) \in [1..len -> Chars \ {NUL}]
  BY <1>2, <1>3
<1>5. IsText(NameOf(a), len)
  <2>1. len \in Nat
    BY <1>1
  <2> QED
    BY <1>4, <2>1, TextOfChars, Zenon
<1>6. NameOf(a) \in Seq(Chars) /\ NoNUL(NameOf(a)) /\ Len(NameOf(a)) = len
  BY <1>5 DEF IsText
<1>7. SameOutside(m, m, at) /\ at + len \in Nat /\ len < AMOUNT_TEXT_MAX_LEN
  BY <1>1, Sizes DEF SameOutside
<1>8. Shows(Terminate(Put(m, at, NameOf(a)), at + len), m, at, NameOf(a))
  BY <1>6, <1>7, PutShows
<1> QED
  BY <1>8 DEF WriteReceiver, len

(* Amounts come with their terminator and are cut where the string ends; the
   longest one is cut of it, and gets another there. *)
LEMMA AmountShows ==
  ASSUME NEW s \in Seq(AmountChar), Len(s) <= 95, NEW m \in Memory,
         NEW at \in Nat, Room(at)
  PROVE  Shows(WriteAmount(m, at, s), m, at, s)
<1> DEFINE whole == Append(s, NUL)
           len == IF Len(whole) < AMOUNT_TEXT_MAX_LEN - 1
                  THEN Len(whole) ELSE AMOUNT_TEXT_MAX_LEN - 1
           cut == SubSeq(whole, 1, len)
           p == Put(m, at, cut)
           w == Terminate(p, at + 95)
<1>1. s \in Seq(Chars) /\ NoNUL(s) /\ Len(s) \in Nat
  <2>1. \A c \in AmountChar : c \in Chars /\ c # NUL
    BY DEF Chars, AmountChar, NUL
  <2>2. \A j \in 1..Len(s) : s[j] \in AmountChar
    OBVIOUS
  <2> QED
    BY <2>1, <2>2 DEF NoNUL
<1>2. whole \in Seq(Chars) /\ Len(whole) = Len(s) + 1
  BY <1>1, AppendSeq DEF Chars
<1>3. /\ \A j \in 1..Len(s) : whole[j] = s[j]
      /\ whole[Len(s) + 1] = NUL
  BY <1>1
<1> HIDE DEF whole
<1>4. PICK n \in Nat : n = Len(s) /\ n <= 95
  BY <1>1
<1>5. /\ len \in Nat /\ len <= 95 /\ n <= len /\ len <= n + 1
      /\ n = 95 \/ len = n + 1
  <2>1. Len(whole) = n + 1
    BY <1>2, <1>4
  <2>2. len = IF n + 1 < 96 - 1 THEN n + 1 ELSE 96 - 1
    BY <2>1, Sizes
  <2> HIDE DEF len
  <2>3. n \in Nat /\ n <= 95
    BY <1>4
  <2>4. CASE n < 94
    <3>1. len = n + 1
      BY <2>2, <2>4
    <3> QED
      BY <2>3, <2>4, <3>1
  <2>5. CASE n >= 94
    <3>1. len = 95
      BY <2>2, <2>3, <2>5
    <3> QED
      BY <2>3, <2>5, <3>1
  <2> QED
    BY <2>3, <2>4, <2>5
<1> HIDE DEF len
<1>6. /\ cut \in Seq(Chars) /\ Len(cut) = len
      /\ \A j \in 1..len : cut[j] = whole[j]
  <2>1. len <= Len(whole)
    BY <1>2, <1>4, <1>5
  <2> QED
    BY <1>2, <1>5, <2>1
<1> HIDE DEF cut
<1>7. /\ p \in Memory
      /\ \A i \in Cells : p[i] = IF at <= i /\ i < at + Len(cut)
                                 THEN cut[i - at + 1] ELSE m[i]
  BY <1>6, PutAt
<1> HIDE DEF p
<1>8. at + 95 \in Nat /\ at + 95 <= 118 /\ at + 95 \in Cells
  <2>1. at + 96 <= 119
    BY Sizes DEF Room
  <2>2. at + 95 \in Nat /\ at + 95 <= 158 /\ at + 95 <= 118
    BY <2>1
  <2> QED
    BY <2>2, Sizes
<1>9. w \in Memory /\ w[at + 95] = NUL
      /\ \A i \in Cells \ {at + 95} : w[i] = p[i]
  BY <1>7, <1>8, TerminateAt
<1> HIDE DEF w
<1>10. ASSUME NEW j \in 1..len, j <= 95
       PROVE  w[at + j - 1] = whole[j]
  <2> DEFINE i == at + j - 1
  <2>1. i \in Nat /\ at <= i /\ i < at + len /\ i # at + 95 /\ i - at + 1 = j
    BY <1>5
  <2>2. i \in Cells
    <3>1. i <= 158
      BY <1>5, <1>8, <2>1
    <3> QED
      BY <2>1, <3>1, Sizes
  <2> HIDE DEF i
  <2>3. w[i] = p[i]
    BY <1>9, <2>1, <2>2
  <2>4. p[i] = cut[i - at + 1]
    BY <1>6, <1>7, <2>1, <2>2
  <2>5. w[i] = whole[j]
    BY <1>6, <2>1, <2>3, <2>4
  <2> QED
    BY <2>5 DEF i
<1>11. \A j \in 1..Len(s) : w[at + j - 1] = s[j]
  <2>1. \A j \in 1..n : j \in 1..len /\ j <= 95
    BY <1>4, <1>5
  <2> QED
    BY <1>3, <1>4, <1>10, <2>1
<1>12. w[at + Len(s)] = NUL
  <2>1. CASE n = 95
    BY <1>4, <1>9, <2>1
  <2>2. CASE n # 95
    <3>1. n + 1 \in 1..len /\ n + 1 <= 95 /\ at + (n + 1) - 1 = at + n
      BY <1>5, <2>2
    <3>2. w[at + n] = whole[n + 1]
      BY <1>10, <3>1
    <3> QED
      BY <1>3, <1>4, <3>2
  <2> QED
    BY <2>1, <2>2
<1>13. ASSUME NEW i \in Cells, i < at \/ i >= at + AMOUNT_TEXT_MAX_LEN
       PROVE  w[i] = m[i]
  <2>1. i \in Nat /\ (i < at \/ i >= at + 96)
    BY <1>13, Sizes
  <2>2. i # at + 95 /\ ~(at <= i /\ i < at + len)
    BY <1>5, <2>1
  <2> QED
    BY <1>6, <1>7, <1>9, <2>2
<1>14. Len(s) < AMOUNT_TEXT_MAX_LEN
  BY <1>4, Sizes
<1>15. Shows(w, m, at, s)
  BY <1>1, <1>9, <1>11, <1>12, <1>13, <1>14 DEF Shows, Reads, SameOutside
<1>16. WriteAmount(m, at, s) = w
  BY Sizes DEF WriteAmount, w, p, cut, len, whole
<1> QED
  BY <1>15, <1>16

(* A text put over a longer one that starts with it changes nothing. *)
LEMMA PrefixIsThere ==
  ASSUME NEW m \in Memory, NEW at \in Nat,
         NEW s \in Seq(Chars), NEW t \in Seq(Chars), Len(t) <= Len(s),
         \A j \in 1..Len(t) : t[j] = s[j]
  PROVE  Put(Put(m, at, s), at, t) = Put(m, at, s)
<1> DEFINE w == Put(m, at, s)
           q == Put(w, at, t)
<1>1. /\ w \in Memory
      /\ \A i \in Cells : w[i] = IF at <= i /\ i < at + Len(s)
                                 THEN s[i - at + 1] ELSE m[i]
  BY PutAt
<1> HIDE DEF w
<1>2. /\ q \in Memory
      /\ \A i \in Cells : q[i] = IF at <= i /\ i < at + Len(t)
                                 THEN t[i - at + 1] ELSE w[i]
  BY <1>1, PutAt
<1> HIDE DEF q
<1>3. ASSUME NEW i \in Cells PROVE q[i] = w[i]
  <2>1. i \in Nat /\ Len(s) \in Nat /\ Len(t) \in Nat
    BY Sizes
  <2>2. CASE at <= i /\ i < at + Len(t)
    <3>1. i - at + 1 \in 1..Len(t) /\ i < at + Len(s)
      BY <2>1, <2>2
    <3>2. q[i] = t[i - at + 1]
      BY <1>2, <2>2
    <3>3. w[i] = s[i - at + 1]
      BY <1>1, <2>2, <3>1
    <3> QED
      BY <3>1, <3>2, <3>3
  <2>3. CASE ~(at <= i /\ i < at + Len(t))
    BY <1>2, <2>3
  <2> QED
    BY <2>2, <2>3
<1>4. q = w
  BY <1>1, <1>2, <1>3 DEF Memory
<1> QED
  BY <1>4 DEF q, w

(* Of the k bytes of data to be shown, h are the digits; what is written is cut. *)
Twice(d, k, cut, h) ==
  /\ k = IF Len(d) > 8 THEN 8 ELSE Len(d)
  /\ cut = SubSeq(CapitalHex(d) \o Literal("garbage", 16), 1, 4 * k)
  /\ h = CapitalHex(IF Len(d) > 8 THEN SubSeq(d, 1, 8) ELSE d)

(* The digits to be shown are the first half of what is written. *)
LEMMA TwiceTheDigits ==
  ASSUME NEW d \in Seq(Byte), NEW k \in Nat, NEW cut, NEW h,
         Twice(d, k, cut, h)
  PROVE  /\ cut \in Seq(Chars) /\ Len(cut) = 4 * k
         /\ IsText(h, 2 * k)
         /\ \A i \in 1..(2 * k) : h[i] = cut[i]
<1> DEFINE D == CapitalHex(d)
           G == Literal("garbage", 16)
           g == D \o G
           first == IF Len(d) > 8 THEN SubSeq(d, 1, 8) ELSE d
<1>1. PICK n \in Nat : n = Len(d)
  OBVIOUS
<1>2. k <= n /\ k <= 8 /\ (n > 8 => k = 8) /\ (n <= 8 => k = n)
  BY <1>1 DEF Twice
<1>3. D \in Seq(Chars) /\ Len(D) = 2 * n
  BY <1>1, HexText DEF IsText
<1>4. G \in Seq(Chars) /\ Len(G) = 16
  BY LiteralText DEF IsText
<1>5. first \in Seq(Byte) /\ Len(first) = k /\ \A i \in 1..k : first[i] = d[i]
  <2>1. CASE n > 8
    <3>1. 8 <= Len(d) /\ 8 \in Nat
      BY <1>1, <2>1
    <3>2. /\ SubSeq(d, 1, 8) \in Seq(Byte) /\ Len(SubSeq(d, 1, 8)) = 8
          /\ \A i \in 1..8 : SubSeq(d, 1, 8)[i] = d[i]
      BY <3>1, PrefixSeq
    <3> QED
      BY <1>1, <1>2, <2>1, <3>2
  <2>2. CASE n <= 8
    BY <1>1, <1>2, <2>2
  <2> QED
    BY <2>1, <2>2
<1>6. h = CapitalHex(first) /\ cut = SubSeq(g, 1, 4 * k)
  BY DEF Twice
<1>7. D = [i \in 1..(2 * n) |-> <<"HEX", Nibble(d, i)>>]
  BY <1>1 DEF CapitalHex
<1> HIDE DEF D, G, first
<1>8. /\ g \in Seq(Chars) /\ Len(g) = 2 * n + 16
      /\ \A i \in 1..(2 * n) : g[i] = D[i]
  <2>1. g \in Seq(Chars) /\ Len(g) = Len(D) + Len(G)
    BY <1>3, <1>4, ConcatSeq, Zenon
  <2>2. \A i \in 1..Len(D) : g[i] = D[i]
    BY <1>3, <1>4
  <2> QED
    BY <1>3, <1>4, <2>1, <2>2
<1> HIDE DEF g
<1>9. cut \in Seq(Chars) /\ Len(cut) = 4 * k /\ \A i \in 1..(4 * k) : cut[i] = g[i]
  <2>1. PICK w \in Nat : w = 4 * k
    OBVIOUS
  <2>2. w <= Len(g)
    BY <1>1, <1>2, <1>8, <2>1
  <2>3. cut = SubSeq(g, 1, w) /\ g \in Seq(Chars)
    BY <1>6, <1>8, <2>1
  <2>4. cut \in Seq(Chars) /\ Len(cut) = w /\ \A i \in 1..w : cut[i] = g[i]
    <3>1. /\ SubSeq(g, 1, w) \in Seq(Chars) /\ Len(SubSeq(g, 1, w)) = w
          /\ \A i \in 1..w : SubSeq(g, 1, w)[i] = g[i]
      BY <2>2, <2>3, PrefixSeq, Zenon
    <3> QED
      BY <2>3, <3>1
  <2> QED
    BY <2>1, <2>4
<1>10. IsText(h, 2 * k)
  <2>1. IsText(CapitalHex(first), 2 * Len(first))
    BY <1>5, HexText
  <2> QED
    BY <1>5, <1>6, <2>1
<1>11. ASSUME NEW i \in 1..(2 * k) PROVE h[i] = cut[i]
  <2>1. (i % 2 = 1 => (i + 1) \div 2 \in 1..k) /\ (i % 2 # 1 => i \div 2 \in 1..k)
    OBVIOUS
  <2>2. Nibble(first, i) = Nibble(d, i)
    BY <1>5, <2>1 DEF Nibble
  <2>3. h[i] = <<"HEX", Nibble(first, i)>>
    BY <1>5, <1>6 DEF CapitalHex
  <2>4. i \in 1..(2 * n) /\ i \in 1..(4 * k)
    BY <1>2
  <2>5. D[i] = <<"HEX", Nibble(d, i)>>
    BY <1>7, <2>4
  <2> QED
    BY <1>8, <1>9, <2>2, <2>3, <2>4, <2>5
<1> QED
  BY <1>9, <1>10, <1>11

(* Twice as many digits are written as are shown, from behind the data too; the
   terminator, or the dots, end the text where its own digits end. *)
LEMMA DataShows ==
  ASSUME NEW d \in Seq(Byte), NEW m \in Memory, NEW at \in Nat, Room(at)
  PROVE  Shows(WriteData(m, at, d), m, at,
               IF Len(d) <= 8 THEN CapitalHex(d)
               ELSE CapitalHex(SubSeq(d, 1, 8)) \o <<Dot, Dot>>)
<1> DEFINE k == IF Len(d) > 8 THEN 8 ELSE Len(d)
           cut == SubSeq(CapitalHex(d) \o Literal("garbage", 16), 1, 4 * k)
           h == CapitalHex(IF Len(d) > 8 THEN SubSeq(d, 1, 8) ELSE d)
           whole == Put(m, at, cut)
           D == <<Dot, Dot>>
<1>1. Len(d) \in Nat
  OBVIOUS
<1>2. k \in Nat /\ k <= 8 /\ (Len(d) > 8 => k = 8) /\ (Len(d) <= 8 => k = Len(d))
  BY <1>1
<1>3. WriteData(m, at, d) = IF Len(d) > 8
                            THEN Terminate(Put(whole, at + 16, D), at + 18)
                            ELSE Terminate(whole, at + 2 * Len(d))
  BY DEF WriteData
<1>4. /\ Len(d) <= 8 => h = CapitalHex(d)
      /\ Len(d) > 8 => h = CapitalHex(SubSeq(d, 1, 8))
  BY <1>1
<1>5. /\ cut \in Seq(Chars) /\ Len(cut) = 4 * k
      /\ IsText(h, 2 * k)
      /\ \A i \in 1..(2 * k) : h[i] = cut[i]
  <2>1. Twice(d, k, cut, h)
    BY DEF Twice
  <2> HIDE DEF k, cut, h
  <2>2. k \in Nat
    BY <1>2
  <2> QED
    BY <2>1, <2>2, TwiceTheDigits
<1> HIDE DEF k, cut, h
<1>6. SameOutside(m, m, at)
  BY DEF SameOutside
<1>7. whole \in Memory /\ SameOutside(whole, m, at)
  <2>1. 0 + Len(cut) <= AMOUNT_TEXT_MAX_LEN /\ at + 0 = at
    BY <1>2, <1>5, Sizes
  <2>2. /\ Put(m, at + 0, cut) \in Memory
        /\ SameOutside(Put(m, at + 0, cut), m, at)
    BY <1>5, <1>6, <2>1, PutOutside
  <2> QED
    BY <2>1, <2>2
<1>8. h \in Seq(Chars) /\ NoNUL(h) /\ Len(h) = 2 * k
  BY <1>5 DEF IsText
<1>9. Put(whole, at, h) = whole
  <2>1. Len(h) <= Len(cut) /\ \A j \in 1..Len(h) : h[j] = cut[j]
    BY <1>2, <1>5, <1>8
  <2> QED
    BY <1>5, <1>8, <2>1, PrefixIsThere
<1> HIDE DEF whole
<1>10. CASE Len(d) <= 8
  <2>1. /\ Len(h) < AMOUNT_TEXT_MAX_LEN /\ at + 2 * k \in Nat
        /\ at + 2 * k = at + Len(h)
    BY <1>2, <1>8, Sizes
  <2>2. Shows(Terminate(Put(whole, at, h), at + 2 * k), m, at, h)
    BY <1>7, <1>8, <2>1, PutShows
  <2>3. WriteData(m, at, d) = Terminate(Put(whole, at, h), at + 2 * k)
    BY <1>1, <1>2, <1>3, <1>9, <1>10
  <2> QED
    BY <1>4, <1>10, <2>2, <2>3
<1>11. CASE Len(d) > 8
  <2> HIDE DEF D
  <2>1. D \in Seq(Chars) /\ IsText(D, 2)
    BY LiteralText DEF IsText, D
  <2>2. Len(h) = 16 /\ IsText(h, 16)
    BY <1>2, <1>5, <1>8, <1>11
  <2>3. IsText(h \o D, 16 + 2)
    BY <2>1, <2>2, ConcatText
  <2>4. h \o D \in Seq(Chars) /\ NoNUL(h \o D) /\ Len(h \o D) = 18
    BY <2>3 DEF IsText
  <2>5. Put(whole, at + 16, D) = Put(whole, at, h \o D)
    <3>1. Put(Put(whole, at, h), at + Len(h), D) = Put(whole, at, h \o D)
      BY <1>7, <1>8, <2>1, PutConcat
    <3> QED
      BY <1>9, <2>2, <3>1
  <2>6. at + 18 \in Nat /\ 18 < AMOUNT_TEXT_MAX_LEN
    BY Sizes
  <2>7. Shows(Terminate(Put(whole, at, h \o D), at + 18), m, at, h \o D)
    BY <1>7, <2>4, <2>6, PutShows
  <2>8. WriteData(m, at, d) = Terminate(Put(whole, at, h \o D), at + 18)
    BY <1>3, <1>11, <2>5
  <2>9. h \o D = CapitalHex(SubSeq(d, 1, 8)) \o <<Dot, Dot>>
    BY <1>4, <1>11 DEF D
  <2> QED
    BY <1>1, <1>11, <2>7, <2>8, <2>9
<1> QED
  BY <1>1, <1>10, <1>11

-----------------------------------------------------------------------------
(* The invariants *)

(* Clearing a member of the union leaves memory, and nothing behind it. *)
LEMMA ClearKeeps ==
  ASSUME NEW len \in Nat, len <= Union, mem \in Memory, StaysInUnion
  PROVE  /\ Clear(mem, 0, len) \in Memory
         /\ \A i \in Union..(Union + Beyond - 1) : Clear(mem, 0, len)[i] = Other
<1> DEFINE z == [i \in 1..len |-> NUL]
           w == Put(mem, 0, z)
<1>1. z \in [1..len -> Chars]
  BY DEF Chars
<1>2. z \in Seq(Chars) /\ Len(z) = len
  BY <1>1, FunctionIsSeq
<1>3. Clear(mem, 0, len) = w
  BY DEF Clear
<1> HIDE DEF z
<1>4. /\ w \in Memory
      /\ \A i \in Cells : w[i] = IF 0 <= i /\ i < 0 + Len(z)
                                 THEN z[i - 0 + 1] ELSE mem[i]
  <2>1. z \in Seq(Chars) /\ 0 \in Nat
    BY <1>2
  <2> QED
    BY <2>1, PutAt
<1> HIDE DEF w
<1>5. ASSUME NEW i \in Union..(Union + Beyond - 1) PROVE w[i] = Other
  <2>1. i \in Nat /\ i >= 119 /\ i <= 158
    BY Sizes DEF Beyond
  <2>2. i \in Cells /\ ~(i < 0 + len)
    BY <2>1, Sizes
  <2>3. mem[i] = Other
    BY DEF StaysInUnion
  <2> QED
    BY <1>2, <1>4, <2>2, <2>3
<1> QED
  BY <1>3, <1>4, <1>5

(* A text in its string is found there, and everything behind the union is as
   it was. *)
LEMMA ShownIsFound ==
  ASSUME NEW w, NEW m \in Memory, NEW at \in Nat, Room(at), NEW s,
         Shows(w, m, at, s),
         \A i \in Union..(Union + Beyond - 1) : m[i] = Other
  PROVE  /\ TextAt(w, at) = s
         /\ \A i \in Union..(Union + Beyond - 1) : w[i] = Other
<1>1. /\ w \in Memory /\ s \in Seq(Chars) /\ NoNUL(s) /\ Reads(w, at, s)
      /\ Len(s) < AMOUNT_TEXT_MAX_LEN /\ SameOutside(w, m, at)
  BY DEF Shows
<1>2. PICK end \in Nat : end = at + Len(s)
  BY <1>1
<1>3. at + 96 <= 119
  BY Sizes DEF Room
<1>4. end < Union
  BY <1>1, <1>2, <1>3, Sizes
<1>5. TextAt(w, at) = s
  BY <1>1, <1>2, <1>4, TextFound
<1>6. ASSUME NEW i \in Union..(Union + Beyond - 1) PROVE w[i] = Other
  <2>1. i \in Nat /\ i >= 119 /\ i <= 158
    BY Sizes DEF Beyond
  <2>2. i \in Cells /\ i >= at + 96
    BY <1>3, <2>1, Sizes
  <2> QED
    BY <1>1, <2>2, Sizes DEF SameOutside
<1> QED
  BY <1>5, <1>6

IInv == TypeOK /\ NothingLeftOver /\ StaysInUnion

LEMMA InitInv == Init => IInv
<1> SUFFICES ASSUME Init PROVE IInv
  OBVIOUS
<1>1. mem \in Memory /\ StaysInUnion
  <2>1. NUL \in Chars /\ Other \in Chars
    BY DEF Chars
  <2>2. mem = [i \in Cells |-> IF i < Union THEN NUL ELSE Other]
    BY DEF Init
  <2>3. mem \in Memory
    BY <2>1, <2>2 DEF Memory
  <2>4. ASSUME NEW i \in Union..(Union + Beyond - 1) PROVE mem[i] = Other
    <3>1. i \in Nat /\ i >= 119 /\ i <= 158
      BY Sizes DEF Beyond
    <3>2. i \in Cells /\ ~(i < Union)
      BY <3>1, Sizes
    <3> QED
      BY <2>2, <3>2
  <2> QED
    BY <2>3, <2>4 DEF StaysInUnion
<1>2. field = "none" /\ request = NoRequest
  BY DEF Init
<1>3. "none" \notin DOMAIN LabelLen
  BY DEF LabelLen
<1> QED
  BY <1>1, <1>2, <1>3 DEF IInv, TypeOK, NothingLeftOver, Memory

(* The address prompt: one text in a cleared string. *)
LEMMA DisplayAddressKeeps ==
  ASSUME IInv, NEW account \in Accounts, DisplayAddress(account)
  PROVE  IInv'
<1> DEFINE a == User(account)
           m == Clear(mem, 0, ACCOUNT_BUF_LEN)
<1>1. mem' = WriteAddressFull(m, 0, a)
  BY DEF DisplayAddress, Account
<1>2. request' = [account |-> account] /\ field' = "Address"
  BY DEF DisplayAddress
<1>3. IsAddress(a)
  BY UserIsAddress
<1>4. mem \in Memory /\ StaysInUnion
  BY DEF IInv, TypeOK, Memory
<1>5. ACCOUNT_BUF_LEN \in Nat /\ ACCOUNT_BUF_LEN <= Union
  BY Sizes DEF ACCOUNT_BUF_LEN
<1>6. m \in Memory /\ \A i \in Union..(Union + Beyond - 1) : m[i] = Other
  BY <1>4, <1>5, ClearKeeps
<1>7. 0 \in Nat /\ Room(0)
  BY Sizes DEF Room
<1> HIDE DEF a, m
<1>8. Shows(mem', m, 0, AddressText(a))
  BY <1>1, <1>3, <1>6, <1>7, FullAddressShows
<1>9. /\ TextAt(mem', 0) = AddressText(a)
      /\ \A i \in Union..(Union + Beyond - 1) : mem'[i] = Other
  BY <1>6, <1>7, <1>8, ShownIsFound
<1>10. mem' \in Memory
  BY <1>8 DEF Shows
<1>11. TextOf(request', field') = AddressText(a)
  BY <1>2 DEF TextOf, a
<1>12. "Address" \notin DOMAIN LabelLen
  BY DEF LabelLen
<1>13. TypeOK'
  BY <1>2, <1>10 DEF TypeOK, Memory
<1> QED
  BY <1>2, <1>9, <1>11, <1>12, <1>13
     DEF IInv, NothingLeftOver, StaysInUnion, Account

LEMMA ConfirmBlockKeeps ==
  ASSUME IInv, NEW b \in Blocks, ConfirmBlock(b)
  PROVE  IInv'
<1>1. mem' = Clear(mem, 0, Union) /\ request' = b /\ field' = "none"
  BY DEF ConfirmBlock
<1>2. mem \in Memory /\ StaysInUnion /\ Union \in Nat /\ Union <= Union
  BY Sizes DEF IInv, TypeOK, Memory
<1>3. mem' \in Memory /\ \A i \in Union..(Union + Beyond - 1) : mem'[i] = Other
  BY <1>1, <1>2, ClearKeeps
<1>4. "none" \notin DOMAIN LabelLen
  BY DEF LabelLen
<1> QED
  BY <1>1, <1>3, <1>4 DEF IInv, TypeOK, NothingLeftOver, StaysInUnion, Memory

(* The label of a step ends in front of the value. *)
LEMMA StepKeeps ==
  ASSUME IInv, NEW f \in DOMAIN LabelLen, NEW written, Step(f, written),
         Shows(written, mem, Value, TextOf(request, f))
  PROVE  IInv'
<1> DEFINE t == TextOf(request, f)
           len == LabelLen[f]
           label == Literal(f, len)
           all == Append(label, NUL)
<1>1. /\ mem' = Put(written, Label, all)
      /\ field' = f /\ request' = request /\ request \in Blocks
  BY DEF Step
<1>2. Value = 23 /\ Label = 3 /\ Room(Value)
  BY Sizes DEF Value, Label, Room
<1>3. TextAt(written, Value) = t
      /\ \A i \in Union..(Union + Beyond - 1) : written[i] = Other
  BY <1>2, ShownIsFound DEF IInv, TypeOK, StaysInUnion, Memory
<1>4. /\ written \in Memory /\ t \in Seq(Chars) /\ NoNUL(t)
      /\ Reads(written, Value, t) /\ Len(t) < AMOUNT_TEXT_MAX_LEN
  BY DEF Shows
<1>5. /\ len \in Nat /\ len <= 12
      /\ label \in Seq(Chars) /\ NoNUL(label) /\ Len(label) = len
  BY LabelText DEF IsText
<1> HIDE DEF t, len, label
<1>6. /\ all \in Seq(Chars) /\ Len(all) = len + 1
      /\ \A j \in 1..len : all[j] = label[j]
      /\ all[len + 1] = NUL
  <2>1. label \in Seq(Chars) /\ NUL \in Chars
    BY <1>5 DEF Chars
  <2>2. /\ all \in Seq(Chars) /\ Len(all) = Len(label) + 1
        /\ \A j \in 1..Len(label) : all[j] = label[j]
        /\ all[Len(label) + 1] = NUL
    BY <2>1, AppendSeq
  <2>3. Len(label) = len
    BY <1>5
  <2> HIDE DEF all
  <2> QED
    BY <2>2, <2>3
<1> HIDE DEF all
<1>7. /\ mem' \in Memory
      /\ \A i \in Cells : mem'[i] = IF 3 <= i /\ i < 3 + Len(all)
                                    THEN all[i - 3 + 1] ELSE written[i]
  <2>1. all \in Seq(Chars) /\ 3 \in Nat
    BY <1>6
  <2> QED
    BY <1>1, <1>2, <1>4, <2>1, PutAt
<1>8. ASSUME NEW i \in Cells, i >= 23 PROVE mem'[i] = written[i]
  <2>1. i \in Nat
    BY Sizes
  <2>2. ~(i < 3 + Len(all))
    BY <1>5, <1>6, <1>8, <2>1
  <2> QED
    BY <1>7, <2>2
<1>9. ASSUME NEW j \in 1..(len + 1) PROVE mem'[3 + j - 1] = all[j]
  <2> DEFINE i == 3 + j - 1
  <2>1. i \in Nat /\ 3 <= i /\ i < 3 + len + 1 /\ i <= 158 /\ i - 3 + 1 = j
    BY <1>5
  <2>2. i \in Cells
    BY <2>1, Sizes
  <2> HIDE DEF i
  <2>3. i < 3 + Len(all)
    BY <1>5, <1>6, <2>1
  <2>4. mem'[i] = all[j]
    BY <1>7, <2>1, <2>2, <2>3
  <2> QED
    BY <2>4 DEF i
<1>10. TextAt(mem', Label) = label
  <2>1. ASSUME NEW j \in 1..Len(label) PROVE mem'[3 + j - 1] = label[j]
    BY <1>5, <1>6, <1>9
  <2>2. mem'[3 + Len(label)] = NUL
    <3>1. len + 1 \in 1..(len + 1) /\ 3 + (len + 1) - 1 = 3 + len
      BY <1>5
    <3> QED
      BY <1>5, <1>6, <1>9, <3>1
  <2>3. Reads(mem', 3, label)
    BY <2>1, <2>2 DEF Reads
  <2>4. 3 + len \in Nat /\ 3 + len = 3 + Len(label) /\ 3 + len < Union
    BY <1>5, Sizes
  <2>5. 3 \in Nat
    OBVIOUS
  <2>6. TextAt(mem', 3) = label
    BY <1>5, <1>7, <2>3, <2>4, <2>5, TextFound
  <2> QED
    BY <1>2, <2>6
<1>11. TextAt(mem', Value) = t
  <2>1. PICK n \in Nat : n = Len(t)
    BY <1>4
  <2>2. n <= 95
    BY <1>4, <2>1, Sizes
  <2>3. ASSUME NEW j \in 1..n PROVE mem'[23 + j - 1] = t[j]
    <3>1. 23 + j - 1 \in Nat /\ 23 + j - 1 <= 158 /\ 23 + j - 1 >= 23
      BY <2>2
    <3>2. 23 + j - 1 \in Cells
      BY <3>1, Sizes
    <3>3. mem'[23 + j - 1] = written[23 + j - 1]
      BY <1>8, <3>1, <3>2
    <3> QED
      BY <1>2, <1>4, <2>1, <3>3 DEF Reads
  <2>4. mem'[23 + n] = NUL
    <3>1. 23 + n \in Nat /\ 23 + n <= 158 /\ 23 + n >= 23
      BY <2>2
    <3>2. 23 + n \in Cells
      BY <3>1, Sizes
    <3>3. mem'[23 + n] = written[23 + n]
      BY <1>8, <3>1, <3>2
    <3> QED
      BY <1>2, <1>4, <2>1, <3>3 DEF Reads
  <2>5. Reads(mem', 23, t)
    BY <2>1, <2>3, <2>4 DEF Reads
  <2>6. 23 + n \in Nat /\ 23 + n = 23 + Len(t) /\ 23 + n < Union /\ 23 \in Nat
    BY <2>1, <2>2, Sizes
  <2>7. TextAt(mem', 23) = t
    BY <1>4, <1>7, <2>5, <2>6, TextFound
  <2> QED
    BY <1>2, <2>7
<1>12. \A i \in Union..(Union + Beyond - 1) : mem'[i] = Other
  <2>1. ASSUME NEW i \in Union..(Union + Beyond - 1) PROVE mem'[i] = Other
    <3>1. i \in Nat /\ i >= 119 /\ i <= 158
      BY Sizes DEF Beyond
    <3>2. i \in Cells /\ i >= 23
      BY <3>1, Sizes
    <3> QED
      BY <1>3, <1>8, <3>2
  <2> QED
    BY <2>1
<1>13. f # "Address"
  BY DEF LabelLen
<1>14. TypeOK'
  BY <1>1, <1>7 DEF TypeOK, IInv, Memory
<1> QED
  BY <1>1, <1>10, <1>11, <1>12, <1>13, <1>14
     DEF IInv, NothingLeftOver, StaysInUnion, t, label, len

LEMMA BlockFacts ==
  ASSUME NEW b \in Blocks
  PROVE  /\ b.account \in Accounts
         /\ b.to \in [1..21 -> Byte] /\ IsAddress(b.to)
         /\ b.token \in [1..10 -> Byte] /\ Check[b.token] \in [1..2 -> Byte]
         /\ b.amount \in Seq(AmountChar) /\ Len(b.amount) <= 95
         /\ b.fee \in Seq(AmountChar) /\ Len(b.fee) <= 95
         /\ b.data \in Seq(Byte)
<1>1. /\ b.account \in Accounts
      /\ b.to \in [1..21 -> Byte] /\ Check[Raw(b.to)] \in [1..5 -> Byte]
      /\ b.token \in [1..10 -> Byte] /\ Check[b.token] \in [1..2 -> Byte]
      /\ b.amount \in Seq(AmountChar) /\ Len(b.amount) \in 1..95
      /\ b.fee \in Seq(AmountChar) /\ Len(b.fee) \in 1..95
      /\ b.data \in Seq(Byte)
  BY TextAssumption, Zenon
<1>2. \A n \in 1..95 : n <= 95
  OBVIOUS
<1>3. Len(b.amount) <= 95 /\ Len(b.fee) <= 95
  BY <1>1, <1>2, Zenon
<1> QED
  BY <1>1, <1>3, Zenon DEF IsAddress

LEMMA ShowStepKeeps == ASSUME IInv, ShowStep PROVE IInv'
<1> DEFINE r == request
<1>1. r \in Blocks /\ mem \in Memory
  BY DEF ShowStep, IInv, TypeOK, Memory
<1>2. Value \in Nat /\ Room(Value)
  BY Sizes DEF Value, Label, Room
<1>3. DOMAIN LabelLen = {"Your account", "Contract", "To address", "Token ID",
                         "Send amount", "Fee", "Data"}
  BY DEF LabelLen
<1>4. CASE ShowAccount
  <2> DEFINE w == WriteAddressTruncated(mem, Value, User(r.account))
  <2>1. IsAddress(User(r.account))
    BY <1>1, BlockFacts, UserIsAddress
  <2>2. Shows(w, mem, Value, ShortText(User(r.account)))
    BY <1>1, <1>2, <2>1, ShortAddressShows
  <2>3. TextOf(r, "Your account") = ShortText(User(r.account))
    BY DEF TextOf
  <2>4. Step("Your account", w)
    BY <1>4 DEF ShowAccount
  <2> HIDE DEF w
  <2> QED
    BY <1>3, <2>2, <2>3, <2>4, StepKeeps
<1>5. CASE ShowReceiver
  <2> DEFINE w == WriteReceiver(mem, Value, r.to)
  <2>1. r.to \in [1..21 -> Byte] /\ IsAddress(r.to)
    BY <1>1, BlockFacts
  <2>2. CASE HasName(r.to)
    <3>1. Shows(w, mem, Value, NameOf(r.to))
      BY <1>1, <1>2, <2>1, <2>2, NameShows
    <3>2. TextOf(r, "Contract") = NameOf(r.to)
      BY DEF TextOf
    <3>3. Step("Contract", w)
      BY <1>5, <2>2 DEF ShowReceiver
    <3> HIDE DEF w
    <3> QED
      BY <1>3, <3>1, <3>2, <3>3, StepKeeps
  <2>3. CASE ~HasName(r.to)
    <3>1. Shows(w, mem, Value, ShortText(r.to))
      BY <1>1, <1>2, <2>1, <2>3, ShortAddressShows DEF WriteReceiver
    <3>2. TextOf(r, "To address") = ShortText(r.to)
      BY DEF TextOf
    <3>3. Step("To address", w)
      BY <1>5, <2>3 DEF ShowReceiver
    <3> HIDE DEF w
    <3> QED
      BY <1>3, <3>1, <3>2, <3>3, StepKeeps
  <2> QED
    BY <2>2, <2>3
<1>6. CASE ShowTokenId
  <2> DEFINE w == WriteTokenId(mem, Value, r.token)
  <2>1. r.token \in [1..10 -> Byte] /\ Check[r.token] \in [1..2 -> Byte]
    BY <1>1, BlockFacts
  <2>2. Shows(w, mem, Value, Literal("tti_", 4) \o Hex(r.token) \o Hex(Check[r.token]))
    BY <1>1, <1>2, <2>1, TokenShows
  <2>3. TextOf(r, "Token ID")
          = Literal("tti_", 4) \o Hex(r.token) \o Hex(Check[r.token])
    BY DEF TextOf
  <2>4. Step("Token ID", w)
    BY <1>6 DEF ShowTokenId
  <2> HIDE DEF w
  <2> QED
    BY <1>3, <2>2, <2>3, <2>4, StepKeeps
<1>7. CASE ShowAmount
  <2> DEFINE w == WriteAmount(mem, Value, r.amount)
  <2>1. Shows(w, mem, Value, r.amount)
    BY <1>1, <1>2, BlockFacts, AmountShows
  <2>2. TextOf(r, "Send amount") = r.amount
    BY DEF TextOf
  <2>3. Step("Send amount", w)
    BY <1>7 DEF ShowAmount
  <2> HIDE DEF w
  <2> QED
    BY <1>3, <2>1, <2>2, <2>3, StepKeeps
<1>8. CASE ShowFee
  <2> DEFINE w == WriteAmount(mem, Value, r.fee)
  <2>1. Shows(w, mem, Value, r.fee)
    BY <1>1, <1>2, BlockFacts, AmountShows
  <2>2. TextOf(r, "Fee") = r.fee
    BY DEF TextOf
  <2>3. Step("Fee", w)
    BY <1>8 DEF ShowFee
  <2> HIDE DEF w
  <2> QED
    BY <1>3, <2>1, <2>2, <2>3, StepKeeps
<1>9. CASE ShowData
  <2> DEFINE w == WriteData(mem, Value, r.data)
             t == IF Len(r.data) <= 8 THEN CapitalHex(r.data)
                  ELSE CapitalHex(SubSeq(r.data, 1, 8)) \o <<Dot, Dot>>
  <2>1. Shows(w, mem, Value, t)
    BY <1>1, <1>2, BlockFacts, DataShows
  <2>2. TextOf(r, "Data") = t
    BY DEF TextOf
  <2>3. Step("Data", w)
    BY <1>9 DEF ShowData
  <2> HIDE DEF w, t
  <2> QED
    BY <1>3, <2>1, <2>2, <2>3, StepKeeps
<1> QED
  BY <1>4, <1>5, <1>6, <1>7, <1>8, <1>9 DEF ShowStep

LEMMA NextInv == IInv /\ [Next]_vars => IInv'
<1> SUFFICES ASSUME IInv, [Next]_vars PROVE IInv'
  OBVIOUS
<1>1. CASE UNCHANGED vars
  BY <1>1 DEF vars, IInv, TypeOK, NothingLeftOver, StaysInUnion, TextAt
<1> QED
  BY <1>1, DisplayAddressKeeps, ConfirmBlockKeeps, ShowStepKeeps DEF Next

THEOREM Invariance == Spec => []IInv
BY InitInv, NextInv, PTL DEF Spec

(* Type correctness of the memory behind the screens, for any accounts, blocks
   and checksums (libv_bagl_nanos.c:42-53). *)
THEOREM TypeCorrect == Spec => []TypeOK
<1>1. IInv => TypeOK
  BY DEF IInv
<1> QED
  BY <1>1, Invariance, PTL

(* The display reads the text of the field and nothing left over from another,
   for any of them (libv_bagl_nanos.c:55-120, 582-660). *)
THEOREM TextSafe == Spec => []NothingLeftOver
<1>1. IInv => NothingLeftOver
  BY DEF IInv
<1> QED
  BY <1>1, Invariance, PTL

(* No writer leaves the union, whatever it cuts later
   (libv_bagl_nanos.c:104-120). *)
THEOREM UnionSafe == Spec => []StaysInUnion
<1>1. IInv => StaysInUnion
  BY DEF IInv
<1> QED
  BY <1>1, Invariance, PTL

-----------------------------------------------------------------------------
(* Receivers *)

(* Only receivers with a name are shown by it. *)
NamedOrNot ==
  field \in {"To address", "Contract"} =>
    request \in Blocks /\ (field = "Contract" <=> HasName(request.to))

LEMMA NamedOrNotInv == Spec => []NamedOrNot
<1>1. Init => NamedOrNot
  BY DEF Init, NamedOrNot
<1>2. NamedOrNot /\ [Next]_vars => NamedOrNot'
  <2> SUFFICES ASSUME NamedOrNot, [Next]_vars PROVE NamedOrNot'
    OBVIOUS
  <2>1. CASE UNCHANGED vars
    BY <2>1 DEF vars, NamedOrNot
  <2>2. CASE \E account \in Accounts : DisplayAddress(account)
    BY <2>2 DEF DisplayAddress, NamedOrNot
  <2>3. CASE \E b \in Blocks : ConfirmBlock(b)
    BY <2>3 DEF ConfirmBlock, NamedOrNot
  <2>4. CASE ShowStep
    BY <2>4 DEF ShowStep, ShowAccount, ShowReceiver, ShowTokenId, ShowAmount,
       ShowFee, ShowData, Step, NamedOrNot
  <2> QED
    BY <2>1, <2>2, <2>3, <2>4 DEF Next
<1> QED
  BY <1>1, <1>2, PTL DEF Spec

LEMMA NameStarts ==
  ASSUME NEW x \in [1..21 -> Byte], HasName(x)
  PROVE  NameOf(x)[1] = <<"contract", 32 * x[20] + 1>>
<1>1. x[20] < 8 /\ NameLen[x[20] + 1] > 0
  BY DEF HasName, NameLen
<1>2. x[20] \in Byte
  OBVIOUS
<1>3. x[20] + 1 \in 1..8
  BY <1>1, <1>2 DEF Byte
<1>4. \A i \in 1..8 : NameLen[i] \in Nat
  BY DEF NameLen
<1>5. NameLen[x[20] + 1] \in Nat
  BY <1>3, <1>4
<1>6. 1 \in 1..NameLen[x[20] + 1]
  BY <1>1, <1>5
<1> QED
  BY <1>6 DEF NameOf

LEMMA SameName ==
  ASSUME NEW a \in [1..21 -> Byte], NEW c \in [1..21 -> Byte],
         HasName(a), HasName(c), NameOf(a) = NameOf(c)
  PROVE  a = c
<1>2. a[20] \in Nat /\ c[20] \in Nat
  BY DEF Byte
<1>4. /\ NameOf(a)[1] = <<"contract", 32 * a[20] + 1>>
      /\ NameOf(c)[1] = <<"contract", 32 * c[20] + 1>>
  BY NameStarts
<1>5. 32 * a[20] + 1 = 32 * c[20] + 1
  BY <1>4
<1>6. a[20] = c[20]
  BY <1>2, <1>5
<1>7. ASSUME NEW i \in 1..21 PROVE a[i] = c[i]
  <2>1. i \in 1..19 \/ i = 20 \/ i = 21
    OBVIOUS
  <2> QED
    BY <1>6, <2>1 DEF HasName
<1> QED
  BY <1>7

LEMMA SameDigits ==
  ASSUME NEW x \in Nat, NEW y \in Nat, x \div 16 = y \div 16, x % 16 = y % 16
  PROVE  x = y
OBVIOUS

LEMMA SameHex ==
  ASSUME NEW b \in [1..5 -> Byte], NEW c \in [1..5 -> Byte], Hex(b) = Hex(c)
  PROVE  b = c
<1>1. Len(b) = 5 /\ Len(c) = 5
  BY FunctionIsSeq
<1>2. /\ Hex(b) = [i \in 1..10 |-> <<"hex", Nibble(b, i)>>]
      /\ Hex(c) = [i \in 1..10 |-> <<"hex", Nibble(c, i)>>]
  BY <1>1 DEF Hex
<1>3. ASSUME NEW i \in 1..10 PROVE Nibble(b, i) = Nibble(c, i)
  <2>1. Hex(b)[i] = <<"hex", Nibble(b, i)>> /\ Hex(c)[i] = <<"hex", Nibble(c, i)>>
    BY <1>2
  <2> QED
    BY <2>1
<1>4. ASSUME NEW j \in 1..5 PROVE b[j] = c[j]
  <2>1. 2 * j - 1 \in 1..10 /\ 2 * j \in 1..10
    OBVIOUS
  <2>2. (2 * j - 1) % 2 = 1 /\ ((2 * j - 1) + 1) \div 2 = j
    OBVIOUS
  <2>3. (2 * j) % 2 # 1 /\ (2 * j) \div 2 = j
    OBVIOUS
  <2>4. /\ Nibble(b, 2 * j - 1) = b[j] \div 16 /\ Nibble(b, 2 * j) = b[j] % 16
        /\ Nibble(c, 2 * j - 1) = c[j] \div 16 /\ Nibble(c, 2 * j) = c[j] % 16
    BY <2>2, <2>3 DEF Nibble
  <2>5. b[j] \div 16 = c[j] \div 16 /\ b[j] % 16 = c[j] % 16
    BY <1>3, <2>1, <2>4
  <2>6. b[j] \in Nat /\ c[j] \in Nat
    BY DEF Byte
  <2> QED
    BY <2>5, <2>6, SameDigits
<1> QED
  BY <1>4

(* Behind its dots a short text is the checksum in digits. *)
LEMMA ShortTextIs ==
  ASSUME NEW a, IsAddress(a)
  PROVE  /\ ShortText(a)[1] = Dot
         /\ \A j \in 1..10 : ShortText(a)[2 + j] = Hex(AddressCheck(a))[j]
<1> DEFINE D == <<Dot, Dot>>
           e == Ending(AddressText(a), 10)
           v == Literal("vite_", 5) \o Hex(Raw(a))
           c == Hex(AddressCheck(a))
<1>1. IsText(v, 45)
  <2>1. IsText(Literal("vite_", 5) \o Hex(Raw(a)), 5 + 40)
    BY AddressTextType, LiteralText, ConcatText
  <2> QED
    BY <2>1
<1>2. v \in Seq(Chars) /\ Len(v) = 45 /\ c \in Seq(Chars) /\ Len(c) = 10
  BY <1>1, AddressTextType DEF IsText
<1>3. AddressText(a) = v \o c
  BY DEF AddressText
<1>4. \A j \in 1..10 : e[j] = AddressText(a)[45 + j]
  BY ShortTextType
<1>5. e \in Seq(Chars) /\ Len(e) = 10
  BY ShortTextType DEF IsText
<1>6. D \in Seq(Chars) /\ Len(D) = 2 /\ D[1] = Dot
  BY LiteralText DEF IsText
<1>7. ShortText(a) = D \o e
  BY DEF ShortText
<1> HIDE DEF D, e, v, c
<1>8. ASSUME NEW j \in 1..10 PROVE (v \o c)[45 + j] = c[j]
  <2>1. 45 + j \in 1..(Len(v) + Len(c)) /\ 45 + j > Len(v) /\ 45 + j - Len(v) = j
    BY <1>2
  <2>2. v \in Seq(Chars) /\ c \in Seq(Chars)
    BY <1>2
  <2>3. (v \o c)[45 + j] = c[45 + j - Len(v)]
    BY <2>1, <2>2
  <2> QED
    BY <2>1, <2>3
<1>9. ASSUME NEW j \in 1..10 PROVE (D \o e)[2 + j] = e[j]
  <2>1. 2 + j \in 1..(Len(D) + Len(e)) /\ 2 + j > Len(D) /\ 2 + j - Len(D) = j
    BY <1>5, <1>6
  <2>2. D \in Seq(Chars) /\ e \in Seq(Chars)
    BY <1>5, <1>6
  <2>3. (D \o e)[2 + j] = e[2 + j - Len(D)]
    BY <2>1, <2>2
  <2> QED
    BY <2>1, <2>3
<1>10. (D \o e)[1] = Dot
  <2>1. 1 \in 1..Len(D)
    BY <1>6
  <2>2. D \in Seq(Chars) /\ e \in Seq(Chars)
    BY <1>5, <1>6
  <2>3. (D \o e)[1] = D[1]
    BY <2>1, <2>2
  <2> QED
    BY <1>6, <2>3
<1> QED
  BY <1>3, <1>4, <1>7, <1>8, <1>9, <1>10 DEF c

LEMMA SameShortText ==
  ASSUME NEW a, NEW b, IsAddress(a), IsAddress(b), ShortText(a) = ShortText(b)
  PROVE  AddressCheck(a) = AddressCheck(b)
<1>1. /\ AddressCheck(a) \in [1..5 -> Byte]
      /\ AddressCheck(b) \in [1..5 -> Byte]
  <2>1. ASSUME NEW x, IsAddress(x) PROVE AddressCheck(x) \in [1..5 -> Byte]
    <3>1. Check[Raw(x)] \in [1..5 -> Byte]
      BY <2>1 DEF IsAddress
    <3>2. Inverted(Check[Raw(x)]) \in [1..5 -> Byte]
      <4>1. \A y \in Byte : 255 - y \in Byte
        BY DEF Byte
      <4>2. \A i \in 1..5 : Check[Raw(x)][i] \in Byte
        BY <3>1
      <4> QED
        BY <3>1, <4>1, <4>2 DEF Inverted
    <3> QED
      BY <3>1, <3>2 DEF AddressCheck
  <2> QED
    BY <2>1
<1>2. \A j \in 1..10 : Hex(AddressCheck(a))[j] = Hex(AddressCheck(b))[j]
  BY ShortTextIs
<1>3. Len(AddressCheck(a)) = 5 /\ Len(AddressCheck(b)) = 5
  BY <1>1, FunctionIsSeq
<1>4. /\ Hex(AddressCheck(a)) = [i \in 1..10 |-> Hex(AddressCheck(a))[i]]
      /\ Hex(AddressCheck(b)) = [i \in 1..10 |-> Hex(AddressCheck(b))[i]]
  BY <1>3 DEF Hex
<1>5. Hex(AddressCheck(a)) = Hex(AddressCheck(b))
  BY <1>2, <1>4
<1> QED
  BY <1>1, <1>5, SameHex

(* The checksums of receivers tell their bytes apart, and so does the inverse of
   one from another: a property of the hash.  Nothing is assumed of suffixes. *)
ChecksDiffer ==
  \A b, c \in Blocks :
    /\ Check[Raw(b.to)] = Check[Raw(c.to)] => Raw(b.to) = Raw(c.to)
    /\ Check[Raw(b.to)] # Inverted(Check[Raw(c.to)])

(* Receivers with the same digits have the same bytes, and both have the suffix
   of users or both have another one. *)
LEMMA SameCheck ==
  ASSUME ChecksDiffer, NEW b \in Blocks, NEW c \in Blocks,
         AddressCheck(b.to) = AddressCheck(c.to)
  PROVE  Raw(b.to) = Raw(c.to) /\ (b.to[21] = 0 <=> c.to[21] = 0)
<1> DEFINE x == Check[Raw(b.to)]
           y == Check[Raw(c.to)]
<1>1. x \in [1..5 -> Byte] /\ y \in [1..5 -> Byte]
  BY BlockFacts DEF IsAddress
<1>2. /\ AddressCheck(b.to) = IF b.to[21] # 0 THEN Inverted(x) ELSE x
      /\ AddressCheck(c.to) = IF c.to[21] # 0 THEN Inverted(y) ELSE y
  BY DEF AddressCheck
<1>3. (x = y => Raw(b.to) = Raw(c.to)) /\ x # Inverted(y) /\ y # Inverted(x)
  BY DEF ChecksDiffer
<1> HIDE DEF x, y
<1>4. ASSUME Inverted(x) = Inverted(y) PROVE x = y
  <2>1. ASSUME NEW i \in 1..5 PROVE x[i] = y[i]
    <3>1. x[i] \in Nat /\ y[i] \in Nat
      BY <1>1 DEF Byte
    <3>2. Inverted(x)[i] = 255 - x[i] /\ Inverted(y)[i] = 255 - y[i]
      BY <1>1 DEF Inverted
    <3> QED
      BY <1>4, <3>1, <3>2
  <2> QED
    BY <1>1, <2>1
<1> QED
  BY <1>2, <1>3, <1>4

(* An address without a name is shown by its checksum: the same bytes, with
   any suffixes but that of users, are shown alike. *)
LEMMA AlikeIsSameText ==
  ASSUME NEW a, NEW c, Raw(a) = Raw(c), a[21] # 0, c[21] # 0
  PROVE  ShortText(a) = ShortText(c)
<1>1. AddressCheck(a) = AddressCheck(c)
  BY DEF AddressCheck
<1> QED
  BY <1>1 DEF ShortText, AddressText

LEMMA SameUser ==
  ASSUME NEW a \in [1..21 -> Byte], NEW c \in [1..21 -> Byte],
         Raw(a) = Raw(c), a[21] = c[21]
  PROVE  a = c
<1>1. /\ a \in Seq(Byte) /\ Len(a) = 21
      /\ c \in Seq(Byte) /\ Len(c) = 21
  <2>1. 21 \in Nat
    OBVIOUS
  <2> QED
    BY <2>1, FunctionIsSeq, Zenon
<1>2. \A i \in 1..20 : Raw(a)[i] = a[i] /\ Raw(c)[i] = c[i]
  BY <1>1, PrefixSeq DEF Raw
<1>3. ASSUME NEW i \in 1..21 PROVE a[i] = c[i]
  <2>1. i \in 1..20 \/ i = 21
    OBVIOUS
  <2> QED
    BY <1>2, <2>1
<1> QED
  BY <1>3

(* As far as checksums tell bytes apart, the screen tells receivers apart:
   contracts with a name, contracts without, and users; and all it does not
   tell is the suffix of a contract without a name (libv_bagl_nanos.c:76-89,
   libv_helpers.c:84-153). *)
THEOREM ReceiversSafe ==
  ASSUME ChecksDiffer
  PROVE  Spec => []ReceiversDiffer
<1> DEFINE shown(a) == IF HasName(a) THEN NameOf(a) ELSE ShortText(a)
<1>1. ASSUME IInv, NEW b \in Blocks
      PROVE  TextAt(WriteReceiver(mem, Value, b.to), Value) = shown(b.to)
  <2>1. mem \in Memory /\ Value \in Nat /\ Room(Value)
    BY <1>1, Sizes DEF IInv, TypeOK, Memory, Value, Label, Room
  <2>2. b.to \in [1..21 -> Byte] /\ IsAddress(b.to)
    BY BlockFacts
  <2>3. Shows(WriteReceiver(mem, Value, b.to), mem, Value, shown(b.to))
    <3>1. CASE HasName(b.to)
      BY <2>1, <2>2, <3>1, NameShows
    <3>2. CASE ~HasName(b.to)
      BY <2>1, <2>2, <3>2, ShortAddressShows DEF WriteReceiver
    <3> QED
      BY <3>1, <3>2
  <2>4. \A i \in Union..(Union + Beyond - 1) : mem[i] = Other
    BY <1>1 DEF IInv, StaysInUnion
  <2> HIDE DEF shown
  <2> QED
    BY <2>1, <2>3, <2>4, ShownIsFound
<1>2. ASSUME IInv, NamedOrNot, field \in {"To address", "Contract"}
      PROVE  request \in Blocks /\ TextAt(mem, Value) = shown(request.to)
  <2>1. field \in DOMAIN LabelLen
    BY <1>2 DEF LabelLen
  <2>2. TextAt(mem, Value) = TextOf(request, field)
    BY <1>2, <2>1 DEF IInv, NothingLeftOver
  <2>3. /\ TextOf(request, "To address") = ShortText(request.to)
        /\ TextOf(request, "Contract") = NameOf(request.to)
    BY DEF TextOf
  <2> QED
    BY <1>2, <2>2, <2>3 DEF NamedOrNot
<1>3. ASSUME NEW b \in Blocks, NEW c \in Blocks
      PROVE  (shown(b.to) = shown(c.to)) <=> ShownAlike(b.to, c.to)
  <2>1. /\ b.to \in [1..21 -> Byte] /\ IsAddress(b.to)
        /\ c.to \in [1..21 -> Byte] /\ IsAddress(c.to)
    BY BlockFacts
  <2>2. ASSUME NEW x \in [1..21 -> Byte], NEW y, IsAddress(y), HasName(x)
        PROVE  NameOf(x) # ShortText(y)
    <3>1. NameOf(x)[1] = <<"contract", 32 * x[20] + 1>>
      BY <2>2, NameStarts
    <3>2. ShortText(y)[1] = Dot
      BY <2>2, ShortTextIs
    <3> QED
      BY <3>1, <3>2 DEF Dot
  <2>3. ASSUME shown(b.to) = shown(c.to) PROVE ShownAlike(b.to, c.to)
    <3>1. CASE HasName(b.to) /\ HasName(c.to)
      <4>1. b.to = c.to
        BY <2>1, <2>3, <3>1, SameName
      <4> QED
        BY <4>1 DEF ShownAlike
    <3>2. CASE ~HasName(b.to) /\ ~HasName(c.to)
      <4>1. ShortText(b.to) = ShortText(c.to)
        BY <2>3, <3>2
      <4>2. AddressCheck(b.to) = AddressCheck(c.to)
        BY <2>1, <4>1, SameShortText
      <4>3. Raw(b.to) = Raw(c.to) /\ (b.to[21] = 0 <=> c.to[21] = 0)
        BY <4>2, SameCheck
      <4>4. CASE b.to[21] = 0
        BY <2>1, <4>3, <4>4, SameUser DEF ShownAlike
      <4>5. CASE b.to[21] # 0
        BY <3>2, <4>3, <4>5 DEF ShownAlike
      <4> QED
        BY <4>4, <4>5
    <3> QED
      BY <2>1, <2>2, <2>3, <3>1, <3>2
  <2>4. ASSUME ShownAlike(b.to, c.to) PROVE shown(b.to) = shown(c.to)
    <3>1. CASE b.to = c.to
      BY <3>1
    <3>2. CASE b.to # c.to
      <4>1. /\ ~HasName(b.to) /\ ~HasName(c.to) /\ Raw(b.to) = Raw(c.to)
            /\ b.to[21] # 0 /\ c.to[21] # 0
        BY <2>4, <3>2 DEF ShownAlike
      <4>2. ShortText(b.to) = ShortText(c.to)
        BY <4>1, AlikeIsSameText
      <4> QED
        BY <4>1, <4>2
    <3> QED
      BY <3>1, <3>2
  <2> QED
    BY <2>3, <2>4
<1>4. IInv /\ NamedOrNot => ReceiversDiffer
  <2> SUFFICES ASSUME IInv, NamedOrNot, field \in {"To address", "Contract"},
                      NEW b \in Blocks
               PROVE  (TextAt(WriteReceiver(mem, Value, b.to), Value)
                         = TextAt(mem, Value))
                        <=> ShownAlike(b.to, request.to)
    BY DEF ReceiversDiffer
  <2>1. TextAt(WriteReceiver(mem, Value, b.to), Value) = shown(b.to)
    BY <1>1
  <2>2. request \in Blocks /\ TextAt(mem, Value) = shown(request.to)
    BY <1>2
  <2>3. (shown(b.to) = shown(request.to)) <=> ShownAlike(b.to, request.to)
    BY <1>3, <2>2
  <2> HIDE DEF shown
  <2> QED
    BY <2>1, <2>2, <2>3
<1> QED
  BY <1>4, Invariance, NamedOrNotInv, PTL
=============================================================================
