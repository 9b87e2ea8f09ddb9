---------------------------- MODULE AmountFormat ----------------------------
(***************************************************************************)
(* libv_amount_format: the decimal text of an amount, in a buffer filled   *)
(* from its end.  The balance, a big-endian number of NumBytes bytes, is   *)
(* divided by ten until nothing is left; zeros are put in front up to the  *)
(* decimal point; the digits before the point move one place to the left   *)
(* to make room for it; zeros are taken off the end; the symbol is put in  *)
(* front.  One action is one turn of a loop or one block between loops.    *)
(*                                                                         *)
(* Characters are their ASCII codes.  Positions are size_t, which a run    *)
(* past the start of the buffer would wrap: InBounds says none does.       *)
(***************************************************************************)
EXTENDS Integers, Sequences

CONSTANTS
  NumBytes,   \* bytes of an amount: 32 in the source
  Digits,     \* decimal digits of the largest amount: 78 in the source
  SymbolMax,  \* the longest suffix, TOKEN_UNIQUE_SYMBOL_MAX_LEN: 15
  Balances,   \* the amounts to format, as big-endian bytes
  Formats     \* records of the symbol and the unit scale of a token

\* b to the power n.
Pow(b, n) ==
  LET p[k \in 0..n] == IF k = 0 THEN 1 ELSE b * p[k - 1]
  IN  p[n]

\* The number, in base b, that s[i], ..., s[j - 1] stand for when zero stands
\* for 0.
Number(b, zero, s, i, j) ==
  LET v[k \in 0..(j - i)] ==
        IF k = 0 THEN 0 ELSE b * v[k - 1] + (s[i + k - 1] - zero)
  IN  v[j - i]

\* The number that the bytes of a libv_amount_t stand for.
Amount(bytes) == Number(256, 0, bytes, 1, NumBytes + 1)

\* An amount has at most Digits digits.  unitScale is at most 29 in
\* TOKEN_INFO_ARRAY, and 18 for the fee: less than Digits.
ASSUME AmountAssumption ==
  /\ NumBytes \in Nat \ {0} /\ Digits \in Nat \ {0} /\ SymbolMax \in Nat
  /\ Pow(256, NumBytes) <= Pow(10, Digits)
  /\ Balances \subseteq [1..NumBytes -> 0..255]
  /\ \A f \in Formats :
       /\ f.suffix \in Seq(0..127) /\ Len(f.suffix) <= SymbolMax
       /\ f.unitScale \in 0..(Digits - 1)

NUL == 0
Space == 32
Period == 46
Zero == 48   \* '0'

\* Mutant: no room for the decimal point.
TextWithoutPoint == SymbolMax + 1 + Digits + 1

\* Room for the symbol, a space, the digits, a point and the terminator.
AMOUNT_TEXT_MAX_LEN == SymbolMax + 1 + Digits + 1 + 1

VARIABLES
  pc,         \* the loop or block about to run
  balance,    \* the amount, as it came in
  fmt,        \* the symbol and the scale
  num,        \* what is left to divide, as big-endian bytes
  buf,        \* char buf[AMOUNT_TEXT_MAX_LEN], zeroed first
  start, end, \* the text is buf[start], ..., buf[end - 1]
  point,      \* where the decimal point goes
  dest        \* the text handed back

input == <<balance, fmt>>
vars == <<pc, input, num, buf, start, end, point, dest>>

Top == AMOUNT_TEXT_MAX_LEN - 1

Init ==
  /\ pc = "divide"
  /\ balance \in Balances /\ fmt \in Formats
  /\ num = balance
  /\ buf = [i \in 0..Top |-> NUL]
  /\ start = Top /\ end = Top
  /\ point = 0
  /\ dest = << >>

\* Mutant: the remainder is carried undivided.
DivideCarryingAll(n) ==
  LET r[i \in 0..NumBytes] == IF i = 0 THEN 0 ELSE 256 * r[i - 1] + n[i]
  IN  [quotient |-> [i \in 1..NumBytes |-> (256 * r[i - 1] + n[i]) \div 10],
       r |-> r[NumBytes]]

\* The remainder carried out of the first i bytes, into the next one.
Carry(n) ==
  LET r[i \in 0..NumBytes] ==
        IF i = 0 THEN 0 ELSE (256 * r[i - 1] + n[i]) % 10
  IN  r

\* Schoolbook division, one byte after the other.
DivideByTen(n) ==
  [quotient |-> [i \in 1..NumBytes |-> (256 * Carry(n)[i - 1] + n[i]) \div 10],
   r |-> Carry(n)[NumBytes]]

\* Mutant: the loop tests for zero before it writes the digit.
DivideWhile ==
  /\ pc = "divide"
  /\ LET q == DivideByTen(num)
         zero == \A i \in 1..NumBytes : num[i] = 0
     IN  /\ num' = q.quotient
         /\ start' = IF zero THEN start ELSE start - 1
         /\ buf' = IF zero THEN buf ELSE [buf EXCEPT ![start'] = Zero + q.r]
         /\ pc' = IF zero THEN "pad" ELSE "divide"
         /\ point' = IF zero THEN end - 1 - fmt.unitScale ELSE point
  /\ UNCHANGED <<input, end, dest>>

\* do { ... } while: at least one digit is written.
Divide ==
  /\ pc = "divide"
  /\ LET q == DivideByTen(num)
         zero == \A i \in 1..NumBytes : q.quotient[i] = 0
     IN  /\ num' = q.quotient
         /\ start' = start - 1
         /\ buf' = [buf EXCEPT ![start'] = Zero + q.r]
         /\ pc' = IF zero THEN "pad" ELSE "divide"
         /\ point' = IF zero THEN end - 1 - fmt.unitScale ELSE point
  /\ UNCHANGED <<input, end, dest>>

\* Mutant: padding stops a place too early.
PadShort ==
  /\ pc = "pad"
  /\ IF start > point + 1
     THEN /\ start' = start - 1
          /\ buf' = [buf EXCEPT ![start'] = Zero]
          /\ UNCHANGED pc
     ELSE /\ pc' = "shift"
          /\ UNCHANGED <<start, buf>>
  /\ UNCHANGED <<input, num, end, point, dest>>

\* Zeros down to the place of the digit before the point.
Pad ==
  /\ pc = "pad"
  /\ IF start > point
     THEN /\ start' = start - 1
          /\ buf' = [buf EXCEPT ![start'] = Zero]
          /\ UNCHANGED pc
     ELSE /\ pc' = "shift"
          /\ UNCHANGED <<start, buf>>
  /\ UNCHANGED <<input, num, end, point, dest>>

\* The loop copies each byte of start..point one place to the left, in
\* ascending order; the point then takes the place of the last one copied.
Shift ==
  /\ pc = "shift"
  /\ buf' = [i \in 0..Top |->
               IF i = point /\ point # end THEN Period
               ELSE IF start - 1 <= i /\ i < point THEN buf[i + 1]
               ELSE buf[i]]
  /\ start' = start - 1
  /\ pc' = "trim"
  /\ UNCHANGED <<input, num, end, point, dest>>

\* Mutant: zeros are taken off an amount without fraction too.
TrimAll ==
  /\ pc = "trim"
  /\ IF end > start + 1 /\ buf[end - 1] \in {Zero, Period}
     THEN end' = end - 1 /\ UNCHANGED <<buf, pc>>
     ELSE buf' = [buf EXCEPT ![end] = NUL] /\ pc' = "suffix" /\ UNCHANGED end
  /\ UNCHANGED <<input, num, start, point, dest>>

\* Zeros at the end of the fraction go, and the point if nothing follows it.
Trim ==
  /\ pc = "trim"
  /\ IF end > point /\ buf[end - 1] \in {Zero, Period}
     THEN end' = end - 1 /\ UNCHANGED <<buf, pc>>
     ELSE buf' = [buf EXCEPT ![end] = NUL] /\ pc' = "suffix" /\ UNCHANGED end
  /\ UNCHANGED <<input, num, start, point, dest>>

Size == Len(fmt.suffix)

\* The symbol and a space, when there is a symbol.
Suffix ==
  /\ pc = "suffix"
  /\ pc' = "copy"
  /\ IF Size > 0
     THEN /\ start' = start - 1 - Size
          /\ buf' = [i \in 0..Top |->
                       IF start' <= i /\ i < start - 1
                       THEN fmt.suffix[i - start' + 1]
                       ELSE IF i = start - 1 THEN Space ELSE buf[i]]
     ELSE UNCHANGED <<start, buf>>
  /\ UNCHANGED <<input, num, end, point, dest>>

\* The caller's buffer is as long as buf (confirmValue) or longer (100 bytes
\* of the response), so that the text is never cut.
Copy ==
  /\ pc = "copy"
  /\ pc' = "done"
  /\ dest' = [i \in 1..(end - start) |-> buf[start + i - 1]]
  /\ UNCHANGED <<input, num, buf, start, end, point>>

Done == pc = "done" /\ UNCHANGED vars

Next == Divide \/ Pad \/ Shift \/ Trim \/ Suffix \/ Copy \/ Done

Spec == Init /\ [][Next]_vars
-----------------------------------------------------------------------------
(* Properties *)

\* The type invariant.
TypeOK ==
  /\ pc \in {"divide", "pad", "shift", "trim", "suffix", "copy", "done"}
  /\ balance \in Balances /\ fmt \in Formats
  /\ num \in [1..NumBytes -> 0..255]
  /\ buf \in [0..Top -> 0..127]
  /\ start \in Int /\ end \in Int /\ point \in Int
  /\ dest \in Seq(0..127)

\* No index leaves the buffer, for any amount, scale and symbol: not while
\* zeros are padded, nor by the move to the left, nor with the longest symbol
\* in front (libv_helpers.c:185-274, libv_rom_variables.h:40).
InBounds ==
  /\ 0 <= start /\ start <= end /\ end <= Top
  /\ pc \in {"pad", "shift", "trim"} => 0 <= point /\ point < Top

-----------------------------------------------------------------------------
(* A reference: the value that a text stands for *)

IsDigit(c) == c \in Zero..(Zero + 9)

\* s[i], ..., s[j - 1] is the one decimal text of n units of which Pow(10, u)
\* make one: digits without leading zeros and, if there is a fraction, a point
\* in s[p] and at most u digits, not ending in zero.
Canonical(s, i, j, u, n) ==
  \E p \in (i + 1)..j :
    /\ \A k \in i..(p - 1) : IsDigit(s[k])
    /\ s[i] = Zero => p = i + 1
    /\ \/ /\ p = j
          /\ Number(10, Zero, s, i, p) * Pow(10, u) = n
       \/ /\ p + 1 < j /\ j - (p + 1) <= u
          /\ s[p] = Period
          /\ \A k \in (p + 1)..(j - 1) : IsDigit(s[k])
          /\ s[j - 1] # Zero
          /\ Number(10, Zero, s, i, p) * Pow(10, u)
               + Number(10, Zero, s, p + 1, j) * Pow(10, u - (j - (p + 1))) = n

\* The text is the symbol and a space, if there is a symbol, and stands for
\* the amount exactly.
Denotes(s, f, bytes) ==
  LET skip == IF f.suffix = << >> THEN 0 ELSE Len(f.suffix) + 1
  IN  /\ skip < Len(s)
      /\ \A k \in 1..skip : s[k] = Append(f.suffix, Space)[k]
      /\ Canonical(s, skip + 1, Len(s) + 1, f.unitScale, Amount(bytes))

\* What the user is asked to approve is the amount that is signed: the text is
\* exact, in its only form, for every scale (libv_helpers.c:181-275).
TextIsExact == pc = "done" => Denotes(dest, fmt, balance)
=============================================================================
