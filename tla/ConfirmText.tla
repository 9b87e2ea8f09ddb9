---------------------------- MODULE ConfirmText ----------------------------
(***************************************************************************)
(* The memory behind the screens: `vars` of libv_bagl_nanos.c, a union of   *)
(* the address shown by one prompt with the label and the value shown by   *)
(* the other, and the functions that write texts there, by copying parts   *)
(* of a text over others and putting a terminator after them.  A prompt    *)
(* clears its member of the union once; its steps then write over each     *)
(* other.  The display reads up to the first NUL.                          *)
(*                                                                         *)
(* A character is <<kind, n>>: the n-th of a literal text, or a digit.     *)
(* The steps of a block come in the order of ConfirmScreen; here in any.   *)
(***************************************************************************)
EXTENDS Integers, Sequences

CONSTANTS
  Accounts,   \* 20-byte hashes of the public keys of the device
  Blocks,     \* the blocks to sign
  Check,      \* the checksums of addresses (5 bytes) and of tokens (2 bytes)
  NoRequest

Byte == 0..255
Raw(a) == SubSeq(a, 1, 20)
AmountChar == {"amount"} \X (1..95)

\* to: the raw address of the receiver, 20 bytes and a suffix, 0 for users, all
\* as the host sends them; amount, fee: texts that libv_amount_format makes, as
\* it is known from AmountFormat; data: the bytes kept of it.
ASSUME TextAssumption ==
  /\ Accounts \subseteq [1..20 -> Byte]
  /\ \A b \in Blocks :
       /\ b.account \in Accounts
       /\ b.to \in [1..21 -> Byte]
       /\ b.token \in [1..10 -> Byte]
       /\ b.known \in BOOLEAN /\ b.hasFee \in BOOLEAN
       /\ b.amount \in Seq(AmountChar) /\ Len(b.amount) \in 1..95
       /\ b.fee \in Seq(AmountChar) /\ Len(b.fee) \in 1..95
       /\ b.data \in Seq(Byte) /\ Len(b.data) <= 64
       /\ Check[Raw(b.to)] \in [1..5 -> Byte]
       /\ Check[b.token] \in [1..2 -> Byte]
  /\ \A a \in Accounts : Check[a] \in [1..5 -> Byte]

NUL == <<"NUL", 0>>
Dot == <<".", 0>>
Other == <<"other", 0>>   \* what is in memory that is not of `vars`

Literal(name, len) == [i \in 1..len |-> <<name, i>>]

\* The members of the union: one byte for each of three flags, then the
\* strings of a block; the account lies over all of them.
ACCOUNT_BUF_LEN == 55 + 1
AMOUNT_TEXT_MAX_LEN == 96
Account == 0
Label == 3
Value == Label + 20
Union == Value + AMOUNT_TEXT_MAX_LEN
Beyond == 40   \* bound: bytes after the union that are watched
Cells == 0..(Union + Beyond - 1)

VARIABLES
  mem,       \* vars, and what follows it
  request,   \* the account or the block that is put before the user
  field      \* (history) the field written last

vars == <<mem, request, field>>

Init ==
  /\ mem = [i \in Cells |-> IF i < Union THEN NUL ELSE Other]
  /\ request = NoRequest
  /\ field = "none"

-----------------------------------------------------------------------------
(* Writing *)

\* os_memmove of a text, and of a part of the memory.
Put(m, at, s) ==
  [i \in DOMAIN m |-> IF at <= i /\ i < at + Len(s) THEN s[i - at + 1] ELSE m[i]]
Move(m, to, from, len) == Put(m, to, [i \in 1..len |-> m[from + i - 1]])
Terminate(m, at) == [m EXCEPT ![at] = NUL]
Clear(m, at, len) == Put(m, at, [i \in 1..len |-> NUL])

\* Mutant: the high digit is not brought down far enough.
NibbleWide(bytes, i) ==
  IF i % 2 = 1 THEN bytes[(i + 1) \div 2] \div 8 ELSE bytes[i \div 2] % 16

Nibble(bytes, i) ==
  IF i % 2 = 1 THEN bytes[(i + 1) \div 2] \div 16 ELSE bytes[i \div 2] % 16

\* libv_hex_to_ascii writes small letters, libv_write_hex_string capital ones.
Hex(bytes) == [i \in 1..(2 * Len(bytes)) |-> <<"hex", Nibble(bytes, i)>>]
CapitalHex(bytes) == [i \in 1..(2 * Len(bytes)) |-> <<"HEX", Nibble(bytes, i)>>]

\* The checksum of an address with any suffix but 0 is inverted.
Inverted(bytes) == [i \in DOMAIN bytes |-> 255 - bytes[i]]
AddressCheck(a) == IF a[21] # 0 THEN Inverted(Check[Raw(a)]) ELSE Check[Raw(a)]

AddressFormat(m, at, a) ==
  LET prefixed == Put(m, at, Literal("vite_", 5))
      raw == Put(prefixed, at + 5, Hex(Raw(a)))
  IN  Put(raw, at + 5 + 40, Hex(AddressCheck(a)))

TokenIdFormat(m, at, t) ==
  Put(Put(Put(m, at, Literal("tti_", 4)), at + 4, Hex(t)), at + 24, Hex(Check[t]))

User(account) == Append(account, 0)

WriteAddressFull(m, at, a) == Terminate(AddressFormat(m, at, a), at + 55)

\* Mutant: the text is cut without a terminator.
AddressUnterminated(m, at, a) ==
  Move(Put(AddressFormat(m, at, a), at, <<Dot, Dot>>), at + 2, at + 5 + 40, 10)

\* Two dots and the checksum, moved behind them.
WriteAddressTruncated(m, at, a) ==
  LET dots == Put(AddressFormat(m, at, a), at, <<Dot, Dot>>)
  IN  Terminate(Move(dots, at + 2, at + 5 + 40, 10), at + 12)

\* CONTRACT_INFO_ARRAY: the lengths of the names.
NameLen == <<0, 0, 0, 17, 13, 24, 18, 19>>
NameOf(a) == [i \in 1..NameLen[a[20] + 1] |-> <<"contract", 32 * a[20] + i>>]

\* Mutant: the bytes in front of the index are not looked at.
NamedByIndex(a) ==
  /\ a[21] = 1
  /\ a[20] < Len(NameLen) /\ NameLen[a[20] + 1] > 0

HasName(a) ==
  /\ a[21] = 1
  /\ \A i \in 1..19 : a[i] = 0
  /\ a[20] < Len(NameLen) /\ NameLen[a[20] + 1] > 0

WriteReceiver(m, at, a) ==
  IF HasName(a)
  THEN Terminate(Put(m, at, NameOf(a)), at + NameLen[a[20] + 1])
  ELSE WriteAddressTruncated(m, at, a)

WriteTokenId(m, at, t) == Terminate(TokenIdFormat(m, at, t), at + 28)

\* The end of libv_amount_format: the text with its terminator, cut to the
\* size of the string.
WriteAmount(m, at, s) ==
  LET whole == Append(s, NUL)
      len == IF Len(whole) < AMOUNT_TEXT_MAX_LEN - 1
             THEN Len(whole) ELSE AMOUNT_TEXT_MAX_LEN - 1
  IN  Terminate(Put(m, at, SubSeq(whole, 1, len)), at + AMOUNT_TEXT_MAX_LEN - 1)

\* Mutant: the digits of all the data kept are written before the cut.
WriteAllData(m, at, d) ==
  LET digits == CapitalHex(d) \o Literal("garbage", 16)
      written == IF Len(d) > 8 THEN CapitalHex(d) ELSE SubSeq(digits, 1, 4 * Len(d))
      all == Put(m, at, written)
  IN  IF Len(d) > 8
      THEN Terminate(Put(all, at + 16, <<Dot, Dot>>), at + 18)
      ELSE Terminate(all, at + 2 * Len(d))

\* libv_write_hex_string takes a number of bytes, and is given a number of
\* digits: of the data shown, eight bytes at most, and of as many bytes behind it,
\* digits are written, twice as many as the terminator then leaves.
WriteData(m, at, d) ==
  LET shown == IF Len(d) > 8 THEN 8 ELSE Len(d)
      digits == CapitalHex(d) \o Literal("garbage", 16)
      twice == Put(m, at, SubSeq(digits, 1, 4 * shown))
  IN  IF Len(d) > 8
      THEN Terminate(Put(twice, at + 16, <<Dot, Dot>>), at + 18)
      ELSE Terminate(twice, at + 2 * Len(d))

-----------------------------------------------------------------------------
(* Prompts and their steps *)

DisplayAddress(account) ==
  /\ mem' = WriteAddressFull(Clear(mem, Account, ACCOUNT_BUF_LEN), Account,
                             User(account))
  /\ request' = [account |-> account]
  /\ field' = "Address"

ConfirmBlock(b) ==
  /\ mem' = Clear(mem, 0, Union)
  /\ request' = b
  /\ field' = "none"

LabelLen == [ f \in {"Your account", "Contract", "To address", "Token ID",
                     "Send amount", "Fee", "Data"} |->
              CASE f = "Your account" -> 12 [] f = "Contract" -> 8
                [] f = "To address" -> 10   [] f = "Token ID" -> 8
                [] f = "Send amount" -> 11  [] f = "Fee" -> 3
                [] f = "Data" -> 4 ]

\* A step of the block: its label and its value.
Step(f, written) ==
  /\ request \in Blocks
  /\ mem' = Put(written, Label, Append(Literal(f, LabelLen[f]), NUL))
  /\ field' = f
  /\ UNCHANGED request

ShowAccount ==
  Step("Your account", WriteAddressTruncated(mem, Value, User(request.account)))
ShowReceiver ==
  Step(IF HasName(request.to) THEN "Contract" ELSE "To address",
       WriteReceiver(mem, Value, request.to))
ShowTokenId ==
  ~request.known /\ Step("Token ID", WriteTokenId(mem, Value, request.token))
ShowAmount == Step("Send amount", WriteAmount(mem, Value, request.amount))
ShowFee == request.hasFee /\ Step("Fee", WriteAmount(mem, Value, request.fee))
ShowData ==
  request.data # << >> /\ Step("Data", WriteData(mem, Value, request.data))

ShowStep ==
  /\ request \in Blocks
  /\ \/ ShowAccount
     \/ ShowReceiver
     \/ ShowTokenId
     \/ ShowAmount
     \/ ShowFee
     \/ ShowData

Next ==
  \/ \E account \in Accounts : DisplayAddress(account)
  \/ \E b \in Blocks : ConfirmBlock(b)
  \/ ShowStep

Spec == Init /\ [][Next]_vars

-----------------------------------------------------------------------------
(* Properties *)

Chars ==
  {NUL, Dot, Other} \cup ({"hex", "HEX"} \X (0..15)) \cup ({"contract"} \X Byte)
    \cup ({"vite_", "tti_", "garbage"} \X (1..95)) \cup AmountChar
    \cup ((DOMAIN LabelLen) \X (1..12))

\* The type invariant.
TypeOK ==
  /\ mem \in [Cells -> Chars]
  /\ request \in Blocks \cup {[account |-> a] : a \in Accounts} \cup {NoRequest}
  /\ field \in DOMAIN LabelLen \cup {"Address", "none"}

\* What the display reads from an address on.
TextAt(m, at) ==
  LET end == CHOOSE i \in at..(Union + Beyond) :
               /\ i = Union + Beyond \/ m[i] = NUL
               /\ \A j \in at..(i - 1) : m[j] # NUL
  IN  [i \in 1..(end - at) |-> m[at + i - 1]]

\* Reference: the texts, with no memory to write them in.
AddressText(a) == Literal("vite_", 5) \o Hex(Raw(a)) \o Hex(AddressCheck(a))
Ending(s, n) == SubSeq(s, Len(s) - n + 1, Len(s))
ShortText(a) == <<Dot, Dot>> \o Ending(AddressText(a), 10)
TextOf(r, f) ==
  CASE f = "Address" -> AddressText(User(r.account))
    [] f = "Your account" -> ShortText(User(r.account))
    [] f = "To address" -> ShortText(r.to)
    [] f = "Contract" -> NameOf(r.to)
    [] f = "Token ID" -> Literal("tti_", 4) \o Hex(r.token) \o Hex(Check[r.token])
    [] f = "Send amount" -> r.amount
    [] f = "Fee" -> r.fee
    [] f = "Data" -> IF Len(r.data) <= 8 THEN CapitalHex(r.data)
                     ELSE CapitalHex(SubSeq(r.data, 1, 8)) \o <<Dot, Dot>>

\* Whatever was written before, the display reads the text of the field and
\* nothing left over from another: every writer puts its terminator where its
\* text ends (libv_bagl_nanos.c:55-120, 582-660, libv_helpers.c:272-275).
NothingLeftOver ==
  /\ field = "Address" => TextAt(mem, Account) = TextOf(request, field)
  /\ field \in DOMAIN LabelLen =>
       /\ TextAt(mem, Value) = TextOf(request, field)
       /\ TextAt(mem, Label) = Literal(field, LabelLen[field])

\* No text, not even one that is cut later, as the digits of data are, runs out
\* of the union (libv_bagl_nanos.c:42-53, 104-120).
StaysInUnion == \A i \in Union..(Union + Beyond - 1) : mem[i] = Other

\* Addresses the screen cannot tell apart: contracts without a name that differ
\* in nothing but the suffix, which is any byte but 0.
ShownAlike(a, c) ==
  \/ a = c
  \/ /\ ~HasName(a) /\ ~HasName(c)
     /\ Raw(a) = Raw(c)
     /\ a[21] # 0 /\ c[21] # 0

\* A receiver is shown as another one would be only when both are contracts
\* without a name, of the same bytes and different suffixes, which the app does
\* not check.  Names stand for one contract each, and a contract and a user of
\* the same bytes differ, as long as checksums do (libv_bagl_nanos.c:76-89,
\* libv_helpers.c:84-153).
ReceiversDiffer ==
  field \in {"To address", "Contract"} =>
    \A b \in Blocks :
      (TextAt(WriteReceiver(mem, Value, b.to), Value) = TextAt(mem, Value))
        <=> ShownAlike(b.to, request.to)
=============================================================================
