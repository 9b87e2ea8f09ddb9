---------------------------- MODULE MCConfirmText ----------------------------
(***************************************************************************)
(* Instance of ConfirmText for TLC.                                        *)
(***************************************************************************)
EXTENDS ConfirmText

\* The zeros in front of an index, or other bytes, and what kind of address.
Address(first, index, suffix) ==
  [i \in 1..21 |-> CASE i = 19 -> first [] i = 20 -> index [] i = 21 -> suffix
                     [] OTHER -> 0]

\* A user and a contract of the same bytes, contracts with a name and without
\* one, at both ends of the table and behind it, bytes that look like a name's
\* index, and suffixes that no address has but that nothing refuses.
MCReceivers ==
  { Address(0, 3, 0), Address(0, 3, 1), Address(0, 7, 1), Address(0, 2, 1),
    Address(0, 8, 1), Address(9, 3, 1), Address(9, 3, 0),
    Address(0, 3, 2), Address(0, 3, 255), Address(9, 3, 2) }

MCAccounts == { Raw(Address(171, 205, 0)), Raw(Address(9, 3, 0)) }
Token == [i \in 1..10 |-> 16 * i + 15 - i]

\* A checksum that is another for every text.
MCCheck ==
  [s \in MCAccounts \cup {Raw(a) : a \in MCReceivers} \cup {Token} |->
     IF Len(s) = 20 THEN <<s[19], s[20], 1, 2, 3>> ELSE <<s[1], s[2]>>]

\* The shortest text of an amount, and one that fills the string.
Short == Literal("amount", 1)
Long == Literal("amount", 95)
Ramp(n) == [i \in 1..n |-> 255 - i]

Block ==
  [account |-> Raw(Address(171, 205, 0)), to |-> Address(9, 3, 0),
   token |-> Token, known |-> FALSE, amount |-> Long, hasFee |-> TRUE,
   fee |-> Short, data |-> Ramp(64)]

\* Every receiver; data on both sides of the eight bytes that are shown and of
\* the sixteen that are written; amounts and fees of both lengths.
MCBlocks ==
  { [Block EXCEPT !.to = a] : a \in MCReceivers }
    \cup { [Block EXCEPT !.data = Ramp(n)] : n \in {1, 8, 9, 17} }
    \cup { [Block EXCEPT !.amount = Short, !.fee = Long, !.account = Raw(Address(9, 3, 0))],
            [Block EXCEPT !.known = TRUE, !.hasFee = FALSE, !.data = << >>] }
=============================================================================
