--------------------------- MODULE MCAmountFormat ---------------------------
(***************************************************************************)
(* Instance of AmountFormat for TLC: amounts of two bytes, whose text has  *)
(* at most five digits.                                                    *)
(***************************************************************************)
EXTENDS AmountFormat

\* One digit to five, with zeros at every place, and both ends of the range.
MCBalances ==
  { <<n \div 256, n % 256>> :
      n \in 0..130 \cup {199, 200, 255, 256, 257, 999, 1000, 1001, 1010, 1100,
                         9999, 10000, 10001, 10010, 10100, 20000, 50000,
                         60030, 65280, 65534, 65535} }

MCFormats ==
  { [suffix |-> s, unitScale |-> n] : s \in { << >>, <<86>>, <<86, 48, 46>> },
                                      n \in 0..4 }
=============================================================================
