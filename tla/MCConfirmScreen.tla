--------------------------- MODULE MCConfirmScreen ---------------------------
(***************************************************************************)
(* Instances of ConfirmScreen for TLC.                                     *)
(***************************************************************************)
EXTENDS ConfirmScreen

Address(i) ==
  [screen |-> "CONFIRM_ADDRESS", contract |-> FALSE, known |-> TRUE,
   hasFee |-> FALSE, hasData |-> FALSE, id |-> i]

Send(contract, known, fee, data) ==
  [screen |-> "CONFIRM_SEND_SIGNATURE", contract |-> contract,
   known |-> known, hasFee |-> fee, hasData |-> data, id |-> 0]

\* Every combination of fields a send block can have, and two addresses.
AllBlocks ==
  { Send(contract, known, fee, data) :
      contract \in BOOLEAN, known \in BOOLEAN, fee \in BOOLEAN,
      data \in BOOLEAN }
    \cup { Address(0), Address(1) }

\* One token that is in the table, with a receiver that is not a contract.
KnownToken == { Send(FALSE, TRUE, FALSE, FALSE) }
==============================================================================
