---------------------------- MODULE MCApduParser ----------------------------
(***************************************************************************)
(* Instances of ApduParser for TLC.                                        *)
(***************************************************************************)
EXTENDS ApduParser

Of(ins, p1, p2, lc, n, inLength) ==
  [ins |-> ins, p1 |-> p1, p2 |-> p2, lc |-> lc, components |-> n,
   inLength |-> inLength]

\* Both sides of every length that is tested or that the sizes add up to, for
\* paths of up to ten components.
Lengths ==
  {0, 1, 2, 3, 9, 13, 41, 42, 43, 76, 89, 92, 93, 94, 96, 97, 98, 121, 142, 143,
   144, 151, 152, 153, 155, 156, 157, 158, 159, 160, 161, 164, 183, 184, 185,
   223, 224, 225, 248, 255}

\* Every number of components that is accepted, the first ones that are not,
\* and those around which the length of the path wraps.
Components == (0..12) \cup {62, 63, 64, 65, 66, 67, 127, 128, 255}

\* With a P1 that the handler takes.
CompleteCalls ==
  { Of(ins, IF ins \in {"cache_send_block_data", "sign_send_block"} THEN 1 ELSE 0,
       0, lc, n, CDATA + lc) :
      ins \in Handlers, lc \in Lengths, n \in Components }

\* Calls shorter than their LC says, without data, with other parameters, or
\* to no handler.
OtherCalls ==
  { Of(ins, p1, 0, lc, n, inLength) :
      ins \in Handlers, p1 \in 0..2, lc \in {0, 2, 42, 93, 156, 255},
      n \in {0, 3, 10, 63, 255}, inLength \in {0, 4, 5, 20, 260} }
    \cup { Of(ins, 3, 0, 156, 3, 161) : ins \in Handlers }
    \cup { Of(ins, 1, 1, 156, 3, 161) : ins \in Handlers }
    \cup { Of("unknown", 0, 0, 0, 0, 5) }

MCCalls == CompleteCalls \cup OtherCalls

\* Blocks to sign alone, with and without data.
BlockCalls ==
  { Of("sign_send_block", 2, 0, lc, n, CDATA + lc) :
      lc \in {152, 156, 157, 160, 161}, n \in 2..4 }
=============================================================================
