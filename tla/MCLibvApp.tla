----------------------------- MODULE MCLibvApp -----------------------------
(***************************************************************************)
(* Instances of LibvApp for TLC.  Each configuration takes the APDUs that  *)
(* its question needs; every other constant is given in the .cfg file.     *)
(***************************************************************************)
EXTENDS LibvApp

CONSTANTS text, zero   \* bytes: a printable one, and the zero byte

Call(o, f, p, d, i) == [op |-> o, form |-> f, path |-> p, data |-> d, id |-> i]
Good(o) == Call(o, LIBV_SW_OK, TRUE, << >>, 0)
BadPath(o) == [Good(o) EXCEPT !.path = FALSE]
Malformed(o, sw) == [Good(o) EXCEPT !.form = sw]
With(o, d) == [Good(o) EXCEPT !.data = d]

Bytes == {text, zero}

\* Every operation, two blocks that differ in bytes other than data, and every
\* way to be refused.
ControlApdus ==
  { Good("get_app_conf"), Good("get_token_info"), Good("test_amount_text"),
    Good("get_address"), BadPath("get_address"),
    Good("sign_receive_block"), Good("display_address"),
    Good("sign_send_block"), [Good("sign_send_block") EXCEPT !.id = 1],
    With("cache_first", <<text>>), Good("sign_send_cached"),
    Malformed("unknown", LIBV_SW_INS_NOT_SUPPORTED),
    Malformed("get_app_conf", LIBV_SW_INCORRECT_P1_P2),
    Malformed("sign_send_block", LIBV_SW_INCORRECT_LENGTH),
    Malformed("get_token_info", LIBV_SW_ARRAY_OUT_OF_BOUNDS) }

\* Two blocks to sign, an address, and calls that succeed, fail and halt.
RetryApdus ==
  { Good("display_address"), Good("sign_send_block"),
    [Good("sign_send_block") EXCEPT !.id = 1],
    Good("get_address"), BadPath("get_address"),
    Malformed("sign_send_block", LIBV_SW_INCORRECT_LENGTH) }

\* Chunks of text and of other bytes, cached and signed in every order.
Chunks == { <<text>>, <<zero>>, <<text, text>> }
DataApdus ==
  { With("cache_first", s) : s \in Chunks }
    \cup { With("cache_other", s) : s \in Chunks }
    \cup { With("sign_send_block", s) : s \in Chunks \cup {<< >>} }
    \cup { With("sign_send_cached", s) : s \in Chunks \cup {<< >>} }

CacheApdus ==
  { With("cache_first", <<text>>), With("sign_send_cached", << >>) }

\* A hash that is injective on each of these sets, and never zero.  (Where data
\* tells APDUs apart only HID is used, and hashes play no part.)
Places == <<"get_app_conf", "get_address", "display_address",
  "sign_receive_block", "sign_send_block", "get_token_info",
  "test_amount_text", "unknown", "cache_first", "cache_other",
  "sign_send_cached">>

MCHash ==
  [a \in Apdu |->
     8 * (CHOOSE i \in DOMAIN Places : Places[i] = a.op)
     + 4 * a.id
     + (IF a.path THEN 0 ELSE 2)
     + (IF a.form = LIBV_SW_OK THEN 0 ELSE 1)]

NoOverlap == {}
U2fOverlap == {<<"U2F", "U2F">>}
=============================================================================
