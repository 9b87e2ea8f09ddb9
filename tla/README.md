# Formal model of the Vite app for Ledger Nano S

TLA+ modules for the firmware in `src/`, the TLC configurations that check them,
and TLAPS proofs of the main results. Line numbers refer to the files under `src/`.

## The system

One thread. `app_main` loops: `io_exchange` sends the previous response, then
hands every event (display, ticker, button, status) to `io_event` until an APDU
has arrived on USB HID or on U2F; `app_dispatch` runs its handler to the end.
Handlers that need the user's consent leave a request in `libv_context_D`,
return `IO_ASYNCH_REPLY` and are answered much later, from a button callback.

| Part | State | Operations | Talks to | Hard behaviour | What makes it correct |
|---|---|---|---|---|---|
| Dispatcher (`libv_app.c:35-131`) | `halted`, `u2fRequestHash`, `u2fTimeout` | one APDU | handlers, queue | retry of an answered or open call, exceptions, halting | an answer goes to the call it belongs to; nothing is released after a fault |
| Context (`libv_context.*`) | `state`, the union of requests and `asyncResponse` | init, move answer | everybody | one union read under several types | its content agrees with `state` and with the screen |
| Events (`libv_app.c:133-183, 247-353`) | transport state of the SDK | display, ticker, button, timeout | screens, queue | answer, timeout, retry and restart in any order | verdicts leave once, hosts do not hang |
| APDU handlers (`libv_apdu_*.c`) | `cachedSendBlockData` | seven INS | context, key derivation, hash | chunked data | what is shown is what is hashed; one prompt at a time |
| APDU parsing (the same files) | `G_io_apdu_buffer` | check, path, fields, data | handlers | lengths that depend on the path; bytes of earlier calls behind this one | each handler reads its own call, all of it |
| Request hash (`libv_helpers.c:313-319`) | | hash a call | dispatcher | collisions | a call is not taken for the retry of another |
| Screens (`libv_bagl_nanos.c`) | `bagl_state`, `ux_step`, `ux_step_count`, strings | install, draw, rotate, button | context | drawing is spread over events | the strings drawn are those of the step and request; all fields appear |
| Screen texts (`libv_bagl_nanos.c:42-120, 568-665`) | `vars`, a union | write a label, an address, a name, digits | screens | texts written over each other, cut, moved | nothing left over, nothing outside, receivers told apart |
| Amount text (`libv_helpers.c:181-275`) | one local buffer | format | screens, test command | digits, scale, zeros, symbol in one buffer | the text is exact and stays in the buffer |
| Start and exit (`main.c`) | | init, reset, exit | all | reset in mid-operation | nothing survives by halves |

Components that are modelled in part or not at all, with the reasons, are listed
in `PROJECT.json` under `components`; the hazards under `hazards`.

## Modules

- **SendBlockData** - pure operators on the data of a send block: the cache record
  with its 64-byte buffer, length, text flag and Blake2b context, one chunk
  (`Absorb`), and how a signing call finishes it (`FromCache`, `FromApdu`). A context
  is the sequence it absorbed; bytes nobody wrote are `Garbage`.
- **ConfirmOnce** - what the app promises about confirmations, without screen,
  transport, timer or buffer: `Ask`, `Decide`, `Release`, `Restart`.
- **LibvApp** - the app's control. `Deliver(t, a)` is one run of `app_dispatch`: one
  action per outcome (`AnswerHalted`, `ResumePending`, `ReturnQueued`, `Reject`,
  `Fault`, and one per handler). `DisplayProcessed`, `Ticker`, `Button` and
  `MenuRedraw` are the events of `io_event`; `Restart` is `app_init`.
  - An APDU is an operation, the result of the checks on its bytes (`form`), whether
    its path derives (`path`), the block data it carries, and an `id` for the rest.
  - The union is two variables: `async`, and `request` for the bytes of the request,
    which stay there after the answer (see *Findings*).
  - `shown`, `waiting` and `sent` are history variables, for the properties.
  - `displayed` is `UX_DISPLAYED()`. `Install` resets it.
- **Prompts** - what the app promises about its screens: a request is put before the user
  when no other is, the screen follows the state, a button answers the prompt on the
  screen. It is where LibvApp and ConfirmScreen meet: each models this part of the code
  next to a detail of its own, and both are shown to implement it.
- **ConfirmScreen** - the stepped prompts: `Fields(b)` is the order of the fields in
  `ui_confirm_sign_send_block_prepare_confirm_step`, `Count(b)` the number computed
  apart from it, and one action per element drawn. The state machine around the
  screen is that of LibvApp without queue and transports.
- **ConfirmText** - the memory those screens are drawn from: `vars` as a function from
  addresses to characters, and the functions that write there as the copies, moves and
  terminators they are made of. A character is a digit with its value, or its place in a
  named literal. Steps come in any order, more than the screens allow.
- **AmountFormat** - `libv_amount_format`, one action per turn of a loop, on ASCII codes
  and big-endian bytes. `DivideByTen` is the chain of `r` and `d`, `Carry` what it hands
  from byte to byte. `Number` and `Canonical` are the reference the text is compared with:
  the value of the digits, and the one decimal text of a value. All recursion is in
  functions, so that it can be proved about.
- **ApduParser** - how a handler walks through the APDU buffer: one action per check,
  path, field and data, with `ptr` for the code's pointer and `reads` for the furthest
  byte looked at. `LibvApp` takes the result of this walk as the `form` of a call.
- **RequestHash** - `libv_simple_hash` run on two calls side by side.
- **MCLibvApp**, **MCConfirmScreen**, **MCConfirmText**, **MCAmountFormat**,
  **MCApduParser**, **MCRequestHash** - instances for TLC.
- **LibvAppProofs**, **LibvAppRouting**, **LibvAppRefinement**, **ConfirmScreenProofs**,
  **ConfirmTextProofs**, **AmountFormatProofs**, **ApduParserProofs**,
  **RequestHashProofs** - theorems.

Definitions marked `Mutant` are plausible bugs of the definition that follows them.
They are part of no specification; substituted for the original, each breaks the
property `PROJECT.json` names with it.

## What the SDK is assumed to do

The Bolos SDK is not in the repository. Where the code does not settle what it does,
the model takes every outcome, or a constant:

- `Overlap` says whether an APDU may be delivered while an earlier one still waits.
  `{}` is the SDK's rule for one transport at a time; `U2fOverlap` adds U2F hosts that
  call again. The theorems that do not name `Overlap` hold for any.
- A screen may be drawn at once or with the next event (`Prompt`), and a redrawn
  screen may or may not forget the step change scheduled for the last one.
- Hashing with a context that is all zeroes throws, or gives a digest of no use.
- `IO_APDU_BUFFER_SIZE` is 260, `os_memmove` copies what it is told to, and `io_exchange`
  returns at most the size of the buffer. That LC counts the bytes behind it is no
  assumption of ApduParser but the hypothesis (`Complete`) of the properties that need it.
- The public key, the checksum and the digest of a text are functions given as constants.
- Locking (`UX_ALLOWED`) only delays step changes and is left out of ConfirmScreen;
  in LibvApp the PIN is validated or not, anew for each call.

## Runs

| Run | Question | Bounds |
|---|---|---|
| `control` | every operation, both transports, one call at a time: types, screen and request agree, answers reach their call, the timer, halting, refinement of ConfirmOnce and Prompts; prompts appear, answers leave, U2F hosts do not hang | 15 APDUs: every op, two blocks, every refusal; timeout of 3 ticks |
| `u2f_retry` | the routing of answers and the timer when U2F hosts call again while they wait | 6 APDUs, timeout 2 |
| `data` | shown is hashed | chunks of one or two bytes, text or not; buffer of 2, data up to 4 |
| `screen` | strings drawn belong to step and request; every field is shown to a user who waits; refinement of Prompts | all 16 send blocks and two addresses |
| `text` | nothing left over, nothing outside the union, which receivers look alike | 10 receivers, suffixes 0, 1, 2 and 255, data of 0, 1, 8, 9, 17 and 64 bytes, amounts of 1 and 95 characters |
| `amount` | text exact, buffer not left | two-byte amounts (151 of them, up to 65535), scales 0 to 4, symbols of 0, 1 and 3 characters |
| `parser` | a handler reads its own call, signs all its data, stays in the buffer | 7 handlers, 40 values of LC, 22 numbers of path components, complete and cut calls |
| `hash` | a retry is recognised, a call one byte away is not | every two calls of 1 to 4 bytes, bytes of 2 bits, a word of 8 |
| `cache_miss`, `sanitised`, `suffix`, `minimum_size` | see *Findings* | minimal |

Why the bounds are enough. The control state holds at most one request, one queued
answer and one waiting host; two different blocks, an address and calls of every
other kind give every pair of an old and a new occupant of each. The timer has three
cases (off, one, more): two or three ticks reach all. In `data` the buffer is shorter
than the data of the longest sequence by two, so that chunks end before, at, across
and after its end. `ConfirmScreen` enumerates all combinations of fields. In `text` the
lengths lie on both sides of each at which the code cuts: 8 bytes of data shown, twice
as many written (of 1, 8 and 9 bytes, some or most of them behind the data), 95 characters
of an amount; the receivers are a user and a contract of the same bytes, both ends of the
table of names, the entry behind it, a contract whose last byte only looks like an index,
and bytes with and without a name under suffixes that are neither 0 nor 1. In `amount` five digits with scales up to four meet every
order of integer part, point, zeros within and at the end; the longest number, scale and
symbol fill the buffer exactly; the theorem has the 32 bytes and 78 digits. In `parser` the values of LC surround every length the
code tests and every sum of fields for paths of 0 to 10 components, and the numbers of
components those at which the path's `uint8_t` length wraps. `hash` is small because the
theorem is not: 29 is prime to 2^8 as it is to 2^32.

`MaxData` bounds the data cached for one block; `LenWord` and `Word` scale a 64-bit and a
32-bit word down for TLC (the theorems hold for the real sizes); `Beyond` is how many
bytes behind the union are watched. Nothing else is capped. Deadlock is checked in every
run but `hash`, which ends when both calls are hashed.

With U2F hosts calling again *and* HID on the same cable, `ReplyMatchesRequest` does not
hold: the timer that an overlapped U2F call leaves behind can send an HID host away, and
`u2fRequestHash` then still names a call other than the one whose answer is queued. The
SDK does not deliver on one transport while it owes an answer on the other, so this is
outside what `u2f_retry` assumes, and `RoutingSafe` has one of the two as its hypothesis.
`TimerOnlyOnU2f` needs one call at a time; the other safety properties of LibvApp are
proved for any overlap.

## Fairness

`control` (`FairSpec` of LibvApp): weak fairness of `DisplayProcessed` and `Ticker`. The
MCU ticks every 100 ms and reports every element drawn, whatever the host and the user
do; neither a call nor a button press is assumed. `screen` (`FairSpec` of ConfirmScreen):
strong fairness of the drawing and of `ApplyState`, because drawing an element takes
milliseconds and the step changes and menu redraws that could interrupt it are seconds
apart; weak fairness of `Rotate`.

What the liveness properties leave open is what the code leaves open: an answer whose
U2F host was sent away by the timer stays queued until the host calls again, and a
restart forgets everything.

## Proofs

| Module | Theorem | Says | Assumes |
|---|---|---|---|
| LibvAppProofs | `TypeCorrect`, `ScreenSafe` | `TypeOK`, `ScreenMatchesRequest` are invariants | |
| | `HaltedSafe` | `HaltedReleasesNothing` is an invariant | |
| | `DataSafe` | `ShownIsHashed` is an invariant | |
| LibvAppRefinement | `Refinement` | LibvApp implements ConfirmOnce | |
| | `PromptRefinement` | LibvApp implements Prompts | |
| LibvAppRouting | `HashRouting` | an answer leaves to a call with the hash of the call it was computed for | `Overlap = {}` or no HID |
| | `RoutingSafe` | `ReplyMatchesRequest` is an invariant | the same, hash injective |
| | `TimerSafe` | `TimerOnlyOnU2f` is an invariant | `Overlap = {}` |
| | `U2fTimed` | `U2fHostIsTimed` is an invariant | |
| ConfirmScreenProofs | `TypeCorrect`, `StepSafe` | `TypeOK`, `ScreenShowsStep` are invariants | |
| | `ScreenRefinement` | ConfirmScreen implements Prompts | |
| ConfirmTextProofs | `TypeCorrect` | `TypeOK` is an invariant | |
| | `TextSafe`, `UnionSafe` | `NothingLeftOver`, `StaysInUnion` are invariants | |
| | `ReceiversSafe` | `ReceiversDiffer` is an invariant | different bytes have different checksums, also inverted |
| AmountFormatProofs | `TypeCorrect`, `BoundsSafe`, `TextExact` | `TypeOK`, `InBounds`, `TextIsExact` are invariants | |
| | `Terminates` | every step decreases a natural number | |
| | `AmountsTold`, `TextUnique` | a text stands for one amount, an amount has one text | |
| ApduParserProofs | `TypeCorrect` | `TypeOK` is an invariant | |
| | `NoStaleByte`, `AllDataSigned`, `FieldsInBuffer` | `ReadsOwnBytes`, `DataIsTheRest`, `StaysInBuffer` are invariants | |
| RequestHashProofs | `TypeCorrect`, `OneByteSafe` | `TypeOK`, `OneByteApart` are invariants | 29 prime to the word |

All for any set of APDUs, calls, requests, transports, overlap, hash, timeout and bound
on the data, under the named assumptions of the modules (types of the constants) and
what the last column adds.

*LibvApp.* The inductive invariant `IInv` (LibvAppProofs) is `TypeOK`,
`ScreenMatchesRequest`, and what they need of the union: a prompt has a request, the
request of an answer exists, a queued answer occurs in READY only. `ScreenMatchesRequest`
is not inductive alone: the request of a screen stays put only because no handler prompts
unless the state is READY, and a screen other than the menu is left by every step that
makes it so. `HaltedReleasesNothing` is inductive as it stands: the step that halts also
frees the channel, and no later one waits. `DataSafe` follows from lemmas on the operators
of SendBlockData (each keeps `Faithful`), by case analysis on what changes `cached` and
`request`.

`RoutingSafe` needs to know who waits. `RInv` says that a waiting host's call has the hash
of the one that started the operation, and that if none waits on HID, the recorded hash is
that hash. This much needs no assumption on the hash and gives `HashRouting`: the hash is
all the app knows a call by. `RoutingSafe` adds that it tells the calls apart; with a
colliding hash, one call is the retry of another by definition. What both need of the SDK
is `HidUndisturbed`: while a host waits on HID, no call gets in and no timer runs, for an
HID call is known by nothing but the channel it waits on. One call at a time gives that
(with `TimerSafe`), and so does a device without HID hosts, the case of run `u2f_retry`.
With both transports and overlap, a U2F timer can outlive its call and an HID call can be
answered in the other's place. `U2fTimed` is the part of `U2fNeverHangs` that is safety,
and holds for every overlap: the timer runs whenever a U2F host waits.

`Refinement` maps a state with a prompt to *asking*, a queued answer to *answered*. Every
action maps to one abstract action; what answers at once, and every event that moves
only screen or timer, maps to `Other`.

*The screens and the app around them.* `PromptRefinement` and `ScreenRefinement` are the
composition of LibvApp and ConfirmScreen. The two overlap in `state`, the request, the
screen installed and whether it is drawn; Prompts is exactly that overlap. LibvApp draws
a screen in one step and has queue, timer and faults; ConfirmScreen draws it element by
element and has steps and strings; since both implement Prompts, what LibvApp assumes of
a screen (no button for another request, no exchange while a request is open) is what
ConfirmScreen delivers.

*ConfirmScreen.* `IInv` adds to `TypeOK` and `ScreenShowsStep` that each state has a
request of its kind (`RequestOfState`), that `ux_step_count` is the count for it
(`StepsOfRequest`), and that label and value were written for the current step once
their element is drawn (`StringsOfStep`). The heart is `StepsOfFields`: the number of steps,
summed up when the screen is installed, is one more than the number of fields that the
chain of conditions in `..._prepare_confirm_step` finds, for each of the 16 combinations.

*ConfirmText.* Every writer is shown to satisfy `Shows`: the text and a NUL behind it are at
the string's address, and nothing outside the string has changed, whatever was written and
cut on the way. It rests on `PutConcat` (two adjacent copies are one copy of the two texts)
and `TextFound` (a text without NUL and a NUL behind it are what the display reads).
`StepKeeps` adds that the label, at most 13 bytes, ends in front of the value. `NothingLeftOver`
and `StaysInUnion` are then inductive together. `ReceiversSafe` reads the writers backwards:
a name tells the index and HasName the other bytes, ten digits tell the checksum, and a
text that starts with a dot is no name. Its assumption `ChecksDiffer` is all that is left to
the hash: the checksums of different 20 bytes differ, and none is the inverse of another.
Nothing is assumed of the suffix, which the code copies unchecked. The screen tells a user
(0) from everything else and a named contract (1) from everything else; what it does not
tell is one suffix from another when neither is 0 and there is no name. `ReceiversDiffer` says
that these pairs look alike, and no others. `TwiceTheDigits` is about the data: of the
digits that `ui_write_data_truncated` writes, the first half are those shown, and
`PrefixIsThere` lets the proof put them there again and then end them.

*AmountFormat.* `IInv` has one part per loop. While the amount is divided, what is left
times a power of ten plus the digits written is the amount (`DivideInv`), because ten times
the quotient and the remainder are the dividend (`DivideExact`, by induction over the
bytes); what is left is less than a power of ten with as many zeros as there is room for
digits, which is why the buffer suffices: `Pow(256, NumBytes) <= Pow(10, Digits)` is the
assumption, and 78 digits are the least for 32 bytes. Zeros in front change nothing
(`PadInv`). Behind the point the text is two numbers, and each zero taken off the end takes
a power of ten off the scale of the second (`TrimInv`). Then the text is `Canonical`, and
moving or copying it keeps that (`CanonicalSame`). `Terminates` adds up both ends of the
text and the loops to come. `AmountsTold` and `TextUnique` are about the reference itself:
the digits of a number in base 10 or 256 are its own (`NumberInjective`), a longer number
without leading zeros is larger, and a longer fraction that does not end in zero differs.

The values of `Number`, `Pow` and `Carry` are recursive functions. The library's theorems on
induction take an operator, which the provers cannot instantiate; `Induction`, for a
set instead, follows from the library's well-foundedness of < (`WFMin`), and `Recursion`,
that a recursive function exists and satisfies its equations, from that.

*ApduParser.* `IInv` ties `ptr` to a table `Offset` of where each field begins behind the
path, and `reads` to `ptr`. `LCIsEnough` compares the last entry with the smallest LC that
the header check lets through, and gives `NoStaleByte` and `AllDataSigned` for up to three
components. `FieldsInBuffer` needs the bound of `libv_derive_keypair` (2 to 10 components):
only with it do the fields behind the path end inside the buffer; the path itself is
copied up to 41 bytes whatever its length claims.

*RequestHash.* `IInv` says that two calls that differ in one place have the same hash up
to it and different hashes from there on: `BecomesDifferent` uses that bytes are smaller
than the word, `StaysDifferent` that 29 h is not 29 h' modulo the word. The division lemmas
(`Quotient`, `SameRemainder`) carry the arithmetic the solver does not do by itself. Calls
that differ in two bytes can share a hash: in adjacent bytes, one more in the first
against 29 less in the second. This is why `RoutingSafe` has to assume more.

The lemmas on SendBlockData open LibvAppProofs, their only user.

Model-checked only: the liveness properties `PromptShown`, `AnswerDelivered`,
`U2fNeverHangs` and `FieldsShown` (fairness and ENABLED are out of the prover's reach), and
that the properties under *Findings* fail.

## Findings

- *6A82 is never returned* (`libv_apdu_sign_send_block.c:127`). `doc/vite.md:300` has a
  status word for a cache miss. Run `cache_miss`: after a start, a call that uses the
  cache halts the app or opens a prompt for a meaningless digest.
- *Requests are not sanitised* (`libv_apdu_sign_send_block.c:242`,
  `libv_apdu_get_address.c:120`). `sizeof(req)` is the size of a pointer. Run `sanitised`.
- *The token symbol is read through a dangling pointer* (`libv_bagl_nanos.c:744`): `suffix`
  points into the loop's local copy of the table entry. Run `suffix`.

- *The minimum size depends on the path* (`libv_apdu_sign_send_block.c:56`,
  `libv_apdu_sign_receive_block.c:58`). 156 and 93 are the sizes behind a path of three
  components; up to ten are accepted. With four and an LC of 156 the last fields are read
  behind the end of the call, and `dataLen` (line 111) is negative before it wraps. The
  app's own paths have three components. Run `minimum_size`; `ReadsOwnBytes` and
  `DataIsTheRest` are therefore about short paths.

In the model these are what the code does; properties that hold, hold with them.

Noted, and covered by no property: `get_address` tests LC for one byte only, so a short
call gives the address of a path completed by bytes of an earlier one (the answer says
which address it is).

Noted, and inside what the properties allow: `libv_apdu_sign_send_block.c:92` copies the
receiver's suffix unchecked, `libv_helpers.c:94` takes every value but 0 for a contract, and
`libv_helpers.c:129` only 1 for one with a name. Receivers of the same 20 bytes with suffixes
2 and 3, or 1 and 2 without a name, have the same text on the screen (`ShownAlike`), while
the suffix is part of what is signed. `libv_bagl_nanos.c:117` doubles the length it passes on:
up to 16 bytes are written as digits to show 8 or fewer, from behind the data if it is
short, and the terminator hides the rest (`WriteData`, `NothingLeftOver`, `StaysInUnion`).

The properties of AmountFormat, and what ConfirmText takes from it, are about a symbol that
is there when it is read. On the screen it need not be, as run `suffix` shows: digits and
scale are then still right, the characters in front of them are not known.

## Not modelled

- *Key derivation, signatures, Blake2b* (`ed25519_shim.c`, `blake2b_shim.c`): primitives of
  the SDK; a derivation accepts or throws, a hash context is what it absorbed.
- *The content of the token table* (`libv_rom_variables.c`): constants; a token is known
  or not, and its scale and symbol are those AmountFormat is given.
- *The layout of fault-protected values* (`secu8`): `halted` is the Boolean it protects.
  A corrupted flag resets the device, which is `Restart`, possible at any time.
- *Persistent storage*: `autoReceive` is written by nobody, its readers are commented out.
- *Debug output*: compiled with `LIBV_ENABLE_DEBUG` only. *Dead code*: the prompt for a
  receive block and its callback, entered by no handler.
- *Pixels*: `bagl` element arrays are their number and the strings they point to.

## Plan

1. Done: SendBlockData, LibvApp, ConfirmOnce, ConfirmScreen, AmountFormat.
2. Done: ApduParser, RequestHash, ConfirmText; Prompts as the meeting point of LibvApp and
   ConfirmScreen; the proofs about them.
3. Done: AmountFormat over bytes, with the proof that its text is exact; routing without
   assumption on the hash, and over U2F with overlap.
4. Left: `secu8` as two bytes that a fault may set apart; the steps of the liveness
   arguments that are safety (what keeps `Redraw`, `SendQueued` and the drawing of a step
   possible), as `U2fTimed` is for the timer.
