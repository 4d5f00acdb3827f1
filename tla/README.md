# TLA+ models of the secure boot loader and its application side

This directory specifies the nRF52840 secure boot loader of this repository
(`src/prod-sbl`), the part of the sample application and of its libraries that
talks to it (`src/prod-app`, `src/prod-libsbl`, `src/src-uc`), the host program
that downloads an image (`src/tools/fwu.py`), the frames they talk in, and the
tools that sign an image (`src/tools/sbl.py` and what it uses). TLC checks the models on
small instances and TLAPS proves the properties that matter most for every
instance. `PROJECT.json` lists the components, the runs, the source lines of
every definition, the hazards and the theorems.

## 1. Inventory

### Components, their state and their operations

| component | state it keeps | operations | module |
|---|---|---|---|
| boot loader, `prod-sbl/main.c` | flash slots, bl_state, GPREGRET, GPREGRET2, RESETREAS, ACL | `main`, `bl_process`, `bl_swap`, `bl_run_app`, `bl_run_app_no_check`, `shutdown` | `Sbl` |
| state pages, `main.c:300-411` | two flash pages of words that only go from 1 to 0 | `bl_zero_split_idx`, `bl_get_state`, `bl_set_state`, erase | `BlState`, `BlPages`, `BlStateCode` |
| flash, `flash.c` | pages of words | word write, page erase | `FlashMem` |
| signature check and ratchet, `apputils.c` | none | `app_image_valid`, `app_slot_valid`, `app_type` | `AppImage`; `Sbl` (membership in `Signed`; `Ratchet`) |
| application, `prod-app/main.c` | saved response and reset reason | start, accept, reject, stop, main loop and its watchdog | `Device`, `Fwu` |
| `libsbl` | none | `sbl_run`, `sbl_rsp` | `Device` |
| download, `fwu.c` | `fwu_state`, slot1 | `fw-start`, `fw-block`, `fw-schedule`, `fwu_process` | `Fwu` (protocol), `Device` (effect on the boot loader) |
| host, `fwu.py`, `uclog.py` | what it waits for, the bytes of an unfinished frame | `txrx` and the sequence of commands, `CobsEncode`, `CobsDecode` | `Fwu`, `LogRx` |
| circular buffer, `cb.c` | bytes, read and write index | write, peek, skip | `Uart`, `LogRx` |
| UART driver, `uart.c` | `tx_active`, `panic`, events, DMA | schedule, handler, flush, panic | `Uart` (transmit), `LogRx` (receive) |
| log and frames, `log.c` | buffer, receiver state, whether output is held | log, `log_init`, `log_flush`, `log_panic`; `log_process` and its handlers | `Uart`; `LogRx` |
| `cobs.c`, `cobs.py` | none | encode, decode | `Cobs` |
| `cbor.c` | none | codec | not modelled |
| tools: `sss.py`, `gf2.py`, `zbase32.py` | none | secret sharing, base 32 | `Sss`, `Zbase32` |
| tool: `sbl.py` | key shares, certificates, image files | `keygen`, `certgen`, `sign`, `verify` | `Signing`, `AppImage` |
| tools: `ihex.py`, `fp.py`, `rel-test.py`, ... | files | formats, test scripts | not modelled |
| fault handler, no-clear memory, stack protection | - | end in a reset | a reset in `Device`, `Fault` in `Uart` |
| Nordic headers, Ed25519 | - | third party | by what the code uses of them |

### How they interact

The boot loader and the application never run at the same time. They share
flash and four registers: the application programs slot1 and calls `sbl_run`,
which writes a command to GPREGRET and resets the chip; the boot loader answers
in GPREGRET2. Nearly every branch of `bl_process` ends by writing registers and one
word of the state pages, and then restarts the chip: *the boot loader makes
progress by resetting itself*, and a reset from outside can fall between any
two of its effects.

The host sends commands in frames over the UART; the application answers them
in its main loop, which also feeds the watchdog that the boot loader has started
and nobody can stop. Log lines and answers go out through a circular buffer
that the main loop fills, an interrupt handler empties and a DMA reads. Bytes
come in through another that a DMA fills on its own, an interrupt handler
counts and the main loop empties, frame by frame.

An image gets to the device through files: `sbl.py` splits a key into shares of
which a quorum is needed, makes certificates with the joined key, and signs the
image; the boot loader checks the result with nothing but the root key.

### What is hard here, and what makes it right

* **Resets everywhere.** A swap of two images is thousands of writes and
  erases; power may go in any of them. Right means: the device always ends up
  running an image that was valid, the one being replaced is not lost before it
  is accepted, and an older image never replaces an accepted newer one.
* **Torn words.** What an interrupted write or erase leaves must be found and
  repaired, and the state itself is kept in such words.
* **Registers that survive some resets and not others**: GPREGRET is cleared by
  pin, power and watchdog resets and kept by soft ones; RESETREAS accumulates.
* **Sequences over many resets**: install, trial, accept, install again; reject;
  a new install requested on trial; wake-up from System OFF in any of them.
* **A protocol without sequence numbers**, a host that times out, and an erase
  that takes longer than the watchdog allows.
* **Interrupt handler, main loop and DMA** on one buffer without locks, and a
  panic that takes it over.
* **Frames in pieces**: chunks that end anywhere, bytes lost, altered or not
  counted, frames longer than the buffer, an answer encoded into the buffer it
  lies in. Right means: a handler sees exactly the frames that came, and the
  receiver finds its way back after every damage.
* **Two programs that check an image** and one that signs it without checking:
  what is signed in order must be accepted by both, and nothing else.

`hazards` in `PROJECT.json` has each with its line and the properties that
watch it, or why none does.

## 2. Modules

```
FlashMem  BlStateCode ----> BlPages <== BlState <-- MCBlState, BlStateProofs
     \     /                   ^
      v   v                    ||  (UsesStatePages)
       Sbl --> Device ==========  ==> Update  (ImplementsUpdate)
                 |---> MCDevice
                 |---> DeviceProofs --> UpdateProofs
Uart --> MCUart, UartProofs          Fwu --> MCFwu, FwuProofs
Cobs --> CobsProofs --> LogRxProofs
Cobs --> LogRx --> MCLogRx, LogRxProofs
Sss, Zbase32, AppImage --> Signing --> MCSigning, SigningProofs
```

`-->` is EXTENDS, `==>` implements (by refinement).

**FlashMem** - pages of words. A word is `Erased`, a value, or `Junk` (neither
erased nor right). An operation completes, or a reset leaves one of the values
in `TornErase` or `TornWrite`.

**BlStateCode** - the enumeration `bl_state_e` as numbers (`RUN`,
`RESTORE_0`, ... depend on `MaxSwapPages` as in the C code) and the decoding
`bl_get_state` on a summary of a page: how many words are written and whether
`bl_zero_split_idx` rejects the page. **BlState** has the words themselves,
with writes of single words and erases that a reset cuts short. **BlPages** lies
between: what the boot loader does to the summaries. `BlState` implements
`BlPages` (`ImplementsPages`, proved), and `Device` uses the pages as `BlPages`
says (`UsesStatePages`, proved); so the summary in the big model is justified
from both sides.

**Sbl** - the boot loader. `pc` is the place in the code; each action is one
effect that a reset can separate from the next. The actions carry the names of
the branches: `IdleInstall`, `InstallStart`, `SwapErase1`, ..., `RestoreCopy`,
`ToIdleChain`. The loops' indices are not kept: a copy loop's next effect is at
the first word that differs, which is where the code finds it when it starts
over. A copy loop that meets a word that is neither erased nor right erases the
page and restarts, as the code does.

**Device** - the boot loader composed with the application: start and
`sbl_rsp`, accept (erase of the first page of slot1), a download page by page,
`sbl_run`, System OFF and wake-up, and `Crash`, a reset of any kind in
`ResetKinds` before any step. `accepted` and `tried` are history variables.

**Update** - the promise: one current image, an install that replaces it in one
step, a trial that is settled or taken back. `Device` maps to it with
`CurrentImage` and `FallbackImage`: during a swap the new image is put together
from both slots, wherever its pages are.

**Uart** - log output. The program (`Write`, `Publish`, `LogInit`, `Check`,
`Start`, `Flush`), the handler (`HandlerEndTx`, `HandlerTxStopped`), which preempts the
program at any of its steps, and the UARTE (`SendByte`, `EndTx`, `Stopped`).
After a `Fault`, `uart_tx_panic` polls. A byte is its number in the order of
writing, so that "once and in order" is a property of one step.

**Fwu** - a download: `fwu.py`, two queues of frames, `fwu.c`, and the watchdog.
Time is counted in erases of a page. `trouble`, chosen at the start, says what
may go wrong in a behaviour: frames lost or, as they have no checksum, arriving
with arguments that do not decode (`Damage`); a host that gives up before the answer
comes, resets from outside; the watchdog is always there. What happens to the
image after `fw-schedule` is one step here: `Device` has it in full.

**Cobs** - byte stuffing. `EncStep` and `DecStep` are one round of the loops of
`cobs.c`, on a record of their variables and the memory they work in, so that
encoding and decoding in place is what the C code does and not a function of a
sequence; `PyEnc` and `PyDec` are `tools/cobs.py`, as functions from a place in the
data to what is encoded or decoded from there on.

**LogRx** - frames from the host to a handler and back. `Deliver` and `Damage`
put a byte into the ring wherever the DMA is and raise `RXDRDY`, which is one
event however often it is raised; `OnRxdRdy` counts one byte. `SkipZero`,
`BeginFrame`, `More` and `EndFrame` are what `log_process_internal` does after
each of its waits; `EndFrame` has the decoder, the call of the handler and its
answer (`Respond`). `HostReceive` is `CobsDecode` on what one `recv()` returned;
`FramesIn` are the parts between zeros that its loop splits off.
`stream`, `due`, `calls` and `replies` are history.

**Sss** and **Zbase32** - the field, splitting and joining, and text, with a
number as the set of the positions of its one bits. **AppImage** - the signature
block: `AppImageValid` and `AppSlotValid` of the boot loader next to `Verify` of
`sbl.py`. A signature is the record of the key and of what was signed, which is
what Ed25519 promises. **Signing** - the tool: `Keygen`, `LoadSplits` with any
shares, `CertgenPrimary`, `CertgenSecondary` and `Sign` with any key,
certificate and date, and `Install`, the boot loader's verdict. Device takes
"valid" and the dates from here: `Sbl!Signed` is the set of images `AppImageValid`
accepts and `Sbl!Ratchet` the comparison of `AppSlotValid`.

The definitions with `Bug` in their names are variants with a plausible mistake
that show that a property notices it; no specification uses them.

## 3. Runs

| run | module, cfg | properties |
|---|---|---|
| `update` | `MCDevice_update` | TypeOK, NeverBricked, AcceptedIsFinal, AppConfined, OneTrial, RspTruthful, Settles |
| `fault` | `MCDevice_fault` | Recoverable, SwapPreserves, LockedUntouched, UsesStatePages, ImplementsUpdate |
| `answer` | `MCDevice_answer` | InstallAnswered, RejectRestores |
| `state_pages` | `MCBlState` | ImplementsPages, StateAdvances, MarkGuards |
| `log_output` | `MCUart` | TypeOK, TransmitterOwned, BufferTold, InOrder, StartsWhenStopped, FlushDrains, EverythingSent, PanicEnds |
| `download` | `MCFwu` | TypeOK, OnlyWhole, DoneIsTaken, ProgramsErased, RetriesSucceed |
| `frames` | `MCLogRx` | TypeOK, RingTold, CallsMatchStream, AnswersTrue, PeekStays, FramesServed |
| `signing` | `MCSigning` | Quorum, AcceptedIffOrderly, DamageRefused, ToolAgrees |
| `torn_state`, `run_app`, `buffer_room`, `start_answered` | | one each, violated: section 5 |

### Bounds

*Device*: two pages per slot, two words per page, `MaxSwapPages` 3. Two pages
are the least with a page already swapped beside one still to swap, and with
the overlap that makes the swap delicate (page n + 1 of slot1 moves to page n of
slot0, page n of slot1 takes the old one); two words are the least in which a
copy stops halfway in a page; `MaxSwapPages` above the slot's pages exercises
the counting past its end (`SwapSkip`). Every image has a word in common with
the others and one that is erased, so that the copy loops skip words.
`update` has three images, two of them on either side of the ratchet, `fault`
two and more kinds of resets. Resets and torn operations are not bounded: any
number may come, also in the middle of a recovery. A power-on reset does to the
registers what a pin reset does, so the runs have only one of the two.

*BlState*: one page to swap, pages of eight words, every prefix of interrupted
writes and erases.

*Uart*: a buffer of five bytes and twelve bytes written (`MaxBytes`), so the
indices wrap around twice; messages of one to four bytes (`MaxMessage`) fill it.
In `log_output`, `Room = "sent"`: the program never has more unsent bytes than
the buffer holds. Nothing in the code makes sure of that (section 5); it is
what a log that is not flooded is like. A fault strikes at any place but
between `tx_active = true` and `STARTTX` and inside the handler (`FaultAt`);
there `uart_tx_panic` would wait for an event that never comes, until the
watchdog resets the device.

*Fwu*: a slot of three pages; files that fill it with and without a short last
block, one that does not fit and one that is not of whole words, which `fw-block`
refuses; a watchdog that allows two of the three erases
(`WdtPages` 3), so that a full slot always needs a second attempt; three frames
on their way when `fwu.py` is started (`MaxFrames`), enough for an abandoned run
to leave two answers behind. `start_answered` has the real numbers: 121 pages, 57
erases of 87.5 ms in 5 s, 11 in the second between two feeds.

*LogRx*: bytes of three bits, so a block has six bytes and not 254 and the case
of a full block is within reach; a ring of four (`RxSize`, in the application 1600)
that all frames but one go around more than once, so that a frame is cut anywhere
(the invariants also hold with a ring of 16); a buffer of thirteen, exactly as tight as
`sizeof(log_data.buf)` is for the longest answer (`EncSize(MaxPacket + 1) + 2`).
Payloads: one with a zero, one that fills a block, one too long whose part that
fits would decode, one for a port without a handler. Two frames (`MaxFrames`)
and one byte altered, lost or counted with another (`MaxTrouble`): damage to the
first frame, to its zeros, or to the second. The device never falls a whole ring
behind (guard of `Receive`): nothing in the code prevents that, and at one
megabaud the ring of the applications lasts for a burst only; the loss is then
the same as that of a damaged frame, but for what a lapped reader sees twice.
The host reads up to two bytes at once (`HostChunk`), and never as much as
`CobsDecode` cuts off (`HostMax`, section 5).

*Signing*: the field of eight elements with every polynomial over it, quorums of
two and three out of four shares, and all sets of shares joined, also one share
twice; bytes of three bits in characters of two, which like eight in five leave
bits over. `MCSigning` also has TLC evaluate the hypotheses of `AnyQuorumJoins` for
this field (`MCField`). Slots of two words, a code that leaves room, one whose last word looks
erased, one too long. Text is what begins at a word (`WhatAt`): codes without one, with
one of no type and with one too long cannot be signed (`Signable`), but a signed image may be
altered to have theirs. Two dates (`MaxDate`) tell "before" from "not before", and
a third stands for erased. What has been typed in, made or signed may be made
again at any time; only `Keygen` and `LoadSplits` happen once.

### Fairness

* `Device!FairSpec`: weak fairness of the boot loader as a whole and of the
  start of the application and the erase loop of `fw-start`: both run without
  waiting for anything. Commands, resets and wake-ups need not come.
  `Settles` speaks of behaviours in which resets from outside end, `answer` has
  none.
* `Uart!FairSpec`: the UARTE sends, a pending interrupt is taken (the handler
  has priority, the program enables it), the program finishes what it has
  begun. It need not write, flush or fail.
* `LogRx!Spec`: a raised `RXDRDY` is taken and the main loop calls
  `log_process` again and again. The host need not send, and nobody need listen.
* `Fwu!FairSpec`: the device runs on, its main loop feeds the watchdog, the host
  takes an answer or gives up, and *its user runs it again*: `RetriesSucceed`
  is about that user. Only the behaviours without trouble are asked to succeed, and
  only files of whole words; the watchdog's resets are in them.

### What the passing runs show

With writes and erases of the slots and erases of the state pages interrupted
anywhere, and state words written whole, the device never reaches `shutdown()`
or jumps to an invalid image; no step loses a page of either image; it
implements `Update`. It comes to run an application once resets end. With
watchdog, pin and power resets, an image on trial runs once and the response the
application reads is true.

Two things need that restriction and are listed as hazards. A *soft* reset (a
fault in the boot loader) between `bl_set_cmd` and `bl_set_state` keeps the
command and so runs an image on trial that is not yet marked as tried:
`OneTrial` and `RspTruthful` do not hold with soft resets, which is why they are
in `update` and not in `fault`. And two interruptions in a row, of a state word
and then of the erase that clears it, leave a state page that may read as
anything; `StateAdvances` covers single ones up to `ERROR`.

`Fwu` shows that the lack of sequence numbers is harmless as long as either no
frame is lost or damaged or no answer of an abandoned run is still to come. With both, a
late answer can hide a lost block, and `fw-schedule` is accepted with a hole in
the file; the signature check then is what stops it. `OnlyWhole` names this
exception.

`LogRx` shows that a handler is called for exactly the frames in the bytes that
were taken, as `tools/cobs.py` decodes them, and that the next frame after any
damage is handled, because the zero that ends a frame stays in the ring and
begins the next. A byte that was not counted shifts nothing, since DMA and
reader agree on the place of every byte (`RingTold`); it only keeps the last bytes unseen
until as many more arrive, which a frame that is waited for will not
(`FramesServed` has `missed` in its premise for that).

`Signing` shows that any quorum of shares joins to the key and one share less
never does, which is why `randpoly` draws again when the last coefficient is
zero; that the boot loader accepts exactly what was signed with keys, chain and
dates in order and fits; that nothing in a valid slot can be altered or
exchanged; and that `sbl.py verify` differs from the boot loader in two cases
only, an image too long for the slot, which it cannot know, and a file with words
after its end that look erased in flash.

## 4. Proofs

Checked by TLAPS, for every value of the constants that the modules' ASSUMEs
allow: slots, pages, words, images, buffers, files, keys and dates of any number
and size. A hypothesis beyond these stands in the theorem and is named here.

### Boot loader and application

* `DeviceProofs!TypeCorrect`: `Spec => [](TypeOK /\ AppRunsValid)`. `TypeOK`
  alone is not inductive: `accepted \in Nat` takes the header of slot0, so slot0
  has to be a valid image while the application runs (`AppRunsValid`), which
  the jump in `BlRunApp` checks.
* `ApplicationConfined` (`[]AppConfined /\ AppKeeps`) and `LocksRespected`
  (`LockedUntouched`), from `LocksHold`: what is locked at each place of the two
  programs. `AppConfined` is about the ACL regions; `AppKeeps` adds that no step
  taken while the application runs, a reset included, changes slot0 or the state
  pages.
* `PagesUsed` (`UsesStatePages`): every step of the device is one of `BlPages` or
  leaves the pages alone. `PlacesTell` says at which places an erase of a state
  page has begun and not ended.
* `DeviceProofs!AlwaysRecoverable`: `[]Recoverable`, and from it
  `NeverBricks` and `SwapPreservesImages`. They assume that a reset does not
  tear the write of a state word (`"write" \notin TornState`), which is the
  assumption `main.c:39-43` makes and the run `torn_state` shows to be needed.
  `NeverBricked` is about a jump taken from a few places; why those are never
  reached at the wrong time is the invariant. While pages are moving (a swap is
  recorded, or slot0 is not valid) no command is stored, RESETREAS has no OFF
  bit, and the boot loader is at one of five places (`MovingUndisturbed`); in a
  swap both images can be put together again (`SwapRecoverable`), in a restore
  the old one lies in slot1 whole (`RestoreRecoverable`); the state pages are
  never ambiguous (`StatePagesGuarded`): when page 0 reads as an error, page 1 is
  marked and tells that it was being erased. `LabelsAgree` says what each place relies on.
  TLC checks the same formula in the run `fault`; the proof has a lemma per
  group of actions and, for each, the conjuncts it can disturb.
* `UpdateProofs!ImplementsAbstractUpdate`: `Spec => ImplementsUpdate`, the whole
  device implements `Update`. `CurrentImage` and `FallbackImage` are computed from
  both slots and the state, so most of the proof is that moving a page, tearing
  it or copying it again leaves both as they are. The invariant is
  `Recoverable` and `DownloadErased`: once a download has begun, the first page of
  slot1 is erased. On top of it `NoRollback`
  (`[]AcceptedIsFinal`): no image older than the accepted one becomes
  current, from `NotBelow` on both images; for release builds (`~TargetDev`),
  since others may be downgraded.
* `UpdateProofs!ResponsesTruthful` (`RspTruthful`) and `TrialRunsOnce`
  (`OneTrial`, for release builds): `CommandsAgree`, `RunOnce` and
  `ResponseAgrees` say at which places GPREGRET and GPREGRET2 may hold what,
  across the resets between the three effects that end a branch of `bl_process`.
  They assume no soft resets from outside the code and no `RUN_APP` from the
  application, for the two reasons in sections 3 and 5: without either, TLC
  refutes them.

`ImplementsAbstractUpdate` and `NoRollback` assume `FirstPageTells`: no word of
the first page of an image looks erased or like what an interruption leaves.
The proof needed it, and TLC shows why: with an image whose first page has an
erased word, accept it and interrupt the erase of the first page of slot1 in a
way that changes only that word. The fallback is gone, and the trial settled; the
next trial takes the settled image as its fallback. If a second such
interruption restores the word, the image that was given up is back. It takes a soft
reset in the one place named above, and two interruptions of the same erase
with opposite effects on one word, so nothing is to be done about it, but the
promise does not hold without saying so. The images of the runs satisfy it, which
`MCDevice` asserts.

### State pages

* `BlStateProofs`: `WordsImplementPages`, `StateAlwaysAdvances`,
  `MarkAlwaysGuards`, for words, writes and erases torn in any way. The
  inductive invariant needs little: words keep their type, the two erases begin
  in `ERROR` or `TO_IDLE` only, and page 1 is erased when page 0 is already clear.
  The work is in the lemmas about a page: from which words `bl_zero_split_idx`
  reads what, and what a word written or lost does to it. The refinement mapping is the summary of a page; a lemma per operation shows
  that summarising the words after it is the operation on the summary.

The chain is closed: `BlState` implements `BlPages`, `Device` uses its pages as
`BlPages` says, and implements `Update`; so the promise of `Update` is one about
the words in flash.

### Log output and frames

* `UartProofs`: `TypeCorrect`, `AlwaysOwned` and `NeverStartedTwice` for every
  program, also one that overruns the buffer and one that panics.
  `TransmitterOwned` is the inductive invariant: `tx_active`, the places of
  program, handler and panic, the state of the UARTE and the pending events
  leave at most one of them that may start it, and one event that will
  return it. `BufferHoldsUnsent`, `BytesInOrder` and `FlushLosesNothing` assume a
  program that waits for room among the bytes not yet *sent* (`Room = "sent"`);
  with less they are false (`buffer_room`). `BufferTold` says which slot of the
  buffer or of the DMA has which byte; bytes apart by less than the size of the
  buffer are in different slots.
* `LogRxProofs`: `SeesWhatArrived` (`[]RingTold`) and `LooksTwice`
  (`PeekStays`), for a ring of any size and whatever is sent, altered, lost or not
  counted. Between `read` and the DMA lie the bytes that arrived and were not
  taken (`Behind`), the last of them uncounted (`Unseen`, one if the event is
  pending and one for every byte missed); as `Behind` is less than the size of the
  ring, write index and DMA are `read` plus these counts, wrapped, and no byte
  overwrites another (`RingInv`).
* `CobsProofs!EncodesInPlace` and `DecodesInPlace`: what the comment of
  `cobs.c:17-25` says of working in place, for data of every length. Encoding,
  the writer is as many bytes behind as full blocks may still cost (`Filling`);
  decoding, it is behind by at least the code of the block. The first needs the
  input `cobs_enc_size() - n` bytes further up, as the comment says, and also
  `n > 0` and one byte more in the memory: after a full block the next is begun
  even if nothing follows, and then a 1 is written behind the
  `cobs_enc_size()` bytes. `log.c` has that byte, for the zero at the end.
* `CobsProofs!DecodersAgree`: `cobs_dec` in place and `dec` of `tools/cobs.py`
  decode the same bytes from what has no zero in it, and `cobs_dec` returns -2 just
  when the last block is not all there (`WellFormed`), where `dec` decodes what it
  finds. `ScanStep` is what both do with one byte; `cobs_dec` does it round by round
  in memory (`DecStepLooks`), and `dec`, which is called for the rest of the data,
  gives from each place what the scan gives from there to the end (`PyFollows`).
* `CobsProofs!RoundTrip`: what `cobs_enc` wrote is well formed, without a zero, and
  decodes to the data, under the conditions of `EncodesInPlace`. The induction
  hypothesis (`EncodedSo`) is that the finished blocks scan to the data
  encoded in them, and that the open one has the bytes after its code.
* `CobsProofs!HostRoundTrip`: so is what `enc` of `tools/cobs.py` makes, for any
  data. From the last place to the first, what is encoded from there on continues
  every scan that has read the data before it (`Continues`), also where the data
  end with a full block and the added zero is left out.
* `LogRxProofs!TypeCorrect` (`[]TypeOK`): from these, and from the sizes of
  `log_data.buf`, no index and no length leaves its buffer.
* `LogRxProofs!CallsFollow` (`[]CallsMatchStream`), for every ring, packet, byte and
  line, without a further hypothesis. `CallInv` says what `log_data.buf` holds: in a
  frame, as much as fits of what no zero has ended of the bytes taken (`Open`), and
  `overrun` whether that is not all (`Keeps`); between frames, that those bytes ended
  in a zero or that a zero comes next, which is what makes the end of a frame
  that is still in the ring begin no frame of its own. When the zero comes,
  `DecodersAgree` makes the decision of the C code the one of `Wanted`.
* `LogRxProofs!WholeFramesServed`: the safety half of `FramesServed`, which is about
  time. A frame of which every byte arrived unaltered, that fits the buffer and is
  for a handler, has been handled with the payload the host sent as soon as the
  program has come past it, whatever was lost or altered before. `DueInv` says
  that such a frame lies between two zeros in the bytes that arrived (`Lies`); so
  it is among `FramesIn` (`FoundOnce`), `HostRoundTrip` says what it decodes to, and
  `CallsFollow` that it was called for. That the program comes past it stays with TLC.
* `LogRxProofs!AnswersCome` (`[]AnswersTrue`), from `HostRoom`: the longest frame
  and one piece are no more than `CobsDecode` keeps. The buffer has 1509 bytes, so
  this is so on the serial line, which is read byte by byte (1508 <= 1520); a client
  of the log server reads up to 4096 bytes at once, and there the property is false for a
  burst (section 5). `BackInv` says that what the host keeps and what is on its way
  are whole frames, none longer than the buffer; a frame is one zero-free run
  between two zeros (`ReadBetween`), and reading in pieces splits the same frames
  off (`InPieces`), so what is decoded is what `RoundTrip` promises.

All but the first are by induction over the rounds of a loop. The library's
induction theorems take an operator, which the provers cannot instantiate; but
that `<` is well-founded on `Nat` and that a set has a minimal element
(`NatLessThanWellFounded`, `WFMin`) are facts without one, and `LeastOf` and
`Climbs` make of them an induction over a *set* of rounds. It also shows that the
recursive functions exist (`EncRoundsAre`, `DecRoundsAre`, `PyEncFromIs`), those too
that look ahead in a sequence by as many places as the byte there says
(`Descends`, for `PyDecFrom` and `WellFormed`).

### Download

* `FwuProofs`: `TypeCorrect` and `ErasedBeforeProgrammed` from `SlotInv`: pages
  behind the erase and ahead of the blocks are erased, wherever a reset fell.
* `WholeOrNothing` (`[]OnlyWhole`) and `DoneMeansTaken` (`[]DoneIsTaken`) from
  `OrderInv`. Unless frames are lost *and* hosts give up, the blocks on their way,
  in order, continue what slot1 holds, and `fw-schedule` comes after the last of
  them; unless hosts give up, only one frame or answer is on its way at a time, and
  an answer is that to the frame the host waits for. Lost frames alone leave a
  host that waits; abandoned hosts alone shift the answers but not the blocks.

### Signing

* `SigningProofs`: `AcceptsWhatIsOrderly`, `AlteredIsRefused` and
  `ToolAgreesWithLoader`. `FilesInv` says that every file is what `certgen` or
  `sign` makes of some certificates, dates and the key in hand; from there it is a
  comparison of what was signed with what is checked, certificate by
  certificate, and of a slot with the file padded by erased words.
* `AnyQuorumJoins` (`[]Quorum`), for every number of shares and every quorum, from
  two hypotheses. `FieldLaws`: the products and inverses of `gf2.py` are those of a
  field, which is so if the polynomial is irreducible, as that of the code is
  (section 3 has TLC look at them for the field of eight elements, in `MCField`).
  `Powers`: each power of two is twice the one before, which the provers do not
  know of `^`. The argument has three parts.
  - The numbers `1 .. N` of the shares are different elements of the field and none
    of them zero, because numbers that agree in all bits are equal (`NumbersApart`).
  - Text: `TextKept`, that `decode(encode(b))` is `b` for bytes and characters of any
    size. `EncInv` and `DecInv` say that the bits taken so far are those given
    and those still in `v`; what is left over at the end are the zeros `encode`
    filled up with, so `decode` never says "Invalid stream". That a vault has the
    text of the shares of some polynomial `randpoly` can draw is the invariant
    (`VaultInv`).
  - Interpolation (`Interpolates`). `Divided` is the divided difference of a
    function over a set of points. That of a polynomial is its last coefficient
    over as many points as it has coefficients and zero over more
    (`DividedPoly`, by Horner's scheme and `DividedLess`: a factor `x - z` takes the
    point `z` away). What `lagrange` adds up is the value at zero plus a multiple,
    not zero, of the difference over the points and zero (`JoinDivided`). So with
    enough shares the key is what is left, and with one share less the last
    coefficient, which `randpoly` keeps from being zero, spoils it.

### Only model-checked, and why

* Liveness: `Settles`, `InstallAnswered`, `RejectRestores`, `EverythingSent`,
  `PanicEnds`, `RetriesSucceed`, `FramesServed`. The prover has no rules for
  ENABLED and fairness.
* `FieldLaws`, the hypothesis of `AnyQuorumJoins`: that the loops of `gf2.py` compute
  in a field takes residues of polynomials and Euclid's algorithm, of which the
  library has neither, and is false for a polynomial that has a factor.
* The runs of section 5, which refute.

## 5. Where code and documents disagree

* `torn_state`: the README (line 21) promises that resets at any point of an
  update are survived. A reset in the middle of the write of a *state word*
  during the swap makes `bl_get_state` return `BL_STATE_ERROR`; the state is
  erased with the slots half swapped, and the device is bricked.
* `run_app`: `doc/SblIntegration.md:28` tells an application to reject an image
  with `sbl_run(SBL_CMD_RUN_APP)`. That runs it again. `SBL_CMD_NONE`, which
  the sample application uses, rejects it (`RejectRestores`).
* `buffer_room`: `cb.c:56-59` leaves it to the caller to ask `cb_write_avail`.
  A caller that does is not safe, because `uart.c` releases bytes with `cb_skip`
  when it starts the DMA that is to read them; and `tx_buffer` does not ask.
* `start_answered`: `fwu.c:102-103` counts on an erase of up to 11.2 s; the
  watchdog of 5 s resets the device before. Pages already erased stay so, which
  is why `RetriesSucceed` holds: the user has to try three times on a full slot.

No run, but met while modelling:

* `doc/Signatures.md:66-70` wants the primary certificate *later* than the build
  date of the boot loader and the image *later* than the secondary certificate;
  the code compares the first with the date 0 (`apputils.c:63`) and the second
  with `<` (`apputils.c:246`), so that equal dates pass, in `sbl.py` as well.
* `sbl.py resplit` calls `public_key` of a `SigningKey`, which has none, and
  `split_key` without its last argument (`sbl.py:365`, `sbl.py:369`).
* `CobsDecode` cuts what it keeps to 1520 bytes before it looks for zeros
  (`uclog.py:88`): a burst of more loses whole frames that were in it, not only
  one that is too long.
* A frame has no checksum. An altered byte that leaves the blocks of a frame
  whole reaches the handler (`LogRx` has such behaviours; `CallsMatchStream` is
  about the bytes that came, not those that were sent), and `fw-block` programs
  it. The check of the signature is what refuses such an image.
* The receive buffer is big enough for the longest answer unless
  `LOG_MAX_PACKET_SIZE` is a multiple of 254 (`log.c:42`); it is 1500.

## 6. Not modelled

The random delays and repeated checks against fault injection, the debug lock
and the clearing of RAM (no effect on what is modelled); commands of the sample
application that write to locked flash on purpose (they fault); a flash operation
that fails without a reset (the NVMC does not report it and the code does not
look); bytes of a block altered on the line in `Fwu`, where damage to arguments is always
noticed by the decoder;
two writers of the log (the program logs from its main loop and the
fault handler only); a reset in the middle of `program_data` inside a page in
`Fwu` (in `Device`); the log kept over a reset, `log_save`, and the receiver
under a scheduler, which no build compiles in; `cbor.c`, a codec with no state
between calls, whose messages are records here; the prime field `fp.py`, which
no program uses; the encryption of a share with a passphrase but for its promise
to refuse what it did not make; hex files, configuration and display in the
tools. Nordic headers and Ed25519 (`ed25519_verify` is the comparison of key and content) make up most of the lines of the repository
and are taken by what the code uses of them.

## 7. Plan

Everything of the first plan is modelled but `SavedLog`, which turned out to be
compiled out, and all of its theorems are proved. What is left:

1. `Sss`: that its operations make a field of the residues (`FieldLaws`).
2. `Device`: `OneTrial` and `RspTruthful` with soft resets, but for the one place
   where they fail.
