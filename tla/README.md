# USBMIDI9 in TLA+

USBMIDI9 connects USB-MIDI devices to OMS on Classic Mac OS. This directory
holds TLA+ modules of its core, the TLC configurations that check them on small
instances, and proofs checked by TLAPS. `PROJECT.json` lists the components,
the runs, the source lines each definition stands for, the hazards, the
findings and the theorems.

## 1. The system

| part | state | operations |
|---|---|---|
| **receive ring** `classic/ring.c` | two free-running 32-bit counters, head and tail, and 4096 bytes per interface | enqueue (completion side), dequeue (client side), used, reset |
| **class driver** `classic/usb_driver.c` | a compact registry of 8 instances; each has one parameter block (PB) whose `usbRefcon` is the state machine, two allocated blocks, a call token, a nesting depth, a removal flag and an event hook | initialize, completion, notify, finalize; dispatch table: enumerate, getInfo, dequeueBytes, setEventCallback |
| **OMS driver** `oms/oms_driver.c`, `oms_rx.c`, `oms_tx.c` | `g_oms`: the cached dispatch table and the device it came by, `midiStarted`, the notification, the send routine descriptor, the receive routine, per interface a valid flag and per port a refnum, two streams and a SysEx carry | the omdv messages, the USB notification, the event hook, the send hook |
| **stream converter** `core/midi_stream.c` | per cable: an "inside SysEx" flag and a queue of 16 messages | feed a packet, take a message, encode a message |
| **packet codec** `core/packets.c` | none | decode, encode |
| **descriptors, ports** `core/descriptors.c`, `core/ports.c` | an iterator, the endpoint descriptor in force, the jack and endpoint tables, the caller's ports | a bounded walk over device descriptors, the port map |
| **Probe** `probe/probe.c` | the interface count it printed last and whether the "no driver" message is on screen; no table is kept between polls | poll, enumerate, dequeue, print |
| **pefcheck** `pefcheck/src` | none between files | PEF container, relocation, trap and export checks |

How they meet. The USB Expert calls the class driver at task time. The driver
calls the USB Services Library (USL), which runs the completion routine, at
task level or at secondary interrupt level. The completion stores what was read
in the ring and calls the event hook, which is the OMS driver's
`oms_rx_event`; that drains the ring through the dispatch table, feeds the
stream of the port and hands OMS each message. The OMS driver also drains rings
at task level, in `omdvStartMIDI2` and when it binds to a class driver, and the
Probe drains them by polling. OMS sends through the send hook, which cuts SysEx
chunks into packets. Both fragments come and go independently: the class driver
with the device, the OMS driver with OMS.

What is hard here, and where it is modelled:

- two sides of a ring without a lock, with wrapping counters: `Ring`;
- a machine that is called back by the library it calls, possibly before that
  call returns, and must advance once per call: `UsbDriver`;
- removal, preempted by completions at any point, with aborts that fail, calls
  that do not end with the pipe, slots that are compacted and reused: `UsbDriver`;
- bytes that arrive before anybody listens and must not be played later, SysEx
  runs cut by stop, start and port changes, a receive routine that is not there:
  `OmsDriver`;
- a table that dangles when the driver goes, a hook that dangles when the shim
  goes, indices that shift under the shim when one of several interfaces goes,
  things taken from the system and not given back, lookups that fail: `Shim`;
- descriptors with lengths and counts that lie: `Ports`;
- cutting SysEx runs in two grids (chunks of 1..4 bytes, packets of 3) with
  clock ticks in between and a bounded queue: `MidiLink`, `OmsTx`.

Persistence, message loss and retries over a network do not occur: nothing is
stored on disk and every call is local.

## 2. Modules

| module | models | abstraction |
|---|---|---|
| `RingQueue` | what a ring promises: an atomic FIFO queue that accepts what fits and drops the rest | the specification `Ring` implements |
| `Ring` | `um9_ring_enqueue` / `dequeue`, one step per shared access: snapshot, each byte, publication; `um9_ring_reset` while neither side is inside | `Size`, `Modulus` (2^32) and `Byte` are parameters |
| `UsbDriver` | the class driver: registry, machine, completion, hook, removal, finalize | `stack` is the processor: a frame per activation of a driver procedure; the ring contents, refcons and debug fields are left out |
| `Registry` | what the class driver promises its clients: a list of interfaces with hooks, and the removal of one | the specification `UsbDriver` implements |
| `Shim` | the OMS driver's messages and notifications and the Probe, written against `Registry`: several interfaces, one by one | each message, notification and poll is one step; rings, ports and streams are left to `OmsDriver` |
| `OmsDriver` | the receive path of the OMS driver, and as much of its life cycle as moves bytes | one device that goes as a whole; a ring is a sequence of packets; a packet is one of five kinds; one cable per interface |
| `Packets` | `core/packets.c` on bytes | none |
| `MidiStream` | `core/midi_stream.c` as operators | none |
| `MidiLink` | a transmit and a receive stream at the two ends of a cable | ticks and foreign packets at any time |
| `Descriptors` | `core/descriptors.c`: the walker and its field readers on bytes | none |
| `Ports` | `core/ports.c`: the parse and the derivation of ports, a step per turn of a loop | arrays with a count are sequences, the limits are parameters |
| `Topology` | what a parser should find in a buffer, without a walker | the reference for `Ports`; it looks descriptors up, and knows no position, flag or count |
| `OmsTx` | the send hook of one port, OMS before it and a receive stream after it | a reliable cable in the place of the transport seam |
| `Ring_proofs`, `UsbDriver_proofs`, `Shim_proofs`, `OmsDriver_proofs`, `Ports_proofs` | the theorems about the module each is named after | none: section 4 |
| `Midi_proofs` | the theorems about `MidiLink` and `OmsTx` | none: section 4 |
| `MidiStream_proofs` | lemmas about `Packets` and `MidiStream` that `Midi_proofs` rests on | none: section 4 |
| `SequenceLemmas` | no code: induction over the natural numbers, for sets, and what flattening and cutting sequences preserves | used by `OmsDriver_proofs`, `MidiStream_proofs` and `Ports_proofs` |

The `MC` modules and `.cfg` files are the instances. Definitions marked
*defective variant* are mutated forms of the definition that follows them: each
property has one that breaks it, listed under `mutants`.

**State and code.** In `UsbDriver`, `inst[s]` is
`gUSBMIDI9Instances[s]` with `pb.usbRefcon` taken apart into `stage`,
`stopped` (kReturnFromDriver) and `pending` (kCompletionPending), and `usl[s]`
is what the USL holds on its PB. A procedure that makes a USL call is several
steps, so that a completion may run between the call and its return, inside the
call, or between any two statements of the notification loop that another
activation could notice. A completion preempts task-level code and never
another completion. `heap` counts the blocks of USBAllocMem.
`Registry` knows of an instance its interface, whether it has a hook and whether
it is being removed. The mapping of `UsbDriver` drops everything else; a pass of
`USBMIDI9NotifyProc` is the flag `pass`.
In `Shim`, `oms` holds the fields of `g_oms` that refer to something outside:
`ref` is `deviceRef` and says that a table is bound, `sendUpp`, `notifier` and
`list` that the descriptor, the notification and the list handle are held.
`studio[s]` is the record at an index that is valid, by the interface it
describes. `system` counts what the system holds for the shim, `held` says that
OMS has a send procedure. `probe` is USBMIDI9ProbeState with the place of
`main`, `screen` what was printed last.
In `Ports`, `it` is um9_desc_iter, `ep` the three locals `cur_ep_*`, `info` and
`ports` the results, `cursor` the loop variables of um9_ports_from_ms. A buffer
is memory and a length, and the memory goes on behind the length, so that a read
beyond it would be possible and is not.
In `OmsDriver`, `oms` and `iface` are `g_oms`, `hook` and `ring` are the class
driver's side, `task` is the message or notification in progress, and `out` is
what the last step gave to OMS. `run[i]` (OMS is inside a run), the `age` of a
packet (it came while MIDI ran, or it lay in a ring when MIDI was started, of an
interface OMS knew or of another one) and `served[i]` (the interface was known
and hooked when MIDI was last started) are history, for properties only.
In `Ring`, `pn` and `pi` are the locals of the enqueue in progress (the bytes
it stores and how many are stored), `cn[c]` and `dst[c]` those of a dequeue of
consumer `c`, and `ret[c]` what it returned last; the bytes between `head` and
`tail` are the queue of `RingQueue`.

## 3. Runs

| run | instance | shows |
|---|---|---|
| `ring` | size 4, counters modulo 8, two byte values, requests up to 5 | counters wrap, the used count stays in bounds, unread bytes are never overwritten, and the byte-by-byte ring implements the atomic queue |
| `usb_sync` | two interfaces, two slots, nesting bound 2, every USL answer, a read abort that may fail | one call per PB, never wedged, nesting unwinds, blocks are owned and freed, reads have buffers, no push once the hook of a dying client was taken away, finalize is quiet, and `Registry` is implemented |
| `usb_removal` | the same with an asynchronous USL, under fairness | a removal that was announced ends |
| `usb_abort` | the same, an abort that may fail while the read buffer is allocated | *violation*: finalize with a call still out |
| `oms_stream` | one interface, ring of 3 packets, dequeues of 2, transfers up to 2, a receive routine and a notification that may be missing, devices added at any time | tags seen by OMS, the start discards what waited in known rings, nothing waits in them while MIDI runs |
| `shim` | four interfaces of which three fit, lookups that fail while no hook is out | hooks and tables never dangle, an event meets the record of its own interface, nothing taken from the system is lost, the Probe tells every change once |
| `ports` | 7819 buffers: NULL, every pair of 24 descriptors after the interface and every cut of the second, four typical ones in a row, prefixes with no, one or two device descriptors, and a descriptor behind the end of the interface; limits 2, 2, 2, 2, 3 | no access beyond the buffer, the parse ends, topology and ports are those of the reference |
| `oms_start` | one interface, ring of 2 | *violation*: OMS plays what came before the start, and after a restart the tail of a run that began before it |
| `oms_two_readers` | one interface, ring of 2, completions preempt the task level | *violation*: two consumers of one ring |
| `link` | queue of 3, two messages out of eight, two foreign packets | bytes kept, tags right, drops counted, accepted messages stay |
| `core_documents` | those buffers of `ports` that have two device descriptors and something behind the interface | *violation*: a buffer, and a Note On, for which none of three statements of the documents holds |
| `send_hook` | three runs of 2..11 bytes, chunks of 1..4 | runs arrive whole and end once, at most two bytes are carried, and exactly the calls that drop carried bytes are counted |

**Why the bounds are enough.** The ring needs a size of at least two requests
in part to split a copy over the end of the storage, and a modulus above its
size so that wrapped and unwrapped counters both occur: 4 and 8 do both, a
request of 5 exceeds every room. In `UsbDriver` the fifth call is the first
read, so `MaxCalls` 6 reaches the read loop and repeats it; two slots are
what compaction and reuse need; a nesting bound of 2 is reached.
In `Shim`, three slots let an interface be recorded, moved down by the
compaction twice and replaced by the fourth, with the table bound through any of
them.
In `Ports`, two descriptors after the interface reach every pair of kinds, and
four reach each limit: three jacks, three endpoints, four ports. The descriptors
include the lengths one below the one the code asks for, 0, 1 and one that
runs past the end or over its neighbours. In
`OmsDriver` a backlog of more than one dequeue (ring 3, chunk 2) makes a drain
loop, and a transfer of 2 packets contains a run, the middle of one, or parts
of two. A run of 11 bytes takes four packets, and every remainder modulo three
and modulo four occurs below it. `TokenModulus` stays above `MaxCalls`: see
section 5 for the wrap.

**Deadlock** is checked everywhere but in `link`, which stops when the bounds
on messages and foreign packets are used up.

**Fairness.** `Ports`: a parse that was entered runs (`WF` of `Step`); it is a
sequential procedure. `FairSpec` of `UsbDriver`, for `RemovalEnds`: driver code
that is running goes on (`WF` of `CpuStep`). The USL ends every call except a
read that nobody aborted, which may wait for data for ever. The Expert repeats
kNotifyDriverBeingRemoved while the answer is kUSBDeviceBusy, and calls
finalize after noErr: that is the contract notify relies on
(`usb_driver.c:586`, `docs/classic-usb-driver.md`). Nothing is assumed of the
device, of clients or of plugging.

**What the passing runs assume of the environment.** Each is a constant or a
guard, so it can be dropped:

- `AbortMayFail`: an abort fails only in the read stage, where a failing abort
  means the pipe and its read are gone. Dropped in `usb_abort`.
- `GapOpen = FALSE`: no other task-level code runs between the last notification
  and finalize (in `Shim`: nor between the announcement of a removal and the
  first notification of the driver).
  With TRUE, `ImplementsRegistry`, `FinalizeQuiet`, `OneCallPerInstance`,
  `NeverWedged`, `BlocksOwned`, `NoPushAfterUnhook` and the bound on blocks in
  `TypeOK` fail: a client may register a hook in the slot that is about to be
  freed (initialize does not clear it), and an interface initialized there is
  moved by the compaction with its call out. In `shim`, `HooksLeadToTheShim`
  fails.
- `Preempts = FALSE`: completions run at task level between messages, one of the
  two placements the driver's comments allow. With TRUE, `MidHasStart` fails in
  the two statements between a refnum and its new stream, and `StartDiscards`
  fails if the notification may be missing as well (a packet may reach a known
  ring without a hook between the discard and the start); `NothingWaits` holds.
  All this as long as no head has passed a tail, after which the model says
  nothing of that ring. Dropped in `oms_two_readers`.
- `NotifierMayFail = FALSE` in `shim`: with TRUE, `TableLoaded` fails, because a
  shim without its notification is never told that the driver goes. It is TRUE
  in `oms_stream`.
- `LookupMayFail = {FALSE}`: a lookup may fail only while the driver holds no
  hook of the shim, that is before it was found. With {TRUE, FALSE},
  `HooksLeadToTheShim` fails: a second omdvInit that does not find the driver
  again has zeroed the table it would need to take the hooks back.
- `FindsLeaving = FALSE`: an interface whose removal was announced is not found
  any more. With TRUE, `TableLoaded` fails: the shim binds to it after it was
  told that it goes.
- In `Shim`, OMS forgets its send procedure when it sends omdvInit or
  omdvDispose, and USBMIDI9ProbePoll is not interrupted by task-level code
  (it does not yield to the system, and so it is one step).
- In `OmsDriver`, OMS sends no message between the removal notification and the
  unloading of the class driver; looking up a loaded driver succeeds; a device
  comes and goes with all its interfaces (`Shim` drops the last two); transfers
  are whole packets.
- In `Ports`, the caller owns as much memory as it says (`BuffersAssumption`).
- In `OmsTx`, calls for one port do not preempt each other, and OMS begins a run
  anew after its port was reset.

## 4. Proofs

What a theorem needs of the environment is a hypothesis written in it; the
constants are otherwise arbitrary, within the assumptions of their modules.

### The ring

`Ring_proofs` proves, for every size, counter width, byte set and request size:

- `RingTypeCorrect` — `Spec => []TypeOK`;
- `RingNeverOverfull` — with one consumer the used count never exceeds the size;
- `RingUnreadKept` — no step overwrites a byte accepted and not handed over;
- `RingImplementsQueue` — with one consumer, `Ring` implements `RingQueue`.

They assume what `Ring` states of its constants (the size divides the modulus,
as a power of two below 2^32 does, and is positive) and, where the theorem says
so, `SingleConsumer`: at most one client dequeues. The ring's header demands
it, and `oms_two_readers` shows what happens without it.

`UsedBounded` alone is not inductive: a step that publishes must know that the
room or the bytes it counted before are still there. The inductive invariant
`IInv` adds three facts: *RoomStays* (what the producer counted as free is
still free, since the consumer only frees more), *BytesStay* (what the consumer
counted as stored is still stored, since the producer only adds) and
*CopiedRight* (what the consumer has copied so far is the oldest part of the
queue). Modular arithmetic on the counters is confined to lemmas on `Add`,
`Sub` and `Slot`. The refinement maps the queue to the bytes between the two
counters; only the publications and an empty dequeue are steps of `RingQueue`.

`um9_ring_reset` is a step of that proof too, taken while neither side is inside
an operation: from either side alone it would not be safe (section 5).

### The class driver

`UsbDriver_proofs` proves, for every set of interfaces, number of slots,
nesting bound, token width and both kinds of library:

- `UsbTypeCorrect`, `UsbOneCall`, `UsbNeverWedged`, `UsbDepthCounts`,
  `UsbBlocksOwned`, `UsbReadsHaveBuffers`, `UsbNoPush`, `UsbFinalizeQuiet`: the
  properties of `usb_sync` (`TypeOK`, `OneCallPerInstance`, `NeverWedged`,
  `DepthCountsNesting`, `BlocksOwned`, `ReadsHaveBuffers`,
  `NoPushAfterUnhook`, `FinalizeQuiet`);
- `UsbImplementsRegistry`: `UsbDriver` implements `Registry`, step by step, so
  that what `Shim_proofs` says of a shim written against `Registry` holds for the
  driver behind it.

All of them assume `Contract`: fewer calls than tokens (`MaxCalls + 1 <
TokenModulus`; the driver has 2^32), an abort that fails only once the read has
ended with its pipe, and no task-level code between the last notification and
finalize. Section 3 says what fails without the last two, section 5 without the
first; the second is the finding of `usb_abort`.

No property is inductive by itself, since each instance is handed around between
the USL and a stack of driver activations that may be interrupted anywhere. The
invariant `UsbInvariant` says, slot by slot, who has the parameter block: the USL
(`CallHeld`, and then it is the call the instance waits for and no frame touches
the block), a frame that goes on to use it (`Driven`), or nobody, and then the
machine has stopped or is being removed (`AtRest`). The other parts say what
each kind of frame finds (`FramesFind`), in which order frames nest (`Nested`:
a notification is at the bottom, frames above another one of the same instance
have tokens of their own), how far a notification has come (`NotifyPass`,
`Drained`), what a stage has allocated (`FieldsFollowStage`), and how many
blocks are on their way to or from the USL (`HeapCounts`). Each action has one
lemma per part it can disturb.

### The shim and the Probe

`Shim_proofs` proves, for every set of interfaces and size of the registry:

- in every environment, failing lookups, notifications and descriptors included:
  `ShimTypeCorrect`; `ShimResourcesOwned` (what the system holds for the shim is
  what the shim can give back); `ShimProbeTellsNews` (an action property);
- under `Environment` (`GapOpen`, `FindsLeaving`, `NotifierMayFail` FALSE and
  `LookupMayFail` without TRUE): `ShimHooksLead`, `ShimTableLoaded`,
  `ShimEventsMatch`, the properties `HooksLeadToTheShim`, `TableLoaded` and
  `EventsMatchStudio`. Section 3 names the property that fails without each part.

The invariant (`ShimInvariant`) adds to the properties that a live shim hears of
removals (`Informed`), that a hook is out only through the table at hand or while
the notification that takes it back is on its way (`HooksHaveReason`), and that
a removal ends with no hook left (`RemovalOrder`). Without `HooksHaveReason` a
hook might be out through a table that was given up, which is the case a second
omdvInit or an omdvDispose could not clear.

### The receive path

`OmsDriver_proofs` proves, for every number of interfaces, ring size, length of
a dequeue and of a transfer:

- `OmsTypeCorrect` and `OmsBaseInvariant`, in every environment;
- `OmsNothingWaits`, in every environment (as long as no head has passed a tail,
  where the model of a ring ends);
- `OmsStartDiscards`, unless completions preempt the task level and the
  notification may be missing as well;
- `OmsMidHasStart`, if completions do not preempt the task level.

`OmsBaseInvariant` adds to the types that an interface is valid only while a
table is bound, that the stream of an invalid one is outside of runs, and that
the drain of a binding, which has `deliver` as the caller left it, finds no valid
interface; so the only drain at task level that takes anything discards it.
`RingInv` follows the discarding drain: behind its index, and everywhere once it
is over, the rings of interfaces that are known and hooked are empty, and the
push path keeps them empty. Interfaces added later are not among those `served`,
so they need no hypothesis. `AgeInv` follows the ages: what lies in a known ring
after the start came since, or was missed because the interface was not known.
`ToldInv` says that a shim with its notification is told when the driver goes.
`RunInv` says that while MIDI runs OMS has the start of every run a
stream it wants is inside of, unless that stream is about to be reset: by
`oms_start_midi2` or by the second half of omdvSetPortReceiveRefNum.

The loop of `oms_rx_drain` runs over a backlog of any length, so these theorems
need an induction. The induction theorems of the library take an operator as a
parameter, which no installed prover instantiates; `SequenceLemmas` states the
principle for a set (a set with 0 in it and the successor of each number in it
has all natural numbers), and each use names the set of the
turns after which the claim holds. That the recursive functions `Turns` and
`Inside` are defined at all is proved the same way (`TurnsFollow`).

### The stream converter

`Midi_proofs` proves of `MidiLink`, for every queue size, cable, set of messages
(runs of every length among them), room for packets and bound:

- `LinkTypeCorrect`, `LinkAllCounted` and `LinkAcceptedStay` (an action
  property), without a hypothesis;
- `LinkTagsFrameRuns`, if the bytes after a status byte are data bytes
  (`DataBytesOnly`). `um9_tx_message` looks at the first byte, the length and,
  in SysEx, the last byte, so it accepts a message with a status byte inside, and then a
  chunk can end in F7 in the middle of a run;
- `LinkKeepsEveryByte`, if no clock tick is sent as a message: the property takes
  the ticks out by their byte. Ticks are fed as foreign packets all the same.

The messages of the run `link` meet both hypotheses.

`MidiStream_proofs` has what they rest on: decoding undoes building
(`BuildDecode`); a packet that is fed becomes the newest message or one count of
a drop (`PacketEffect`), and a message taken is the oldest of the queue, whose
places wrap around (`QueueGrows`, `QueueTaken`); a message is cut into packets
that carry its bytes and nothing else (`MessageCut`, `CutKeepsBytes`);
flattening distributes over concatenation (`FlattenConcat`). The invariants are
`LinkBase` (types and the balance of the counters), `LinkKept` (while nothing was
dropped, the bytes received followed by those on the wire are the bytes sent)
and `Framing` (each packet on the wire fits its place: the code index number of
the packet before it, or `inSysex` for the first one, says whether it is inside
a run). Drops do not disturb `Framing`, because `um9_rx_packet` moves
`in_sysex` whether or not the message finds room.

### The send hook

`Midi_proofs` proves of `OmsTx`, for every cable, runs of every length and number,
every way to cut them into chunks of one to four bytes, runs given up, ticks
between chunks and resets of the port, without a hypothesis:

- `TxTypeCorrect` — between calls at most two bytes are carried. A call adds at
  most four, so the buffer of six bytes in `oms_tx_sysex_chunk` always suffices
  and its check "cannot happen; defensive" (`oms_tx.c:110`) indeed cannot;
- `RunsArriveWhole` — the bytes heard at the far end followed by the carry are the
  bytes given of the run, and nothing is carried at its end;
- `RunsEndOnce` — the far end hears the end of a run when, and only when, all of it
  was given;
- `DropsAreCounted` (an action property) — a call is counted as malformed exactly
  when it begins a run and gives up bytes carried from the one before.

The invariant `TxInv` is the last two state properties with the types, the
first and last byte of a run, and that the far end has nothing pending. One call
is followed in two halves. `ChunkCut` says what a call makes of the carry and
the chunk together: whole triples and a rest of at most two bytes, or at an end
triples and a last packet of one to three bytes, never more than two packets,
by arithmetic on a length of at most six. `MiddleCutArrives` and
`EndCutArrives` say what the far end hears of these packets: their bytes, in
order, with an end only at the end. That `AllArrive`, a recursive function, is
defined at all is `ArrivalsExist`, by the same set induction as for the receive path.

### The parser

`Ports_proofs` proves for every buffer and every set of limits, assuming only
that the caller owns the memory it names the length of:

- `PortsInBounds` — `Spec => []InBounds`;
- `PortsWalkAdvances` — a turn of the parse loop that finds a descriptor moves
  on by two bytes at least and not past the end, which is why the parse ends;
- `PortsTypeCorrect` — no array is written past its end, by the limits
  `UM9_MAX_JACKS` and so on, whatever they are and whatever a device claims;
- `PortsMapCables` — `Spec => []MapsCables`: the ports are those of the recorded
  endpoints, cable by cable and in order, cut at the last that fits;
- `PortsFindTopology` — `Spec => []FindsTopology`: every buffer without truncated
  or zero-length descriptors is accepted, no other one is unless its interface
  has ended before, and what is recorded is what the whole descriptors of the
  first MIDIStreaming interface say. Vendor and product are those of one device
  descriptor, and of the right one if there is no choice; which one the parser
  takes otherwise, and that it does not look behind the interface, is part of
  `InfoSeen` and `Readable` in `Ports_proofs` and a finding (section 5).

The invariant of the first two adds to `InBounds` that the buffer is the
caller's, that the walker holds numbers, and that a call begins with a fresh
walker; the lemmas `HeaderInside` and `FoundInside` carry the argument: two
header bytes are read only where two bytes are left, and the length byte was
compared with what is left before it is used. `Types` bounds the arrays: a list
holds no more entries than its limit and than its descriptor (`EntriesFit`), and
`um9_ms_add_jack` and `um9_ms_add_endpoint` record nothing once the table is
full. `Mapped` relates the ports to the cursor of um9_ports_from_ms: they are
all ports of the endpoints before the current one, followed by those of its
jacks before the current one. That this is the front of all ports
(`SoFarIsFront`) is what makes stopping at `UM9_MAX_PORTS` right.

The last theorem holds the parser, which sees one descriptor at a time and keeps
`in_ms`, `cur_ep_*` and counts, against `Topology`, which cuts the buffer first
and then asks for the first descriptor of a kind, the last before a place, the
front of a list. The invariant is `Follows`: in the loop, the descriptors the
walker has passed are a front of those the reference cuts out (`Passed`), and
flag, endpoint in force and `um9_ms_info` are what the reference makes of that
front alone (`Agrees`), with the last device descriptor before the interface
(`InfoSeen`); `SeenTopology` leads from there to what ports.h says. `FindsTopology` by itself speaks of the end of a call
and says nothing there. The proof has three layers:

- the cut: `StartsExist`, by induction on what is left of the buffer, says that
  the recursive function `StartsFrom` is defined; `OnePassed` that a turn passes
  one descriptor more; `HereReads`, `HereKinds` and `EntriesAreList` that the
  bounds-checked readers give the bytes of the descriptor the reference cuts;
- the reference: what each of its operators makes of one descriptor more. Before
  the interface `DeviceGrows`, behind it `HeaderGrows`, `EndpointGrows`,
  `JacksGrow`, `FacingGrows` and `EndpointsGrow`; `BeforeGrows`, `MsFound` and
  `InsideGrows` for which of the two it is; `SameInfo` and `LeftAgrees` that what
  follows the end of the interface's part changes nothing, which is why the
  parser may stop there;
- the step: `LoopFollows`, a case for each action, and `WalkEndsFollows`, where
  the walk stops: without an error exactly at the end of the buffer.

### What stays with TLC

Liveness (`RemovalEnds`, `Terminates`) and ENABLED are out of the prover's reach.
Every invariant and every action property a passing run checks is a theorem.

## 5. Findings

- `usb_abort`: `USBMIDI9NotifyProc` clears kCompletionPending when the abort
  fails, whatever call is out. The pipe is known while the read buffer is being
  allocated, so finalize may dispose of an instance that the USL still holds.
- `oms_two_readers`: `omdvStartMIDI2` drains at task level the ring a completion
  drains at interrupt level; the head passes the tail.
- `oms_start`, twice. `omdvStartMIDI2` discards only the rings of interfaces OMS
  was told of: a device added while MIDI runs plays what it sent before MIDI was
  started, against the comment of `oms_rx_event`; `StartDiscards` says what does
  hold. And resetting `in_sysex` at the start makes the rest of a running SysEx
  run look like a new run, and it is delivered, against the comment of
  `oms_start_midi2`.
- `core_documents`, three times. `core/ports.h:66` says the vendor is that of the
  first device descriptor of the buffer; it is that of the last one before the
  interface. `core/ports.h:100` says a malformed buffer is answered with 0;
  behind the descriptor that ends the interface nothing is looked at. The CIN
  table is shifted by one from 0x5 on: the code agrees with itself (run `link`)
  and not with the packets recorded from the device.

`oms_start` and `core_documents` check several statements at once by "at least
one of them holds" (`StartAsDocumented`, `CoreAsDocumented`): the one
counterexample of each refutes every one of them. `MCOmsStart` records for that
whether OMS was given the rest of a run that began before the start, and whether
it was given a packet older than the start; in the trace TLC finds the second
happens first, by an interface added late, and the first after a stop and a start
of the same interface. In `MCDocuments` the statements are about the answer to
one buffer and about one packet.

Seen and not listed: between `inst->removing = true` and the statement that clears
the hook (`usb_driver.c:593-594`) a completion still calls the hook of an instance
that is being removed. The client is alive then, so `NoPushAfterUnhook` speaks of
what comes after the second statement, whose comment it is ("no pushes into a
dying client"), and names the window. After 2^32 calls `callToken` passes 0, the
value that means no call, and a completion that ran inside its call is then
driven a second time (`OneCallPerInstance` fails in `usb_sync` with
`TokenModulus = 4`). A SysEx run that OMS gives up leaves the far end inside a run, so the first chunk of the
next run is tagged as a middle chunk there (`OmsTx` therefore speaks of bytes
and ends, not of starts). `classic/ring.h:25` calls `um9_ring_reset` "Safe from
either side"; a reset inside a dequeue of the other side leaves the head past
the tail. The driver never calls it, and `Ring` resets only between operations.
An endpoint descriptor
that is too short leaves the previous endpoint in force, and two class-specific
descriptors for one endpoint give two ports with the same address and cable.

## 6. Not modelled

- pefcheck, a batch tool that checks built fragments on the host: its relocation
  interpreter and unpacker are worth modelling and come after the drivers. Its
  SHA-256 is a published algorithm with test vectors.
- The scripts of `tools/re`, the host-check stubs, resources and project files:
  readers, printers and declarations, with no state that outlives a call.
- `freemidi/` and `classic/usb_service.c` are empty.
- In the OMS driver: names, device records as OMS sees them, counters and the
  trace build. In the class driver: refcons, debug fields, descriptor fields. In
  the Probe: the formatting, and the bytes it takes from the rings while the shim
  drains them too (the race of `oms_two_readers` with another reader). In
  `Ports`: NULL result pointers, which return 0 at once.
- One removal notification stops every instance. `UsbDriver` does what the code
  does; the code documents it as a limit of its first milestone.
- What hazards of `PROJECT.json` no property covers, with the reason at each:
  among them the wrap of the call token, a port asked for while a completion
  preempts, a notification that cannot be installed and a lookup that fails with
  hooks out (section 3 says what fails then), what OMS does with a send procedure
  that was disposed of, and a driver gone and back between two polls.

## 7. Plan

1. *Done*: `Ring` with its proofs, `UsbDriver` and the `Registry` it implements,
   `Shim`, `OmsDriver`, `MidiStream`, `MidiLink`, `OmsTx`, `Descriptors`, `Ports`
   with the proofs of its bounds, types, topology and port map.
   Proofs of `UsbDriver` with its refinement of `Registry`, of `Shim`, of the
   receive path in `OmsDriver`, of `MidiLink` and of `OmsTx`.
2. `RelocVM` and the data unpacker of pefcheck, with the meaning of a complete
   replay.
