----------------------------- MODULE UsbDriver -----------------------------
(***************************************************************************)
(* The USBMIDI9 interface class driver, classic/usb_driver.c: the registry *)
(* of instances, the asynchronous state machine each instance runs on its  *)
(* one parameter block (PB), and the removal protocol.                     *)
(*                                                                         *)
(* Task-time code (initialize, notify, finalize and the dispatch table)    *)
(* runs one procedure at a time; completions preempt it.  `stack' is the   *)
(* processor: its first frame is running, the rest are waiting for it to   *)
(* return.  A frame is one activation of a driver procedure, and a step    *)
(* runs it up to the next point where a completion for the same PB could   *)
(* intervene: a call into the USB Services Library (USL) or its return.    *)
(*                                                                         *)
(* The USL and the USB Expert (the caller of the driver) are the           *)
(* environment.  What a ring holds never steers this machine: storing into *)
(* it and dequeuing from it are the subject of Ring.  Event refcons (no    *)
(* client reads them) and the debug fields lastReadStatus and              *)
(* lastReadCount are left out.  The definitions marked as defective        *)
(* variants are no part of the model: put in the place of the definition   *)
(* below them, they must break a property.                                 *)
(***************************************************************************)
EXTENDS Naturals, Sequences, FiniteSets

CONSTANTS
  Interfaces,     \* interface references the Expert may plug in
  NoInterface,    \* a slot never used
  MaxInterfaces,  \* kUSBMIDI9MaxInterfaces (8)
  MaxSyncDepth,   \* kUSBMIDI9MaxSyncDepth (16)
  TokenModulus,   \* callToken wraps here (2^32)
  MaxCalls,       \* bound: a device stops answering after this many calls
  SyncUSL,        \* may the USL finish a call before it returns?
  AbortMayFail,   \* stages in which USBAbortPipeByReference may fail
  GapOpen         \* may other task code run between the last
                  \* notification and finalize?

ASSUME RegistryAssumption ==
  /\ MaxInterfaces \in Nat \ {0}
  /\ NoInterface \notin Interfaces
ASSUME BoundAssumption ==
  /\ MaxSyncDepth \in Nat \ {0}
  /\ TokenModulus \in Nat \ {0}
  /\ MaxCalls \in Nat
  /\ SyncUSL \in BOOLEAN
  /\ GapOpen \in BOOLEAN

VARIABLES
  count,     \* gUSBMIDI9InstanceCount: slots 0..count-1 are alive
  inst,      \* gUSBMIDI9Instances, freed slots included
  usl,       \* usl[s]: the calls the USL holds on the PB of slot s
  heap,      \* blocks allocated by USBAllocMem and not yet freed
  stack,     \* the running procedure and those it preempted
  expert     \* the Expert: the interface being removed, and how far

vars == <<count, inst, usl, heap, stack, expert>>

Slots == 0..(MaxInterfaces - 1)
Live == {s \in Slots : s < count}

(* The stages of the machine, the low byte of pb.usbRefcon.                *)
Chain == <<"AllocRing", "ConfigureInterface", "FindBulkInPipe",
           "AllocReadBuffer", "ReadBulkInPipe">>
Stage == {Chain[k] : k \in 1..5}
AllocStage == {"AllocRing", "AllocReadBuffer"}
Reading == "ReadBulkInPipe"
StageAfter(stage) == Chain[CHOOSE k \in 2..5 : Chain[k - 1] = stage]

(* An instance: the stage and two flags of pb.usbRefcon, then the fields   *)
(* of usbmidi9_instance; ring, readBuffer and pipe say "not nil".          *)
Instance ==
  [stage : Stage, stopped : BOOLEAN, pending : BOOLEAN,
   iface : Interfaces \cup {NoInterface},
   pipe : BOOLEAN, ring : BOOLEAN, readBuffer : BOOLEAN,
   token : 0..(TokenModulus - 1), inFlight : 0..(TokenModulus - 1),
   depth : 0..MaxSyncDepth,
   removing : BOOLEAN, hook : BOOLEAN]

NeverUsed ==
  [stage |-> "AllocRing", stopped |-> FALSE, pending |-> FALSE,
   iface |-> NoInterface, pipe |-> FALSE, ring |-> FALSE,
   readBuffer |-> FALSE, token |-> 0, inFlight |-> 0,
   depth |-> 0, removing |-> FALSE, hook |-> FALSE]

NoRemoval == [phase |-> "idle", iface |-> NoInterface]

Init ==
  /\ count = 0
  /\ inst = [s \in Slots |-> NeverUsed]
  /\ usl = [s \in Slots |-> <<>>]
  /\ heap = 0
  /\ stack = <<>>
  /\ expert = NoRemoval

-----------------------------------------------------------------------------
(* Frames.                                                                 *)
Initiate(s, level) ==
  [proc |-> "Initiate", slot |-> s, level |-> level, at |-> "enter",
   token |-> 0, err |-> "none"]
Complete(s, level, status) ==
  [proc |-> "Completion", slot |-> s, level |-> level, status |-> status]
NotifyFrame(i, busy, at) ==
  [proc |-> "Notify", slot |-> i, level |-> "task", busy |-> busy, at |-> at]

Idle == stack = <<>>
Running(proc) == stack # <<>> /\ Head(stack).proc = proc
AtTaskLevel == \A k \in 1..Len(stack) : stack[k].level = "task"
Top == Head(stack)
Return == Tail(stack)
Replace(frame) == <<frame>> \o Tail(stack)
Push(frame) == <<frame>> \o stack

(* Assignments to pb.usbRefcon.                                            *)
GoTo(r, stage) == [r EXCEPT !.stage = stage, !.stopped = FALSE, !.pending = FALSE]
Stop(r) == [r EXCEPT !.stage = "AllocRing", !.stopped = TRUE, !.pending = FALSE]

(* A block the USL hands over with a successful allocation.                *)
BlockFor(stage, status) == IF stage \in AllocStage /\ status = "ok" THEN 1 ELSE 0

-----------------------------------------------------------------------------
(* USBMIDI9InitiateTransaction up to the USL call.  A removing instance    *)
(* and one nested too deeply stop here.                                    *)
InitiateRefused ==
  /\ Running("Initiate") /\ Top.at = "enter"
  /\ LET s == Top.slot IN
     /\ inst[s].removing \/ inst[s].depth = MaxSyncDepth
     /\ inst' = [inst EXCEPT ![s] = Stop(@)]
  /\ stack' = Return
  /\ UNCHANGED <<count, usl, heap, expert>>

(* What the instance looks like when the USL call is made: one level       *)
(* deeper, a fresh token, kCompletionPending set.                          *)
Issued(r) ==
  [r EXCEPT !.depth = @ + 1,
            !.token = (r.token + 1) % TokenModulus,
            !.inFlight = (r.token + 1) % TokenModulus,
            !.pending = TRUE]

AfterCall(r, err) == [Top EXCEPT !.at = "returned", !.token = Issued(r).token, !.err = err]

MayIssueOneDeeper ==                                    \* defective variant
  /\ Running("Initiate") /\ Top.at = "enter"
  /\ ~inst[Top.slot].removing
  /\ inst[Top.slot].depth <= MaxSyncDepth

MayIssue ==
  /\ Running("Initiate") /\ Top.at = "enter"
  /\ ~inst[Top.slot].removing
  /\ inst[Top.slot].depth < MaxSyncDepth

(* The USL queues the call and answers kUSBPending.                        *)
IssuePending ==
  /\ MayIssue
  /\ LET s == Top.slot IN
     /\ inst' = [inst EXCEPT ![s] = Issued(@)]
     /\ usl' = [usl EXCEPT ![s] =
          Append(@, [stage |-> inst[s].stage, iface |-> inst[s].iface, aborted |-> FALSE])]
     /\ stack' = Replace(AfterCall(inst[s], "pending"))
  /\ UNCHANGED <<count, heap, expert>>

(* The USL refuses the call: no completion will come.                      *)
IssueError ==
  /\ MayIssue
  /\ LET s == Top.slot IN
     /\ inst' = [inst EXCEPT ![s] = Issued(@)]
     /\ stack' = Replace(AfterCall(inst[s], "error"))
  /\ UNCHANGED <<count, usl, heap, expert>>

(* The USL finishes the call at once and answers kUSBNoErr without calling *)
(* the completion routine.                                                 *)
IssueDone ==
  /\ MayIssue /\ SyncUSL
  /\ LET s == Top.slot IN
     /\ inst[s].token < MaxCalls
     /\ inst' = [inst EXCEPT ![s] = Issued(@)]
     /\ heap' = heap + BlockFor(inst[s].stage, "ok")
     /\ stack' = Replace(AfterCall(inst[s], "ok"))
  /\ UNCHANGED <<count, usl, expert>>

ReadStatus == {"ok", "empty", "stall", "error"}
StatusOf(stage) == IF stage = Reading THEN ReadStatus ELSE {"ok", "error"}

(* The device keeps answering only within the bound on calls.              *)
Answers(s, status) == status # "error" => inst[s].token < MaxCalls

(* The USL runs the completion routine inside the call, then answers       *)
(* kUSBNoErr or kUSBPending.                                               *)
IssueCompletesInside(status, err) ==
  /\ MayIssue /\ SyncUSL
  /\ LET s == Top.slot IN
     /\ status \in StatusOf(inst[s].stage)
     /\ Answers(s, status)
     /\ inst' = [inst EXCEPT ![s] = Issued(@)]
     /\ heap' = heap + BlockFor(inst[s].stage, status)
     /\ stack' = <<Complete(s, Top.level, status)>> \o Replace(AfterCall(inst[s], err))
  /\ UNCHANGED <<count, usl, expert>>

(* The rest of USBMIDI9InitiateTransaction, after the USL call returned.   *)
(* ReturnedStop: an immediate error stops the machine, unless a completion *)
(* already ran.  ReturnedDrive: a success nobody reported is driven as a   *)
(* completion.  ReturnedNothing: every other answer.                       *)
UnreportedAlways == TRUE                                \* defective variant
Unreported == inst[Top.slot].inFlight = Top.token

InitiateReturned == Running("Initiate") /\ Top.at = "returned"

LeaveInitiate(r) == [r EXCEPT !.depth = @ - 1]

ReturnedStopStaysDeep ==                                \* defective variant
  /\ InitiateReturned /\ Top.err = "error" /\ Unreported
  /\ inst' = [inst EXCEPT ![Top.slot] = Stop(@)]
  /\ stack' = Return
  /\ UNCHANGED <<count, usl, heap, expert>>

ReturnedStop ==
  /\ InitiateReturned /\ Top.err = "error" /\ Unreported
  /\ inst' = [inst EXCEPT ![Top.slot] = LeaveInitiate(Stop(@))]
  /\ stack' = Return
  /\ UNCHANGED <<count, usl, heap, expert>>

DriveNeverNeeded == FALSE                               \* defective variant
DriveNeeded == Top.err = "ok" /\ Unreported /\ ~inst[Top.slot].stopped

ReturnedDrive ==
  /\ InitiateReturned /\ DriveNeeded
  /\ inst' = [inst EXCEPT ![Top.slot].pending = FALSE]
  /\ LET status == IF inst[Top.slot].stage = Reading THEN "empty" ELSE "ok"
     IN  stack' = <<Complete(Top.slot, Top.level, status)>>
                  \o Replace([Top EXCEPT !.at = "leave"])
  /\ UNCHANGED <<count, usl, heap, expert>>

ReturnedNothing ==
  /\ InitiateReturned /\ ~DriveNeeded
  /\ ~(Top.err = "error" /\ Unreported)
  /\ inst' = [inst EXCEPT ![Top.slot] = LeaveInitiate(@)]
  /\ stack' = Return
  /\ UNCHANGED <<count, usl, heap, expert>>

InitiateLeaves ==
  /\ Running("Initiate") /\ Top.at = "leave"
  /\ inst' = [inst EXCEPT ![Top.slot] = LeaveInitiate(@)]
  /\ stack' = Return
  /\ UNCHANGED <<count, usl, heap, expert>>

-----------------------------------------------------------------------------
(* USBMIDI9CompletionProc: what one completed call does to the instance.   *)
(* The stage is the one in usbRefcon now, whatever call completed.         *)
Store(r) ==
  [r EXCEPT !.ring = @ \/ r.stage = "AllocRing",
            !.pipe = @ \/ r.stage = "FindBulkInPipe",
            !.readBuffer = @ \/ r.stage = "AllocReadBuffer"]

AdvanceWithoutBuffer(r, status) ==                      \* defective variant
  LET done == [r EXCEPT !.inFlight = 0] IN
  IF r.stage \in {Reading, "AllocReadBuffer"} THEN GoTo(done, Reading)
  ELSE IF status = "ok" THEN GoTo(Store(done), StageAfter(r.stage))
       ELSE Stop(done)

Advance(r, status) ==
  LET done == [r EXCEPT !.inFlight = 0] IN
  IF r.stage = Reading
  THEN IF status = "error" THEN Stop(done) ELSE GoTo(done, Reading)
  ELSE IF status = "ok" THEN GoTo(Store(done), StageAfter(r.stage))
       ELSE Stop(done)

(* The routine ends by running the machine again, unless it stopped or     *)
(* the instance is being removed.                                          *)
CompletionProc ==
  /\ Running("Completion")
  /\ LET s == Top.slot
         r == Advance(inst[s], Top.status) IN
     /\ inst' = [inst EXCEPT ![s] = r]
     /\ stack' = IF r.stopped \/ r.removing THEN Return
                 ELSE Replace(Initiate(s, Top.level))
  /\ UNCHANGED <<count, usl, heap, expert>>

(* A call the USL holds completes; the completion routine preempts         *)
(* whatever task-time code runs, and no other completion.                  *)
CallCompletes(s, status) ==
  /\ AtTaskLevel
  /\ usl[s] # <<>>
  /\ LET call == Head(usl[s]) IN
     /\ status \in IF call.aborted THEN {"error"} ELSE StatusOf(call.stage)
     /\ Answers(s, status)
     /\ heap' = heap + BlockFor(call.stage, status)
  /\ usl' = [usl EXCEPT ![s] = Tail(@)]
  /\ stack' = Push(Complete(s, "interrupt", status))
  /\ UNCHANGED <<count, inst, expert>>

-----------------------------------------------------------------------------
(* USBMIDI9InitializeInterfaceProc, for an interface that matches.  Every  *)
(* field is set but the event hook; a full registry declines.              *)
Fresh(r, i) == [NeverUsed EXCEPT !.iface = i, !.hook = r.hook]

Attached == {inst[s].iface : s \in Live}

MayRun == Idle /\ (GapOpen \/ expert.phase # "drained")

InitializeInterface(i) ==
  /\ MayRun
  /\ i \notin Attached
  /\ count < MaxInterfaces
  /\ count' = count + 1
  /\ inst' = [inst EXCEPT ![count] = Fresh(@, i)]
  /\ stack' = Push(Initiate(count, "task"))
  /\ UNCHANGED <<usl, heap, expert>>

(* SetEventCallback: a client registers its hook, or clears it.  The store *)
(* of the callback is the commit point.                                    *)
SetEventCallback(s, hook) ==
  /\ MayRun
  /\ s \in Live
  /\ inst' = [inst EXCEPT ![s].hook = hook]
  /\ UNCHANGED <<count, usl, heap, stack, expert>>

-----------------------------------------------------------------------------
(* The Expert sees an interface go and starts to remove its driver.        *)
Unplug(i) ==
  /\ expert.phase = "idle"
  /\ i \in Attached
  /\ expert' = [phase |-> "announced", iface |-> i]
  /\ UNCHANGED <<count, inst, usl, heap, stack>>

(* It sends kNotifyDriverBeingRemoved, again and again until the answer is *)
(* noErr: USBMIDI9NotifyProc, one instance after the other.                *)
Notify ==
  /\ Idle
  /\ expert.phase \in {"announced", "notifying"}
  /\ expert' = [expert EXCEPT !.phase = "notifying"]
  /\ stack' = Push(NotifyFrame(0, FALSE, "mark"))
  /\ UNCHANGED <<count, inst, usl, heap>>

NextInstance(busy) == Replace(NotifyFrame(Top.slot + 1, busy, "mark"))

NotifyMark ==
  /\ Running("Notify") /\ Top.at = "mark"
  /\ Top.slot < count
  /\ inst' = [inst EXCEPT ![Top.slot].removing = TRUE]
  /\ stack' = Replace([Top EXCEPT !.at = "hook"])
  /\ UNCHANGED <<count, usl, heap, expert>>

(* The next statement takes the hook away; a completion that comes between *)
(* the two still finds it.                                                 *)
NotifyUnhookForgets ==                                  \* defective variant
  /\ Running("Notify") /\ Top.at = "hook"
  /\ stack' = Replace([Top EXCEPT !.at = "test"])
  /\ UNCHANGED <<count, inst, usl, heap, expert>>

NotifyUnhook ==
  /\ Running("Notify") /\ Top.at = "hook"
  /\ inst' = [inst EXCEPT ![Top.slot].hook = FALSE]
  /\ stack' = Replace([Top EXCEPT !.at = "test"])
  /\ UNCHANGED <<count, usl, heap, expert>>

NotifyTestOnlyPipe ==                                   \* defective variant
  /\ Running("Notify") /\ Top.at = "test"
  /\ LET r == inst[Top.slot] IN
     stack' = IF r.pending /\ r.pipe THEN Replace([Top EXCEPT !.at = "abort"])
              ELSE NextInstance(Top.busy)
  /\ UNCHANGED <<count, inst, usl, heap, expert>>

NotifyTest ==
  /\ Running("Notify") /\ Top.at = "test"
  /\ LET r == inst[Top.slot] IN
     stack' = IF r.pending /\ r.pipe THEN Replace([Top EXCEPT !.at = "abort"])
              ELSE NextInstance(Top.busy \/ r.pending)
  /\ UNCHANGED <<count, inst, usl, heap, expert>>

(* The abort makes the USL complete a pending read with an error.          *)
AbortedCall(call) == [call EXCEPT !.aborted = @ \/ call.stage = Reading]

NotifyAbort ==
  /\ Running("Notify") /\ Top.at = "abort"
  /\ usl' = [usl EXCEPT ![Top.slot] = [k \in 1..Len(@) |-> AbortedCall(@[k])]]
  /\ stack' = NextInstance(TRUE)
  /\ UNCHANGED <<count, inst, heap, expert>>

(* A failing abort: the pipe is gone and a read on it with it; a call that *)
(* does not use the pipe is still held.                                    *)
WithoutRead(calls) ==
  IF calls # <<>> /\ Head(calls).stage = Reading THEN Tail(calls) ELSE calls

NotifyAbortFails ==
  /\ Running("Notify") /\ Top.at = "abort"
  /\ inst[Top.slot].stage \in AbortMayFail
  /\ usl' = [usl EXCEPT ![Top.slot] = WithoutRead(@)]
  /\ stack' = Replace([Top EXCEPT !.at = "clear"])
  /\ UNCHANGED <<count, inst, heap, expert>>

NotifyClearForgets ==                                   \* defective variant
  /\ Running("Notify") /\ Top.at = "clear"
  /\ stack' = NextInstance(TRUE)
  /\ UNCHANGED <<count, inst, usl, heap, expert>>

NotifyClear ==
  /\ Running("Notify") /\ Top.at = "clear"
  /\ inst' = [inst EXCEPT ![Top.slot].pending = FALSE]
  /\ stack' = NextInstance(TRUE)
  /\ UNCHANGED <<count, usl, heap, expert>>

NotifyReturn ==
  /\ Running("Notify") /\ Top.at = "mark"
  /\ Top.slot = count
  /\ expert' = IF Top.busy THEN expert ELSE [expert EXCEPT !.phase = "drained"]
  /\ stack' = Return
  /\ UNCHANGED <<count, inst, usl, heap>>

(* USBMIDI9FinalizeProc and USBMIDI9DisposeInstance: free the two blocks   *)
(* (which resets usbRefcon) and move the last instance into the slot.      *)
Disposed(r) ==
  [r EXCEPT !.ring = FALSE, !.readBuffer = FALSE,
            !.stage = IF r.ring \/ r.readBuffer THEN "AllocRing" ELSE @,
            !.stopped = IF r.ring \/ r.readBuffer THEN FALSE ELSE @,
            !.pending = IF r.ring \/ r.readBuffer THEN FALSE ELSE @]

BlocksOneOnly(r) == IF r.ring THEN 1 ELSE 0              \* defective variant
Blocks(r) == (IF r.ring THEN 1 ELSE 0) + (IF r.readBuffer THEN 1 ELSE 0)

DisposeInstanceNoMove(s) ==                              \* defective variant
  /\ heap' = heap - Blocks(inst[s])
  /\ count' = count - 1
  /\ inst' = [inst EXCEPT ![s] = Disposed(@)]

DisposeInstance(s) ==
  /\ heap' = heap - Blocks(inst[s])
  /\ count' = count - 1
  /\ inst' = [inst EXCEPT ![s] = IF s < count - 1 THEN inst[count - 1] ELSE Disposed(@)]

Finalize ==
  /\ Idle
  /\ expert.phase = "drained"
  /\ \E s \in Live : inst[s].iface = expert.iface /\ DisposeInstance(s)
  /\ expert' = NoRemoval
  /\ UNCHANGED <<usl, stack>>

-----------------------------------------------------------------------------
(* Driver code that runs by itself once it has been entered.               *)
CpuStep ==
  \/ InitiateRefused \/ IssuePending \/ IssueError \/ IssueDone
  \/ \E status \in ReadStatus, err \in {"ok", "pending"} : IssueCompletesInside(status, err)
  \/ ReturnedStop \/ ReturnedDrive \/ ReturnedNothing \/ InitiateLeaves
  \/ CompletionProc
  \/ NotifyMark \/ NotifyUnhook \/ NotifyTest \/ NotifyAbort \/ NotifyAbortFails
  \/ NotifyClear \/ NotifyReturn

Next ==
  \/ CpuStep
  \/ \E s \in Slots, status \in ReadStatus : CallCompletes(s, status)
  \/ \E i \in Interfaces : InitializeInterface(i) \/ Unplug(i)
  \/ \E s \in Slots, hook \in BOOLEAN : SetEventCallback(s, hook)
  \/ Notify
  \/ Finalize

(* Code runs; the USL ends every call but a read nobody aborted, which may *)
(* wait for data for ever; the Expert repeats its notification and then    *)
(* finalizes.                                                              *)
MustEnd(s) == usl[s] # <<>> /\ (Head(usl[s]).aborted \/ Head(usl[s]).stage # Reading)

Fairness ==
  /\ WF_vars(CpuStep)
  /\ \A s \in Slots : WF_vars(MustEnd(s) /\ \E status \in ReadStatus : CallCompletes(s, status))
  /\ WF_vars(Notify)
  /\ WF_vars(Finalize)

Spec == Init /\ [][Next]_vars
FairSpec == Spec /\ Fairness

-----------------------------------------------------------------------------
Frame ==
  [proc : {"Initiate"}, slot : Slots, level : {"task", "interrupt"},
   at : {"enter", "returned", "leave"}, token : 0..(TokenModulus - 1),
   err : {"none", "pending", "ok", "error"}]
  \cup [proc : {"Completion"}, slot : Slots, level : {"task", "interrupt"},
        status : ReadStatus]
  \cup [proc : {"Notify"}, slot : 0..MaxInterfaces, level : {"task"},
        busy : BOOLEAN, at : {"mark", "hook", "test", "abort", "clear"}]

Call == [stage : Stage, iface : Interfaces, aborted : BOOLEAN]

TypeOK ==
  /\ count \in 0..MaxInterfaces
  /\ inst \in [Slots -> Instance]
  /\ usl \in [Slots -> Seq(Call)]
  /\ heap \in Nat
  /\ stack \in Seq(Frame)
  /\ expert \in [phase : {"idle", "announced", "notifying", "drained"},
                 iface : Interfaces \cup {NoInterface}]

(* One PB per instance, so at most one call in flight, and the PB of the   *)
(* call is still that instance's, waiting for it at that stage with        *)
(* kCompletionPending set.  A second submission, a completion for a freed  *)
(* slot or one that lands in another stage would break it.                 *)
OneCallPerInstance ==
  \A s \in Slots : usl[s] # <<>> =>
    /\ Len(usl[s]) = 1
    /\ s < count
    /\ inst[s].pending
    /\ inst[s].iface = Head(usl[s]).iface
    /\ inst[s].stage = Head(usl[s]).stage

(* "the machine can never wedge with kCompletionPending set and no         *)
(* completion in flight" (usb_driver.c), nor fall silent: when no driver   *)
(* code runs, an instance waits for a call, has stopped or is removed.     *)
NeverWedged ==
  Idle => \A s \in Live :
    /\ inst[s].pending <=> usl[s] # <<>>
    /\ inst[s].pending \/ inst[s].stopped \/ inst[s].removing

(* Every block the USL handed out is held by exactly one live instance, so *)
(* that finalize can free it: nothing leaks, nothing is freed twice.       *)
BlocksOwned ==
  Idle => heap = Cardinality({s \in Live : inst[s].ring})
                 + Cardinality({s \in Live : inst[s].readBuffer})

(* The read loop runs only with its pipe, its ring and its buffer, through *)
(* whatever order of completions, stops and removals.                      *)
ReadsHaveBuffers ==
  \A s \in Live : inst[s].stage = Reading =>
    inst[s].ring /\ inst[s].pipe /\ inst[s].readBuffer

(* transDepth counts exactly the activations of the machine in progress,   *)
(* so the re-entrancy bound stops a synchronous storm and nothing else.    *)
DepthCountsNesting ==
  \A s \in Live :
    inst[s].depth = Cardinality({k \in 1..Len(stack) :
      stack[k].proc = "Initiate" /\ stack[k].slot = s /\ stack[k].at # "enter"})

(* "finalize runs only after every completion has drained, then disposes   *)
(* the instance" (usb_driver.c): no instance is disposed of, or moved by   *)
(* the compaction, while the USL still holds a call.                       *)
FinalizeQuiet ==
  [][count' < count => \A s \in Live : usl[s] = <<>>]_vars

(* "no pushes into a dying client": once the notification has taken the    *)
(* hook of an instance away no completion calls it, even one that was      *)
(* already on its way or a hook the client puts back between two passes.   *)
(* Only between the two statements that mark the instance and take its     *)
(* hook may an instance being removed still push.                          *)
EventFires ==
  /\ Running("Completion") /\ Top.status = "ok"
  /\ inst[Top.slot].stage = Reading /\ inst[Top.slot].hook
AtTheHook(s) ==
  \E k \in 1..Len(stack) :
    stack[k].proc = "Notify" /\ stack[k].at = "hook" /\ stack[k].slot = s
NoPushAfterUnhook ==
  EventFires /\ inst[Top.slot].removing => AtTheHook(Top.slot)

(* To the clients of the dispatch table the driver is the simple list of   *)
(* Registry: each new interface starts with a clear hook although the      *)
(* initializer reuses a slot and does not touch the hook ("each new        *)
(* interface starts with a NULL hook", oms/oms_driver.c), the compaction   *)
(* moves the last interface and nothing else, and finalize comes only      *)
(* after a pass of the notification that left no hook and nothing in       *)
(* flight.                                                                 *)
Interface(s) == [iface |-> inst[s - 1].iface, hook |-> inst[s - 1].hook,
                 removing |-> inst[s - 1].removing]
Clients == INSTANCE Registry WITH
  slots <- [s \in 1..count |-> Interface(s)],
  expert <- [phase |-> expert.phase, iface |-> expert.iface,
             pass |-> \E k \in 1..Len(stack) : stack[k].proc = "Notify"]
ImplementsRegistry == Clients!RegistrySpec

(* The Expert that keeps asking gets to finalize: kCompletionPending never *)
(* blocks a removal for ever.                                              *)
RemovalEnds == expert.phase = "announced" ~> expert.phase = "idle"
=============================================================================
