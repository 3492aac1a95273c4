# debug80 in TLA+

A verification development kept beside debug80, a Z80 development environment
for VS Code: a debug adapter around an emulator of the TEC-1 family, the panels
of its extension, the AZM assembler and two experimental languages.

## The system

| part | where | state it keeps | operations |
|---|---|---|---|
| debug session control | `apps/debug80-vscode/src/debug/adapter.ts`, `requests/adapter-request-controller.ts`, `session/runtime-execution.ts` | `sessionState.runState`, the run loops | launch, configurationDone, setBreakpoints, continue, next, stepIn, stepOut, goto, pause, disconnect |
| breakpoint manager | `debug/mapping/breakpoint-manager.ts` | pending breakpoints per source, active addresses, conditions | set, applyAll, reset |
| warm rebuild | `debug/requests/rebuild-request.ts` | patches memory, map and run state | one request with an await inside |
| platform and register requests | `debug/requests/*-request*.ts` | the runtime | reset, keys, serial, memory and register writes |
| rebuild on save | `apps/debug80-vscode/src/extension/auto-rebuild.ts` | timers, in-flight and pending sets per session | save, timer, answer, session end |
| panels of the extension host | `src/extension/platform-view-*.ts`, `terminal-panel.ts`, `debug-session-events.ts` | what each panel holds, the session it follows | session started/terminated/custom events, webview life cycle, commands |
| source mapping | `src/mapping/**`, `debug/mapping/**` | an index per program | parse, look up |
| Z80 runtime | `packages/debug80-runtime/src/z80/**` | registers, memory | step, interrupt, reset, snapshot |
| TEC-1G devices | `packages/debug80-runtime/src/platforms/**` | cycle clock, UART, key latch, SD card, clock chip, displays, memory map | port reads and writes, cycle events |
| headless session | `packages/debug80-runtime/src/headless/session.ts` | counters, trace | run with a budget, reset |
| AZM assembler | `packages/azm/src/assembly/**`, `z80/**` | placement, labels, equates; the image | plan addresses until they settle, emit |
| AZM register contracts | `packages/azm/src/register-contracts/**` | summaries, live sets | infer, propagate, report conflicts |
| Glimmer, Nucleus | `packages/glimmer`, `packages/nucleus` | none between runs | compile |

The adapter runs inside the extension host, so its scheduler is JavaScript's
run-to-completion rule.  VS Code sends it requests and receives its events; a
run loop executes `RUNTIME_LOOP_CHUNK` instructions and then yields to a timer,
and this is where pause, disconnect, breakpoint edits, resets and rebuilds get
in.  The launch and the warm rebuild await the assembler, and other handlers
run during these awaits too.  Stop events go to the debug toolbar and status
events to the platform panel, by separate channels.  Devices call nobody: they
are called by port accesses and by the cycle clock between instructions.

What is hard is therefore order: which handler ran before which, what a handler
finds changed when it resumes, which of two flags was cleared by whom.
`PROJECT.json` lists each such place as a hazard at its line.

What makes each part correct:

- session control: one thread of Z80 execution; each command answered once;
  a breakpoint never run through; a pause neither lost nor kept for later;
- breakpoint manager: what stops execution is what the user last asked for, in
  the program now in memory;
- panels: the status shown is the status of the session shown;
- auto-rebuild: no save lost, never two rebuilds at once;
- devices: bytes sent and received once and in order, no stuck key, no event
  of before a reset after it;
- memory map: every access reaches the byte the documented map names;
- assembler and emulator, written apart from each other: what one writes the
  other reads; a label is the address of the bytes after it;
- register contracts: what they say of a routine holds when it is run.

## The modules

| module | models | checked by |
|---|---|---|
| `RunControl` | what an adapter promises its client about execution (abstract) | refinement from `DebugSession` |
| `DebugSession` | adapter, run loops, panel channel, a strict DAP client | five runs |
| `DebugSessionMC` | two small Z80 programs for it | |
| `DebugSessionProofs` | theorems about `DebugSession`, for all constants: loops, answers, refinement; breakpoints, panel, pauses, halts | TLAPS |
| `SerialLink` | what one direction of the serial line promises (abstract) | refinement from `Tec1gSerial`, twice |
| `Tec1gSerial` | the TEC-1G's bit-banged serial port on the cycle clock | one run |
| `Tec1gSerialMC` | bytes of two bits for it | |
| `Tec1gSerialProofs` | theorems about both its directions | TLAPS |
| `Tec1gKeys` | keypad latch, key interrupt, matrix keyboard, joystick | through `Tec1gBoard` |
| `SdSpi` | the SD card on its three lines, and a program that uses it | through `Tec1gBoard` |
| `Tec1gMemory` | shadow, protection, expansion banks, reset of memory | through `Tec1gBoard` |
| `Ds1302` | the clock chip on its three lines, and a program that uses it | through `Tec1gBoard` |
| `Tec1gBoard` | these four under the board's reset (composition) | two runs |
| `Tec1gBoardMC` | small boards, a block, two moments for it | |
| `Tec1gBoardProofs` | theorems about memory, keypad, matrix and the board's types | TLAPS |
| `Tec1gDeviceProofs` | theorems about the clock chip and the SD card | TLAPS |
| `AutoRebuild` | rebuild on save | through `ExtensionHost` |
| `PlatformView` | the sidebar panel, its provider and its page | through `ExtensionHost` |
| `TerminalPanel` | the terminal panel and its escape filter | through `ExtensionHost` |
| `ExtensionHost` | the session events that move all three (composition) | two runs |
| `ExtensionHostMC` | two sessions, two platforms, two sources | |
| `ExtensionHostProofs` | theorems about rebuild on save, the sidebar panel, the terminal, and the types of it all | TLAPS |
| `Z80Instructions` | the instructions AZM's parser lets through | through `Z80Machine` |
| `AzmEncoder` | AZM's encoders and fragment emission | through `Z80Machine` |
| `AzmAssembly` | address planning, placements, image emission | through `Z80Machine` |
| `Z80Decoder` | the emulator's opcode tables | through `Z80Machine` |
| `Z80Execute` | the emulator's handlers, flags, NMI | through `Z80Machine` |
| `RegisterEffects` | what the contracts say an instruction reads and writes | through `Z80Machine` |
| `RoutineSummary` | inference of one routine's summary | through `Z80Machine` |
| `RegisterContracts` | routines, the fixed point of summaries, liveness, conflicts | through `Z80Machine` |
| `Z80Machine` | analyse, assemble, load and step a program (composition) | two runs |
| `Z80MachineMC` | the instructions and small programs given to it | |
| `Z80EncodingProofs` | theorems about `AzmEncoder` and `Z80Decoder`: what is encoded is decoded | TLAPS |
| `Z80ExecuteProofs` | theorems about `Z80Decoder` and `Z80Execute`: whatever is decoded executes, within its types | TLAPS |
| `Z80MachineProofs` | theorems about `Z80Machine`: what is assembled, its labels, its types, what a step is said to do | TLAPS |

### DebugSession

State.  `run` is `sessionState.runState` field by field; `runtime`, `program`,
`cpu` and `entryCpu` are the runtime, the loaded program, the CPU and the entry
snapshot; `pending` and `active` are the two maps of `BreakpointManager`;
`launch` and `rebuild` say which await is open; `loops` holds the run loops in
the order in which they get the thread, and `holding` says that the first has it.
`notices` and `statuses` are events on their way; `client` and `panel` are what
VS Code and the platform view believe.  `told` is history: the last stop that
was announced, until an instruction executes.

A Z80 instruction is the set of effects it may have on control (fall through,
jump, call, return, halt, be hit by an interrupt), so conditions and data are
nondeterministic.  `callDepth` follows calls and returns and not interrupts, as
in `applyStepInfo`.

Actions.  One per request handler, named after it; the launch and the rebuild
are split at their await (`LaunchRequest`, `LaunchFinish` or `LaunchFail`;
`RebuildRequest`, `RebuildFinish` or `RebuildFail`).  An iteration of
`runUntilStopIteration` or `runUntilReturnIteration` is one of `LoopPaused`,
`LoopBreakpoint`, `LoopTarget`, `LoopHalts`, `LoopReturns`, `LoopLimit`,
`LoopAdvances` (each with the checks of the earlier ones negated, in the code's
order), or `LoopRuntimeGone`.  No handler is enabled while a loop holds the
thread.  A starting loop takes the thread at once, as the code does when it
calls an async function without awaiting it.

The client is VS Code.  It is external and strict: it sends execution requests
only while it believes the program stopped, and drops what arrives for a
session it has left.  Rebuilds do not overlap because the extension's
auto-rebuild, their only sender, serialises them.

Out of the model: conditions' values (either outcome), address spaces of banked
memory (planned), `isUnmapped` beyond a set of ROM addresses, and the speed
throttle beyond its yield.

### Tec1gSerial

State.  `events` is the queue of the `CycleClock`, with times relative to now;
`tx` is `BitbangUartDecoder`, `rx` the variables of
`createTec1gSerialController`; `talker` and `hearer` are the sending and
receiving routines of the Z80 program.  Four histories record what was given to
each line and what came out; a reset takes back what had not come out, and
`noise` remembers that it cut a byte short.

Actions.  `RecordCycles` is one instruction; it makes events due, and
`ServeEvent` serves them, earliest first, before anything else happens, as the
loop of `CycleClock.advance` does.  Port accesses are `WriteBit`, `Poll` and
`HearBit`; the host's are `QueueSerial` and `Reset`.

The emulator schedules each sample from the moment it took the one before, and
it takes a sample only after the instruction that passed its time.  Lateness
therefore adds up over a frame, on top of the difference between the program's
bit time and the emulator's, and `TimingAssumption` says what the line can
stand: sample `k` must fall in bit `k` even when all before it were late.  With
eight data and two stop bits, 833 cycles per bit and instructions of up to 23
cycles, it holds for programs that send a bit every 814 to 874 cycles; on the
slow clock, with 83 cycles per bit, it holds for none, and the line relies on
the program's loops having short instructions.

The program is external.  It counts cycles, in bits of its own length, so that
instruction boundaries are free except at its port accesses, and it does not
stop polling
between the bytes of a text: the line has no flow control, and a program that
looks away loses bytes here as on the board.  After a reset it does not transmit
for a frame's time.

Out of the model: speed changes within a behaviour, parity and inverted lines
(the TEC-1G uses neither), fractions of a cycle, block instructions as single
long stretches, and the clock's intervals; its `cancel` is in `Tec1gKeys`.

### Tec1gBoard, Tec1gKeys, SdSpi, Tec1gMemory, Ds1302

The devices have nothing in common but the program, the user and the reset, so a
behaviour exercises one of them in full (`focus`) and the reset touches all.
`Reset` is the `debug80/tec1gReset` request: memory is loaded again, the monitor's
RAM kept, inputs and latch set back, perhaps with FN held down; the card and the
clock chip are not told.

`Tec1gKeys`.  `key` is the keypad's part of `state.input`, `timers` the release
events on the clock, counted down; `matrix` is the matrix keyboard's, with the
keyboard the program reads and the one the user has changed since.  Histories
remember the last press and its age, the interrupts owed, and the keyboards there
were during the program's scan.  `RecordCycles` is an instruction's cycles, after
which due events run; `Tick` raises one interrupt, the video card's first.  A key
held for a reset is shown by the first read of the keypad's port, whatever that
read was for: also one that polls the serial line, and also after another press.

`SdSpi`.  `card` is the class field by field, except `lastCommand`; `write` is its
`writeState`.  `program` is external: a driver with a plan of what it sends and
what should come back, built from what it knows of the card.  It may drop the
select anywhere and goes on where it was, with the clock line at either level.
A reset within an exchange is left out: the card is then out of step with the
restarted program, which no document speaks of.

`Tec1gMemory`.  One location stands for each range of addresses the code
distinguishes, and a byte for the contents of each, so that reading the wrong
cell shows.  `cells` is history: the map that the platform's README describes,
written to by the documented rules.  Plain RAM at 1000-3FFF is left out, and so is
a monitor the program image has at the bottom only, except in `shadow_rom`.

`Ds1302`.  `chip` is the class field by field.  `talk` is external: a program that
sends commands and data, drops the enable anywhere, and after a reset drops it
first.  `TimePasses` moves the host's clock, also during a burst.

### ExtensionHost, AutoRebuild, PlatformView, TerminalPanel

State.  `life`, `active`, `announced`, `launch` and `sessionPlatforms` are the
debug sessions as VS Code and the adapters make them.  `AutoRebuild` has the
maps and sets of `auto-rebuild.ts` under their names, the requests on the
`wire`, and two versions: the one a save `wanted` and the one the adapter last
`read`.  `PlatformView` has the provider's session state, a display update and a
serial buffer per platform, whether the platform modules are loaded, the webview's
life and what its `page` shows.  `TerminalPanel` has the module's variables, the
webview's `display`, and the whole output `stream` as history.

Actions.  One per handler: `Save`, `TimerFires`, `ReceiveAnswer`; the handlers
of `debug-session-events.ts` under their names; the provider's and the terminal's
in `PlatformView!ViewNext` and `TerminalPanel!TerminalNext`.  `AdapterAnswers` is
the adapter's side of a rebuild; `BeginSession`, `LaunchCompletes` and
`EndSession` are VS Code's.  VS Code may report a session's start after events
its adapter sent before the launch response, which a test of the repository
(`debug-session-events.test.ts:383`) expects.

The handlers of the three parts have no common state but the sessions, so a
behaviour exercises one of them in full (`focus`) while the others take part in
the session events only.

Characters of serial text are the names of the sessions that sent them, and
characters of terminal output are the kinds the escape filter tells apart.

Out of the model: the memory tab, tabs and layout, ROM sources, the project
header, the DOM, and a sidebar or terminal shared by two live sessions: the
code then keeps one `currentSession` and does not filter events by session,
which `PROJECT.json` lists as a hazard.

### Z80Instructions, AzmEncoder, Z80Decoder, Z80Execute

An instruction is a mnemonic with two operands; `StraightInstructions`,
`Branches` and `OtherControl` are the ones the parser accepts.  The assembler
knows an instruction twice, as a size and as bytes; the emulator once more, as
table rows and handlers.  The encoder is translated form by form, the decoder table
by table, where rows of the code's tables that differ in one register become
one row with its bit field.  A processor is a record, and `execute` is the
handler followed by the EI and DI delays, in the order of `executeInstruction`.
Bits 3 and 5 of F and the cycle counts are left out, as are maskable
interrupts, which no platform raises.

### AzmAssembly

State.  `known` is the result of the last planning walk, `settled` whether it
confirmed the one before, `out` the emission's context.

Actions.  `PlanningPass` is one walk of the loop in `buildAddressState`,
`ReportingPass` the last one, which reports; `Emit` is one source item of
`emitProgramImage`; `FinishEmission` its end.

The model says some things a reader may not expect, all of them the code's:
planning may give up after its last allowed walk without having settled, and
labels then need not match, which is why `LabelsPointAtTheirBytes` asks for
`settled`; an equate is evaluated where it stands, and one that is being looked up
has no value, so that a cycle of equates is undefined; a `.ds` of a negative size moves the placement back; an `.org` to a
lower address is ignored; code under a data placement is assembled for the code
address and written at both places; overlaps are not diagnosed.

Out of the model: text, macros (ops), layouts, enums, strings, imports, binary
includes, conditional assembly and the output formats.

### RegisterEffects, RoutineSummary, RegisterContracts

State.  `routines` is what `buildRoutines` cuts out of the items; `summaries`
and `live` are the iterates of the two fixed points.

Actions.  `SummaryPass` is one iteration over all routines, `LivenessPass` one
backward walk over a routine, `LivenessDone` the end of the phase.
Following the paths of one routine is a recursive function on the sets of states
seen and still to visit, which finds the states the code's work list finds, without
its cap of 5000.

The code's simplifications are the model's: an instruction with an unknown effect
ends a path; the end of a routine is an exit; `jp (hl)` and a jump to a number
exit as if everything were preserved; arithmetic on SP is ignored; a
conditional tail jump to an unknown routine records no exit; a single register that
a routine only moves elsewhere is not counted among its reads.

Out of the model: declared contracts, monitor profiles, RST services, candidate
outputs, suppressions, fixes and reports.

### Z80Machine

A behaviour does one `job`: the contracts are checked where asked for (`Analyse`),
the program is assembled (`Assemble`), the image loaded (`Load`) and the processor
stepped.  `StepRuntime` is a call of `stepRuntime` up to its loop; `Iterate` is
the loop's body, one instruction and one platform tick, in which a key may raise
the NMI.  `step.trace` is what `classifyStepOver` told the debugger.

`JobsAssumption` says that a source is a sequence of what the parser hands on
(`IsItem`) and that a job's processor is one (`IsCpu`).  `FitsMemory` is a bound: a
program that reaches beyond the address space, which the HEX writer does not
prevent, is not loaded.  `AssembledAsWritten` speaks of the segment just written:
an instruction under a code placement whose bytes lie within the address space
(`JustWritten`, `RoomFor`); earlier ones may have been overwritten, which the
assembler does not diagnose.  `StepInfoIsTrue` leaves out two things the code does:
a call that pushes its return address over its own opcode, where the next
iteration may find a repeating block instruction in its place, and a stack in ROM.
It says nothing of where a call goes: a taken `call` pushes before it reads its
target (`do_call`), so that one that pushes over its operand goes elsewhere than
was assembled.  The stack jobs have calls that push over each of their bytes.

`EffectsCoverExecution` holds the table of effects against the processor.  It
names what the table leaves out (`UntoldReads`, `UntoldWrites`), which are
omissions of the code: INC and DEC of IX and IY are taken for operations on memory
that set flags; RL and RR of the CB page do not read the carry; CPI, CPD
and their repeats do not read A nor set flags; the block inputs and outputs do not
set flags; `ld a,i` and `ld a,r` do not set flags; `in r,(c)` and `out (c),r` do
not read B.

### Runs

The two passing runs of the session use a program with a ROM monitor, a
subroutine call, a conditional call into ROM, a loop and a HALT; chunks of two
instructions, so that every loop yields in the middle; a kept stack of two
words; limits of three, so that a limit spans chunks.  They allow the session to
stop: a disconnected session is finished.

- `session_safety` (two programs that move one line and delete another, two
  breakpoint lines, goto, run to frame, rebuilds, one PC edit): the type
  invariant, one loop, the running flag, one answer per command, consumed
  skips, breakpoints as requested, panel and toolbar in agreement, no missed
  breakpoint, no unrequested pause, termination only without progress, step
  over to the caller, and the refinement of `RunControl`.
- `session_liveness` (one program, conditional and broken breakpoints,
  platform resets, limited steps): launches, pauses and limited steps are
  answered.

Three runs state what the documentation says and find the code doing otherwise;
each is a finding in `PROJECT.json`:

- `session_disconnect`: a disconnect during the launch leaves a runtime behind;
- `session_condition`: a condition that cannot be evaluated does not stop;
- `session_reset`: halt, platform Reset, Continue, halt ends the session.

`session_safety` leaves the platform reset out for this reason.  Nor do its
programs call themselves: the target of a step over is an address, without the
call depth that part 2, chapter 3 of the documentation says it uses, and a deeper
activation that skips its own call comes to that address first.  With a routine
of that kind (`rec: JR Z,done; CALL rec; done: RET`) `StepOverReturnsToCaller` is
false, which is the limit of what that run shows.

One run checks the serial port: `serial_both` (both directions on one clock, two
bytes out, texts of one and two bytes in, a reset).  The decoder always has its
one next sample, both directions implement `SerialLink`, so that no frame of
before a reset acts after it, and every byte arrives.

Two runs check the TEC-1G's other devices:

- `tec1g_board`: the keypad shows the last press for as long as it should, and
  every press and frame interrupts once; what a scan of the matrix reads is one
  keyboard; every command to the card is answered rightly wherever the select was
  dropped, and blocks read as written; every address reads its documented cell
  under every setting of the latch; the clock chip holds what was written in whole
  bytes, and a burst is of one moment;
- `shadow_rom` is a finding: a monitor at the bottom of the program image is moved
  once, and a reset undoes it.

Two runs check the extension host:

- `extension_host`: at most one rebuild of a session at a time, no save
  forgotten by a live session and every one built in the end, diagnostics only of
  builds that failed and were not repaired, a page that shows what the host
  holds however often it is hidden, nothing of an ended session in the panel, a
  terminal that shows its buffer and a buffer that is the tail of what the program
  wrote, a clear-screen taken out wherever it was split;
- `run_button` is a finding: a launch that fails before its platform event
  leaves the Run button disabled with no session alive.

Two runs check assembler, contracts and processor together:

- `assembler_to_processor`: every instruction the parser accepts is assembled,
  decoded as what was written and takes the room it was given; labels point at
  their bytes; what `step()` tells the debugger of calls and returns is what
  happened; DAA after each addition and subtraction; block copies interrupted
  between any two bytes; the table of effects against execution; inferred
  summaries and conflicts against execution;
- `accumulator_test` is a finding: a caller that tests A with `or a` and then
  uses A gets no report when the callee overwrites A.

`assembler_to_processor` leaves such callers out, and `accumulator_test` has
them only.

Bounds of the session: `MaxStack`, `MaxDepth` (saturating), `MaxLag` (status
events that may wait when the next command is sent; zero means the panel is up
to date by then, since both channels are the same connection), and the sets of
programs, lines and edits.  Chunk two is enough for every phase of a chunk:
first, last, and neither is the only iteration.

Bounds of the serial port: `MaxSent`, `MaxQueued` and `MaxResets`.  Frames have
two data bits and one stop bit, which is enough for a first, a last and a stop
sample; `PollGap` is the most that `TimingAssumption` allows.  Tighter timings of
the direction to the host are covered by its proof.

Bounds of the board: `Hold` of three cycles and instructions of one or two, so that
a pulse spans instructions and its end falls within one; keyboards of three keys,
one of them in the joystick's row, of which a scan may meet `ScanBound`; blocks of
two bytes (one looks like a start token, one like a command) on a card of three
bytes, so that a block reaches beyond the end; `MaxTries` bytes of waiting, more
than an answer ever takes; bursts of `MaxBurst` bytes; boards with the ROM nowhere,
at the top, and at both ends, the latch with all switches, and five of the sixteen
bank numbers: both legacy pages, the first window by both its numbers, the last.

Bounds of the extension host: three saves are one that builds, one that finds it
in flight and one more while that is pending; two sessions of which both may be
alive for the rebuild, one at a time for the panels (`MaxAlive`); `MaxSerial` and
`MaxBuffer` of two overflow after three characters; `MaxEscape` of three makes an
unfinished sequence long enough to be given up as text; `MaxSent` counts
characters between two resets.  Runs allow stopping: sessions end.

Bounds of the machine are its jobs.

- instruction: every mnemonic and register combination, two values of each
  immediate and displacement (a plain one and one with the top bit or page set);
- branch: every branch forward, back, and one byte within and beyond reach, under
  four settings of the flags that make each condition hold and fail;
- placement: all programs of at most three items, and of three after an `.org`,
  out of thirteen items: origins, labels, equates, data, gaps and code;
- decimal: ten packed decimals that carry in each digit or in none, both ways
  round, with and without carry in;
- copy: three bytes up or down, apart or overlapping either way, one key press;
- call: bodies of at most two of seventeen instructions, with pushes and pops,
  an exchange, a callee that calls, and tail jumps, so that every way out of a
  routine is taken; caller: at most two uses after the call, six losses.

### Fairness

`FairSpec` assumes that a run loop with the thread goes on and a due timer fires
(JavaScript's event loop), that VS Code delivers events and completes its
configuration, and that the assembler returns.  Nothing is assumed of the user.

In `Tec1gSerial`, that instructions are executed and due events served, which is
one loop of the emulator, and that the program comes to its receive routine.

In `ExtensionHost`, that a debounce timer fires, an adapter answers a rebuild
(it awaits the assembler only) and VS Code delivers the answer.  Saves, ends of
sessions and everything the user does may never come.

## The proofs

Every theorem holds for all values of the constants that the assumptions of its
module allow.

### The session

`DebugSessionProofs` proves, for every program, every set of lines, every
chunk size and bound allowed by `ConstantsAssumption`, that `Spec` implies

- `TypeCorrect`, `OneLoop`, `FlagTracksLoop`, `OneAnswer`, `SkipConsumed`:
  the invariants of the same meaning that `session_safety` checks;
- `Refinement`: `RunControlMapping!Spec`.

None of these is inductive alone: that there is one loop follows from commands
being sent by a stopped client only, which follows from each run being answered
once, which follows from what launch and configuration have completed.  The
inductive invariant `Inv` is the conjunction of

- `TypeOK`;
- `LaunchInv`, which state each phase of the launch leaves;
- `StartInv`, that before the program has started nothing runs or is reported;
- `SkipInv`, that a skip is armed only under a loop that holds the thread;
- `ShapeInv`, that once started, and while the client takes part, the session is
  idle with a stopped client, has one loop, or has one report on its way;
- `RunningFlagTracksLoop`.

There is one step lemma per action, which shows that the action preserves `Inv`
and is a step of `RunControl` or leaves its variables alone; the keeper lemmas
say what handlers, stops and commands leave intact.

The module's second part builds on `Inv`.  What its properties need to know of a step is
what it does to the run, the loop and the events, which is the same for many
actions; `StepKinds` shows that every step is of one of nine kinds (a loop
begins, runs on, advances, stops, halts; the client steps, an event is
delivered, ...), and each property then has one case per kind.

- `BreakpointsFollowClient`: `BreakpointsAsRequested`.  `BreakInv` adds that what
  the manager holds pending is what the client wants, and that it is resolved
  before there is a runtime as well, which the launch's await needs.
- `PanelAgrees`: `PanelAgreesWithClient`.  The property speaks of quiet channels
  only; `PanelInv` speaks of `Shown`, what the panel will show once the status
  events on their way have arrived, at every moment.
- `BreakpointsStop`: `NoMissedBreakpoint`.  `ToldInv` links what was announced to
  what the loop goes by: a breakpoint that is to be skipped, and one on which
  execution rests, is the one the client was last told of.
- `PausesRequested`: `PauseStopsAreRequested`, from `PauseInv`: under a running
  client a pause is requested only if this client asked.
- `HaltTerminates`: `HaltTerminatesWithoutProgress`, from `HaltInv`, **if** the
  client never resets the platform (`"reset" \notin Requests`).  `session_reset`
  allows resets and finds the property violated: a reset restarts the CPU and
  leaves the notified halt standing.

`ConstantsAssumption` says of `None` that it is no address, no version, no
reason and no remembered stop, as `undefined` is none of these in the code.

Only model-checked: `StepOverReturnsToCaller`, which is true of programs whose
routines do not call themselves (a fact about all executions of a program, not
about its constants), and `RequestsAreAnswered`, which is liveness.

### The extension host

`ExtensionHostProofs` proves about `ExtensionHost`, for any set of sessions, sources and platforms (`HostAssumption`) and any limits:

- `FollowsSaves`: `RebuildsFollowSaves`.  `RebuildInv` adds what the answers on
  their way belong to: a session that has not begun has none, one that is gone
  gets rejections only, and nobody waits for sources that are not saved yet.
- `DiagnosticsCurrent`: `DiagnosticsAreCurrent`, from the same invariant.
- `PageShowsState`: `PageShowsHostState`.  `PageInv` adds which page there can be:
  none but on the screen, a platform's once the platform modules are loaded and
  no other after, and data of a session on a platform's page only.
- `FollowsItsSession`: `PanelFollowsItsSession`, **if** one session is alive at a
  time (`MaxAlive["panel"] <= 1`), which is how the run checks it: status and
  update events carry no session that the panel looks at, so that with two
  sessions it shows whichever spoke last.  `FollowInv` says that only a session
  whose launch is complete is heard, and that the panel follows it by then.
- `TerminalPanelShowsBuffer`: the terminal's half of `TerminalShowsText` that is
  about the panel.  `SentInv` says that what is shown and what is still to be
  sent make up the buffer, unless the panel is to be drawn anew.
- `HostTypes`: `TypeOK`.

Only model-checked: that the buffer is the tail of what the program wrote, which
compares it with a fold over a text of any length (an induction over data), and
`SavesAreBuilt`, which is liveness.

### The TEC-1G

`Tec1gSerialProofs` proves, for every frame format, bit time and instruction
length that `TimingAssumption` allows and whatever is transmitted when, that
`Spec` implies `TypeCorrect`, `DecoderServed` and `HostRefinement`: the
direction to the host implements `SerialLink`.  Besides `TypeOK`, the inductive
invariant has `SampleInv`, one sample scheduled in a frame and none outside, and
says which of four phases the line is in:

- `Quiet`: all that was sent has been received, and the line is high;
- `Ready`: a byte is sent, its start bit not yet written;
- `Sending`: the decoder has the byte's first `k` bits, and its next sample is
  due at an age of the frame between `Earliest(k)`, had every sample so far been
  on time, and `Latest(k)`, had each been `MaxStretch - 1` cycles late;
- `Cut`: a reset came in between, and the program is silent for longer than the
  decoder needs to finish the frame.

The ages are what makes it inductive: `TimingAssumption` puts both bounds inside
bit `k` of the program's, so a sample that is due finds that bit on the line
(`SampledInItsBit`), and the program finds the sample taken before it writes the
next (`SampledBeforeWrite`).

In the other direction the bits are events on the clock and the samples the
program's, and `ProgramRefinement` proves `ProgramHearsHost` of it under the same
assumptions.  `RxInv` says that the driver's events on the clock, those of before
a reset apart, are exactly the edges of one frame that are still to come
(`OnLine`: the byte, the edges past, the time since the frame began), and where
the program is in it:

- `Resting`: no frame, the line high, all that was queued still to be sent;
- `Expecting`: the program polls next within `PollGap` cycles of the start bit;
- `Receiving`: it has the byte's first bits, and its next look comes as long after
  the start bit as they take, and less than `PollGap` cycles later;
- `Heard`: it has the byte, and polls again within `PollGap` cycles of the next.

Events are served before the program looks (`LevelAt`), so lateness matters only
where a frame follows a frame; a `next` event finds the program in `Heard`.

`Tec1gBoardProofs` proves about the board:

- `MemoryMapped`: `MemoryIsMapped` for all values of the latch, **if** no board's
  image has its monitor at the bottom alone (`ShadowInImage`).  A board that does
  is what `shadow_rom` is a finding about.  `MemoryInv` relates each store of the
  code to the cell of the documented map; `ShadowMirrorsRom` is its consequence
  for the shadow, after every reset.
- `KeypadLatch`: `KeypadShowsLastPress` for every pulse length (`Hold`) and every
  stretch of an instruction.  `PulseInv` says that the one release event on the
  clock is that of the pulse that runs, and when it is due.
- `ScansAreNotTorn`: `ScanIsOneMoment` for any number of rows and columns.
  `ScanInv` says that the rows were read in order and what they have in common
  with the keyboard shown and the one kept back.
- `BoardTypeCorrect`: the whole board's `TypeOK`, from the invariants of its parts
  here and in `Tec1gDeviceProofs` (which it extends) and `MemoryTyped`, which asks
  nothing of the image.  The bounds in it need the phases: a frame whose sixth byte
  was taken is no longer in the card, a pulse that ended has no timer.

`Tec1gDeviceProofs` proves `ChipAnswers`, that is `ClockChipAnswers`, for any
commands, bytes, moments and length of a burst.  `ClockInv` says where the chip
is in a transfer from where the program is (`InCommand`, `InData`): the first
`p` bits of byte `k` are those of the data, as a remainder by `2^p`.  The lemmas
on bits of a byte say how a remainder grows with each bit.

It also proves `CardIsRight`, that is `CardAnswers`, for every size of block and
of image, every block and every argument of a byte, **if** the program waits for at
least two bytes (`MaxTries > 1`: the card lets one byte pass before it answers, so
a program that gives up at the first has no answer).  `CardInv` (`CardTalks`) is
the invariant, in three parts:

- `InStep`: card and program are at the same bit of the same byte, and each shift
  register holds the first bits (`Bits`) of what the other side is sending;
- `Phase`: where the exchange is.  `Resting`, nothing is under way;
  `Commanding`, what the card has of the frame and what the program has left are
  together one frame; `Storing`, the same of a block, its token and its checksum
  (`Midway`); `Waiting`, the answer is pending in the card; `Answering`, the bytes
  the card has queued are those the program still expects;
- `Knows` and `Stores`: the card's registers and image are what the program takes
  them for, at once or when the block that is on its way will have been written.

The select may drop in any phase.  Where the card takes the next one for a new
transaction (at rest, before the first bit of a frame, before an answer's last byte
when that is FF), what it clears is clear already (`SelectedCard`).

Only model-checked: the liveness of the line (`BytesArrive`).

### Assembler, contracts and processor

`Z80EncodingProofs` proves `InstructionsReadBack`: every instruction the parser
accepts, with any number for its operand, becomes bytes that the decoder's tables
read as that instruction; the two transfers that are written as two instructions
are read as the two.  An encoding is a list of at most four fragments, so the
instructions fall into a few forms; each form has a lemma for the bytes it becomes
at an address, and one per table for what is read there.

`Z80MachineProofs` proves, for any set of jobs (`JobsAssumption`),

- `AssembledAsWrittenCorrect`: `AssembledAsWritten`.  `AssemblyInv` adds that every
  symbol found so far is a number, every placement one or undefined, every segment
  that of an item passed.  That a number comes out of every walk (`WalkTyped`) is
  what the recursion has to say: the walk is a function on the items passed, and an
  expression's value one on the equates being looked up.  Both inductions are on
  the least member of a set of counterexamples, since the library's induction
  theorems cannot be instantiated here; for equates it is the least number of them
  not yet being looked up.
- `LabelsCorrect`: `LabelsPointAtTheirBytes`.  `WalkStands` says that once the
  symbols have settled, walking again finds the labels that are known;
  `WalksTogether`, that the emission is where that walk was before the same item.
  The two differ in what they count (a placement not yet known is taken for zero in
  planning and reported in emission), and agree from the first fault-free item on.
- `TypeCorrect`: `TypeOK`.  It rests on `AssemblyInv` for the image and on
  `ExecutionTyped` for the processor.
- `StepInfoCorrect`: `StepInfoIsTrue`.  `ClassifiedAs` matches `classifyStepOver`
  with the decoder's tables, opcode range by opcode range: it says call or return
  of exactly the opcodes that are decoded as one.  `FirstTold` is what executing
  them does to the stack and PC.  The step may go on after that, when PC is back on
  itself and a repeating block instruction is there; `StepInv` is what is known
  meanwhile (`StepAgain`): the step was said to be neither call nor return and the
  stack is where it was, or it was a call that pushed over its own opcode.  Any
  other call, and any return, finds its own opcode unchanged there, which is no
  block instruction (`TakenOver`).

`Z80ExecuteProofs` proves `DecodedIsExecutable`, that whatever memory holds, the
tables name an instruction some handler carries out (`Executable` lists the forms
and the operands each may have), and `ExecutionTyped`, that a processor stays one
through `execute` and `nmi`.  `Steady` and `Level` are what most handlers keep, PC
alone or PC and SP; the lemmas of the operators that write are chained through the
handlers.  `TypeCorrect` is therefore about code and data alike.

Only model-checked:

- `DecimalArithmetic` and `EffectsCoverExecution` speak of jobs of a kind
  (`job.kind`), whose programs only the checked instance fixes; they are about
  tables, and TLC goes through every row;
- `BlockCopyExact`, `PreservedIsPreserved` and `LossesAreReported` follow a program
  through any number of instructions: an induction over its executions, which the
  prover's library does not reach.

## The plan

Done: the session, the serial port, the extension host, assembler to processor,
the board; the proofs above.  Next:

1. `BreakpointMatch`: banked address spaces, shadow alias, line slop, the merge
   of conditions at one address, against a reference definition.
2. `setClockHz` in `Tec1gSerial`; `Headless` budgets.

## Not modelled

- Source mapping, variables, memory views and watch expressions: functions of a
  map file or of a stopped processor, without order or state.
- Launch configuration, ROM artifacts, project commands: merging of options and
  file operations in sequence, with prompts; the session model keeps the outcomes.
- The TEC-1G's displays, which are register decoding and pixels, its speaker and
  the throttle of panel updates; the headless session, which is in the plan.  The TEC-1 and simple runtimes are the TEC-1G's in an older or
  smaller form.
- CoolTerm: a client of another program's protocol.
- AZM's text parsing, ops, layouts, imports and output formats: conversions of
  text, which the modules take as done.
- Glimmer (code generation from source to source) and Nucleus (an experiment with
  proofs of its own); the Lanternfly archive.

## Running

`tlc -config DebugSessionMC.cfg DebugSessionMC` and the other configurations
likewise: `Debug*.cfg` with `DebugSessionMC`, `Tec1gSerialMC.cfg` with
`Tec1gSerialMC`, `Tec1gBoardMC.cfg` and `ShadowRomMC.cfg` with `Tec1gBoardMC`, `ExtensionHostMC.cfg` and `RunButtonMC.cfg` with
`ExtensionHostMC`, `Z80MachineMC.cfg` and `AccumulatorTestMC.cfg` with
`Z80MachineMC`.  `tlapm` on `DebugSessionProofs.tla`,
`ExtensionHostProofs.tla`, `Tec1gSerialProofs.tla`, `Tec1gBoardProofs.tla`,
`Tec1gDeviceProofs.tla`, `Z80EncodingProofs.tla`, `Z80ExecuteProofs.tla` and
`Z80MachineProofs.tla` checks the proofs.
