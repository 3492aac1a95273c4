---------------------------- MODULE DebugSession ----------------------------
(***************************************************************************)
(* One debug80 debug session: the DAP adapter (Z80DebugSession and its     *)
(* AdapterRequestController), the run loops it starts, and the strict DAP  *)
(* client (VS Code) on the other side.                                     *)
(*                                                                         *)
(* The adapter runs in the extension host, so JavaScript's run-to-         *)
(* completion rule is the scheduler: a request handler is one action, and  *)
(* a run loop holds the thread from the moment it is started (or resumed)  *)
(* until it stops or has executed Chunk iterations.  No handler runs while *)
(* a loop holds the thread.  The awaits of the launch and of the warm      *)
(* rebuild are the points where other handlers get in.                     *)
(***************************************************************************)
EXTENDS Naturals, Sequences

CONSTANTS
  Addr,         \* the instruction addresses of the program
  EntryPc,      \* loadedEntry: where the CPU starts after a launch or reset
  AppStart,     \* restartCaptureAddress: the application's entry point
  Versions,     \* the programs an assembly may produce
  Code,         \* Code[v][a]: the instruction at address a of program v
  Following,    \* Following[a]: the address of the instruction after a
  Lines,        \* the source lines breakpoints are set on
  LineAddr,     \* LineAddr[v][l]: the address line l maps to, or None
  Unmapped,     \* the addresses without source (ROM)
  None,
  Chunk,        \* RUNTIME_LOOP_CHUNK: iterations between two yields
  StepOverMax,  \* instruction limits; 0 means unlimited
  StepOutMax,
  MaxStack,     \* bound: words of stack kept; deeper pushes lose the oldest
  MaxDepth,     \* bound: the call depth saturates here
  MaxLag,       \* bound: status events the panel may be behind by
  Requests,     \* bound: the optional client requests of this instance
  PcEdits,      \* bound: the values the user writes to the PC register
  Conditions    \* bound: the kinds of breakpoint the client sets

Effects == {"fall", "jump", "call", "ret", "halt", "irq"}
Kinds == {"run", "over", "return"}
Reasons == {"entry", "breakpoint", "step", "halt", "pause"}

ASSUME ConstantsAssumption ==
  /\ None \notin Addr /\ None \notin Versions /\ None \notin Reasons
  /\ None \notin [reason : Reasons, pc : Addr]
  /\ EntryPc \in Addr /\ AppStart \in Addr
  /\ Code \in [Versions -> [Addr -> [does : SUBSET Effects, to : Addr]]]
  /\ Following \in [Addr -> Addr]
  /\ LineAddr \in [Versions -> [Lines -> Addr \cup {None}]]
  /\ Unmapped \subseteq Addr
  /\ Chunk \in Nat \ {0} /\ MaxStack \in Nat \ {0} /\ MaxDepth \in Nat \ {0}
  /\ MaxLag \in Nat
  /\ StepOverMax \in Nat /\ StepOutMax \in Nat
  /\ PcEdits \subseteq Addr
  /\ Conditions \subseteq {"plain", "cond", "bad"}

VARIABLES
  launch,     \* progress of handleLaunchRequest
  runtime,    \* is sessionState.runtime defined?
  program,    \* the program in memory, None before the launch loaded one
  cpu,        \* the Z80: pc, return addresses on the stack, halted
  run,        \* sessionState.runState
  entryCpu,   \* sessionState.entryCpuState
  pending,    \* BreakpointManager.pendingBySource
  active,     \* BreakpointManager.active and .conditions
  loops,      \* the run loops, in the order in which they get the thread
  holding,    \* does the first of them hold the thread?
  rebuild,    \* is a warm rebuild waiting for the assembler?
  notices,    \* Stopped and Terminated events on their way to the client
  statuses,   \* debug80/sessionStatus events on their way to the panel
  panel,      \* the status the platform view shows
  client,     \* what the DAP client believes and has asked for
  told        \* history: last stop announced, until an instruction executes

targetVars == <<runtime, program, cpu, entryCpu>>
breakpointVars == <<pending, active>>
loopVars == <<loops, holding>>
channelVars == <<notices, statuses, told>>
vars == <<launch, targetVars, run, breakpointVars, loopVars, rebuild,
          channelVars, panel, client>>

-----------------------------------------------------------------------------
(* Values.                                                                 *)

Cpu == [pc : Addr, stack : Seq(Addr), halted : BOOLEAN]

RunState ==
  [launchComplete : BOOLEAN, configurationDone : BOOLEAN,
   stopOnEntry : BOOLEAN, isRunning : BOOLEAN, haltNotified : BOOLEAN,
   pauseRequested : BOOLEAN, lastStopReason : Reasons \cup {None},
   lastBreakpointAddress : Addr \cup {None},
   skipBreakpointOnce : Addr \cup {None}, callDepth : Nat]

(* A loop runs until a stop ("run"), to the return address of a stepped-   *)
(* over call ("over") or past a return ("return").  "executed" counts only *)
(* towards a limit; "frame" is history: the stack depth a step over began  *)
(* at.                                                                     *)
Loop ==
  [kind : Kinds, extra : SUBSET Addr, baseline : Nat, max : Nat,
   executed : Nat, i : 0 .. Chunk - 1, frame : Nat]

Stop(reason) == [event |-> "stopped", reason |-> reason]
Terminated == [event |-> "terminated", reason |-> None]
Notice == [event : {"stopped", "terminated"}, reason : Reasons \cup {None}]

Views == {"none", "running", "stopped", "ended", "gone"}
BreakpointKind == {"plain", "cond", "bad", "none"}
NoLines == [l \in Lines |-> "none"]

Client ==
  [view : Views, configured : BOOLEAN, asked : BOOLEAN,
   wanted : [Lines -> BreakpointKind]]

InitialRunState(soe) ==
  [launchComplete |-> FALSE, configurationDone |-> FALSE,
   stopOnEntry |-> soe, isRunning |-> FALSE, haltNotified |-> FALSE,
   pauseRequested |-> FALSE, lastStopReason |-> None,
   lastBreakpointAddress |-> None, skipBreakpointOnce |-> None,
   callDepth |-> 0]

ResetCpu == [pc |-> EntryPc, stack |-> <<>>, halted |-> FALSE]

(* BreakpointManager.rebuild: the address each source breakpoint resolves  *)
(* to in the map of program v; a line with no code in v resolves to none.  *)
Resolve(v, lines) ==
  [a \in Addr |->
     IF v # None /\ \E l \in Lines : LineAddr[v][l] = a /\ lines[l] # "none"
     THEN lines[CHOOSE l \in Lines : LineAddr[v][l] = a /\ lines[l] # "none"]
     ELSE "none"]

-----------------------------------------------------------------------------
(* The Z80, one instruction at a time (Z80Runtime.step).  An instruction   *)
(* is the set of effects it may have: a conditional CALL is {"fall",       *)
(* "call"}.  "irq" is an instruction during which the platform's ioTick    *)
(* raises an interrupt whose handler is at "to".  RET on an empty stack    *)
(* pops whatever memory holds: any address.                                *)

Push(a, stack) ==
  <<a>> \o IF Len(stack) < MaxStack THEN stack
                                    ELSE SubSeq(stack, 1, MaxStack - 1)

Executed(pc, stack, halted, kind) ==
  [cpu |-> [pc |-> pc, stack |-> stack, halted |-> halted], kind |-> kind]

Effect(e) ==
  LET to == Code[program][cpu.pc].to
      next == Following[cpu.pc]
      stack == cpu.stack
  IN  CASE e = "fall" -> {Executed(next, stack, FALSE, "none")}
        [] e = "jump" -> {Executed(to, stack, FALSE, "none")}
        [] e = "call" -> {Executed(to, Push(next, stack), FALSE, "call")}
        [] e = "irq"  -> {Executed(to, Push(next, stack), FALSE, "none")}
        [] e = "halt" -> {Executed(next, stack, TRUE, "none")}
        [] e = "ret"  -> IF stack = <<>>
                         THEN {Executed(a, stack, FALSE, "ret") : a \in Addr}
                         ELSE {Executed(Head(stack), Tail(stack), FALSE, "ret")}

Outcomes ==
  IF cpu.halted
  THEN {Executed(cpu.pc, cpu.stack, TRUE, "none")}
  ELSE UNION {Effect(e) : e \in Code[program][cpu.pc].does}

(* Mutant: the call depth is not kept at or above zero.                    *)
ApplyStepInfoNoFloor(r, kind) ==
  [r EXCEPT !.callDepth =
     IF kind = "call" /\ @ < MaxDepth THEN @ + 1
     ELSE IF kind = "ret" THEN @ - 1
     ELSE @]

(* applyStepInfo: the call depth follows taken CALL, RST and RET.          *)
ApplyStepInfo(r, kind) ==
  [r EXCEPT !.callDepth =
     IF kind = "call" /\ @ < MaxDepth THEN @ + 1
     ELSE IF kind = "ret" /\ @ > 0 THEN @ - 1
     ELSE @]

(* captureEntryCpuStateIfNeeded, given the CPU it looks at.                *)
CaptureEntry(entry, c) ==
  IF entry = None /\ c.pc = AppStart THEN c ELSE entry

-----------------------------------------------------------------------------
(* Run-state updates and the events that go with them.                     *)

(* Mutants: a stop leaves isRunning, or haltNotified, as it was.           *)
MarkStoppedStillRunning(r, reason, bp) ==
  [r EXCEPT !.haltNotified = FALSE, !.lastStopReason = reason,
            !.lastBreakpointAddress = bp]
MarkStoppedHaltKept(r, reason, bp) ==
  [r EXCEPT !.isRunning = FALSE, !.lastStopReason = reason,
            !.lastBreakpointAddress = bp]

(* markRuntimeStopped and markStepStopped.                                 *)
MarkStopped(r, reason, bp) ==
  [r EXCEPT !.haltNotified = FALSE, !.isRunning = FALSE,
            !.lastStopReason = reason, !.lastBreakpointAddress = bp]

(* handleHaltStop: the first halt is a stop, a repeated one the end.       *)
HaltStop(r) ==
  IF r.haltNotified
  THEN [r EXCEPT !.isRunning = FALSE]
  ELSE [r EXCEPT !.isRunning = FALSE, !.haltNotified = TRUE,
                 !.lastStopReason = "halt", !.lastBreakpointAddress = None]

(* Mutant: the breakpoint stopped on need not be the one at the PC.        *)
BreakpointSkipAnywhere ==
  IF run.lastStopReason = "breakpoint" /\ active[cpu.pc] # "none"
  THEN cpu.pc ELSE None

(* updateBreakpointSkip: step off the breakpoint execution stopped on.     *)
BreakpointSkip ==
  IF /\ run.lastStopReason = "breakpoint"
     /\ run.lastBreakpointAddress = cpu.pc
     /\ active[cpu.pc] # "none"
  THEN cpu.pc ELSE None

(* Mutant: prepareRun keeps a pause that crossed the last stop.            *)
PrepareRunPauseKept ==
  [run EXCEPT !.isRunning = TRUE, !.skipBreakpointOnce = BreakpointSkip]

(* prepareRun and continueExecution, before the loop starts.               *)
PrepareRun ==
  [run EXCEPT !.pauseRequested = FALSE, !.isRunning = TRUE,
              !.skipBreakpointOnce = BreakpointSkip]

(* An event leaves the adapter; nobody listens once the client has gone.   *)
Send(queue, events) == IF client.view = "gone" THEN queue ELSE queue \o events

AnnounceStop(reason, status, pc) ==
  /\ notices' = Send(notices, <<Stop(reason)>>)
  /\ statuses' = Send(statuses, status)
  /\ told' = [reason |-> reason, pc |-> pc]

AnnounceHalt(pc) ==
  IF run.haltNotified
  THEN /\ notices' = Send(notices, <<Terminated>>)
       /\ told' = None
       /\ UNCHANGED statuses
  ELSE AnnounceStop("halt", <<"paused">>, pc)

NewLoop(kind, extra, baseline, max, frame) ==
  [kind |-> kind, extra |-> extra, baseline |-> baseline, max |-> max,
   executed |-> 0, i |-> 0, frame |-> frame]

(* Mutant: the panel is not told of the new run.                           *)
StartLoopSilently(loop) ==
  /\ loops' = <<loop>> \o loops
  /\ holding' = TRUE
  /\ UNCHANGED <<notices, statuses>>

(* runRuntimeLoop up to its first iteration: the new loop takes over the   *)
(* thread from the handler that started it, and the panel hears "running". *)
StartLoop(loop) ==
  /\ loops' = <<loop>> \o loops
  /\ holding' = TRUE
  /\ statuses' = Send(statuses, <<"running">>)
  /\ UNCHANGED notices

(* Mutant: the loop that stopped is still scheduled.                       *)
EndLoopStillScheduled == UNCHANGED loops /\ holding' = FALSE

EndLoop == loops' = Tail(loops) /\ holding' = FALSE

JsIdle == ~holding
Listening == client.view \notin {"ended", "gone"}

-----------------------------------------------------------------------------
(* Launch and configuration.                                               *)

Init ==
  /\ launch = "idle" /\ runtime = FALSE /\ program = None
  /\ cpu = ResetCpu /\ entryCpu = None
  /\ run = InitialRunState(FALSE)
  /\ pending = NoLines /\ active = Resolve(None, NoLines)
  /\ loops = <<>> /\ holding = FALSE /\ rebuild = FALSE
  /\ notices = <<>> /\ statuses = <<>> /\ panel = "not running"
  /\ client = [view |-> "none", configured |-> FALSE, asked |-> FALSE,
               wanted |-> NoLines]
  /\ told = None

(* handleLaunchRequest up to its first await: every trace of an earlier    *)
(* launch is dropped, the breakpoints received so far included.            *)
LaunchRequest(stopOnEntry) ==
  /\ JsIdle /\ launch = "idle"
  /\ launch' = "building"
  /\ runtime' = FALSE /\ program' = None /\ entryCpu' = None
  /\ run' = InitialRunState(stopOnEntry)
  /\ pending' = NoLines /\ active' = Resolve(None, NoLines)
  /\ client' = [client EXCEPT !.view = "running"]
  /\ UNCHANGED <<cpu, loopVars, rebuild, channelVars, panel>>

(* Mutant: the program starts before the client has configured it.         *)
StartsUnconfigured(r) == r.launchComplete /\ ~r.stopOnEntry

(* The conditions of startConfiguredExecutionIfReady ...                   *)
Starts(r) == r.launchComplete /\ r.configurationDone /\ ~r.stopOnEntry

(* Mutant: the entry stop does not wait for the client's configuration.    *)
EntryStopUnconfigured(r) ==
  r.launchComplete /\ r.stopOnEntry /\ r.lastStopReason # "entry"

(* ... and of sendEntryStopIfNeeded.                                       *)
StopsOnEntry(r) ==
  /\ r.launchComplete /\ r.configurationDone /\ r.stopOnEntry
  /\ r.lastStopReason # "entry"

(* Both, as the launch and the configuration call them, in either order.   *)
Begin(r, pc) ==
  \/ /\ Starts(r)
     /\ run' = [r EXCEPT !.isRunning = TRUE]
     /\ StartLoop(NewLoop("run", {}, 0, 0, 0))
     /\ UNCHANGED told
  \/ /\ StopsOnEntry(r)
     /\ run' = [r EXCEPT !.lastStopReason = "entry",
                         !.lastBreakpointAddress = None]
     /\ AnnounceStop("entry", <<"paused">>, pc)
     /\ UNCHANGED loopVars
  \/ /\ ~Starts(r) /\ ~StopsOnEntry(r)
     /\ run' = r
     /\ UNCHANGED <<loopVars, channelVars>>

(* Mutant: the breakpoints are not resolved in the new program.            *)
ApplyAllForgotten(v) == UNCHANGED active

(* BreakpointManager.applyAll, with the map of program v.                  *)
ApplyAll(v) == active' = Resolve(v, pending)

(* Mutant: the launch drops a pause pressed while it was building.         *)
LaunchedPauseLost ==
  [run EXCEPT !.callDepth = 0, !.launchComplete = TRUE, !.pauseRequested = FALSE]

Launched == [run EXCEPT !.callDepth = 0, !.launchComplete = TRUE]

(* The assembler answered: the rest of handleLaunchRequest.  Nothing in it *)
(* asks whether the client is still there.                                 *)
LaunchFinish(v) ==
  /\ JsIdle /\ launch = "building"
  /\ launch' = "complete"
  /\ runtime' = TRUE /\ program' = v /\ cpu' = ResetCpu
  /\ entryCpu' = CaptureEntry(None, ResetCpu)
  /\ ApplyAll(v)
  /\ Begin(Launched, EntryPc)
  /\ UNCHANGED <<pending, rebuild, panel, client>>

(* Assembly failed or an input is missing: Terminated, or an error         *)
(* response, which ends the session for the client in the same way.        *)
LaunchFail ==
  /\ JsIdle /\ launch = "building"
  /\ launch' = "failed"
  /\ notices' = Send(notices, <<Terminated>>)
  /\ UNCHANGED <<targetVars, run, breakpointVars, loopVars, rebuild,
                 statuses, told, panel, client>>

(* setBreakPointsRequest for one line: stored, and resolved at once when a *)
(* program is mapped.                                                      *)
SetBreakpoints(l, kind) ==
  /\ JsIdle /\ Listening
  /\ client.view # "none"
  /\ client.wanted[l] # kind
  /\ pending' = [pending EXCEPT ![l] = kind]
  /\ active' = Resolve(program, pending')
  /\ client' = [client EXCEPT !.wanted[l] = kind]
  /\ UNCHANGED <<launch, targetVars, run, loopVars, rebuild, channelVars, panel>>

ConfigurationDone ==
  /\ JsIdle /\ Listening
  /\ client.view # "none" /\ ~client.configured
  /\ Begin([run EXCEPT !.configurationDone = TRUE], cpu.pc)
  /\ client' = [client EXCEPT !.configured = TRUE]
  /\ UNCHANGED <<launch, targetVars, breakpointVars, rebuild, panel>>

-----------------------------------------------------------------------------
(* Execution requests: a strict client sends them only while stopped, and  *)
(* takes the program to be running from then on.                           *)

Requested ==
  /\ JsIdle /\ client.view = "stopped" /\ runtime
  /\ Len(statuses) <= MaxLag
  /\ client' = [client EXCEPT !.view = "running"]
  /\ UNCHANGED <<launch, runtime, program, breakpointVars, rebuild, panel>>

(* The loop that looks for a stop, or for one of the targets.              *)
Resume(targets) ==
  /\ Requested
  /\ run' = PrepareRun
  /\ StartLoop(NewLoop("run", targets, 0, 0, 0))
  /\ UNCHANGED <<cpu, entryCpu, told>>

Continue == Resume({})

(* gotoRequest: run to the cursor.                                         *)
Goto(a) == "goto" \in Requests /\ a \notin Unmapped /\ Resume({a})

(* runToStackFrameRequest: run to a word on the stack, if it is mapped.    *)
RunToStackFrame(i) ==
  /\ "frame" \in Requests
  /\ i \in 1 .. Len(cpu.stack) /\ cpu.stack[i] \notin Unmapped
  /\ Resume({cpu.stack[i]})

(* handleSingleStepRequest, for Next (over) and Step In (~over): one       *)
(* instruction whatever breakpoints there are; a call is then run through  *)
(* by a loop when it is stepped over or leads to unmapped code.            *)
SingleStep(over, o) ==
  LET r == [ApplyStepInfo(run, o.kind) EXCEPT !.pauseRequested = FALSE]
      stepOver == o.kind = "call" /\ (over \/ o.cpu.pc \in Unmapped)
  IN  /\ Requested
      /\ cpu' = o.cpu
      /\ entryCpu' = CaptureEntry(entryCpu, o.cpu)
      /\ \/ /\ stepOver
            /\ run' = [r EXCEPT !.haltNotified = FALSE, !.isRunning = TRUE,
                                !.lastStopReason = "step",
                                !.lastBreakpointAddress = None]
            /\ StartLoop(NewLoop("over", {Following[cpu.pc]}, 0, StepOverMax,
                                 Len(o.cpu.stack)))
            /\ told' = None
         \/ /\ ~stepOver /\ o.cpu.halted
            /\ run' = HaltStop(r)
            /\ AnnounceHalt(o.cpu.pc)
            /\ UNCHANGED loopVars
         \/ /\ ~stepOver /\ ~o.cpu.halted
            /\ run' = MarkStopped(r, "step", None)
            /\ AnnounceStop("step", <<>>, o.cpu.pc)
            /\ UNCHANGED loopVars

StepOut ==
  /\ Requested
  /\ run' = PrepareRun
  /\ StartLoop(NewLoop("return", {}, run.callDepth, StepOutMax, 0))
  /\ UNCHANGED <<cpu, entryCpu, told>>

Pause ==
  /\ JsIdle /\ client.view = "running" /\ client.configured
  /\ run' = [run EXCEPT !.pauseRequested = TRUE]
  /\ client' = [client EXCEPT !.asked = TRUE]
  /\ UNCHANGED <<launch, targetVars, breakpointVars, loopVars, rebuild,
                 channelVars, panel>>

(* disconnectRequest: the runtime goes; the loop finds out when it next    *)
(* gets the thread, and a launch or rebuild in flight is not told.         *)
Disconnect ==
  /\ JsIdle /\ client.view \notin {"none", "gone"}
  /\ runtime' = FALSE /\ entryCpu' = None
  /\ run' = [run EXCEPT !.isRunning = FALSE, !.haltNotified = FALSE]
  /\ client' = [client EXCEPT !.view = "gone"]
  /\ notices' = <<>> /\ statuses' = <<>> /\ panel' = "not running"
  /\ UNCHANGED <<launch, program, cpu, breakpointVars, loopVars, rebuild, told>>

-----------------------------------------------------------------------------
(* Requests of the platform panel, which may come at any time.             *)

(* handleResetRequest: the CPU restarts, the run state is not looked at.   *)
PlatformReset ==
  /\ "reset" \in Requests /\ JsIdle /\ runtime
  /\ cpu' = ResetCpu
  /\ UNCHANGED <<launch, runtime, program, run, entryCpu, breakpointVars,
                 loopVars, rebuild, channelVars, panel, client>>

(* tryWriteRegisterByKey for PC: refused while the program is running.     *)
SetPc(a) ==
  /\ JsIdle /\ runtime /\ ~run.isRunning
  /\ cpu' = [cpu EXCEPT !.pc = a]
  /\ UNCHANGED <<launch, runtime, program, run, entryCpu, breakpointVars,
                 loopVars, rebuild, channelVars, panel, client>>

(* handleWarmRebuildRequest up to the assembler's await ...                *)
RebuildRequest ==
  /\ "rebuild" \in Requests /\ JsIdle /\ runtime /\ ~rebuild
  /\ rebuild' = TRUE
  /\ UNCHANGED <<launch, targetVars, run, breakpointVars, loopVars,
                 channelVars, panel, client>>

(* ... and after it.  The runtime captured before the await is patched and *)
(* restarted from the entry snapshot, whether or not a loop is running it. *)
RebuildFinish(v) ==
  /\ JsIdle /\ rebuild
  /\ rebuild' = FALSE
  /\ program' = v
  /\ run' = [run EXCEPT !.callDepth = 0, !.haltNotified = FALSE,
                        !.lastBreakpointAddress = None,
                        !.skipBreakpointOnce = None]
  /\ ApplyAll(v)
  /\ cpu' = IF entryCpu # None THEN entryCpu ELSE ResetCpu
  /\ UNCHANGED <<launch, runtime, entryCpu, pending, loopVars, channelVars,
                 panel, client>>

RebuildFail ==
  /\ JsIdle /\ rebuild
  /\ rebuild' = FALSE
  /\ UNCHANGED <<launch, targetVars, run, breakpointVars, loopVars,
                 channelVars, panel, client>>

-----------------------------------------------------------------------------
(* The run loop that holds the thread: runUntilStopIteration and           *)
(* runUntilReturnIteration, one iteration an action.                       *)

Current == Head(loops)

Iterating ==
  /\ holding /\ runtime
  /\ UNCHANGED <<launch, runtime, program, breakpointVars, rebuild, panel, client>>

(* Only runUntilStop captures the entry state.                             *)
Captured(c) ==
  IF Current.kind = "return" THEN entryCpu ELSE CaptureEntry(entryCpu, c)

StopLoop(r, reason, bp, c) ==
  /\ run' = MarkStopped(r, reason, bp)
  /\ AnnounceStop(reason, <<"paused">>, c.pc)
  /\ EndLoop

LoopRuntimeGone ==
  /\ holding /\ ~runtime
  /\ EndLoop
  /\ UNCHANGED <<launch, targetVars, run, breakpointVars, rebuild, channelVars,
                 panel, client>>

(* handlePauseIfRequested.                                                 *)
LoopPaused ==
  /\ Iterating /\ run.pauseRequested
  /\ StopLoop([run EXCEPT !.pauseRequested = FALSE], "pause", None, cpu)
  /\ entryCpu' = Captured(cpu)
  /\ UNCHANGED cpu

Skipping == run.skipBreakpointOnce = cpu.pc

(* handleBreakpointStop, shouldStopAtBreakpoint: a condition may be true   *)
(* or false; one that cannot be evaluated does not stop.                   *)
LoopBreakpoint ==
  /\ Iterating /\ ~run.pauseRequested /\ ~Skipping
  /\ active[cpu.pc] \in {"plain", "cond"}
  /\ StopLoop(run, "breakpoint", cpu.pc, cpu)
  /\ entryCpu' = Captured(cpu)
  /\ UNCHANGED cpu

(* Mutant: a target counts as reached when the PC is past it.              *)
AtTargetOrPast == \E a \in Current.extra : cpu.pc >= a

(* matchesExtraBreakpoint.                                                 *)
AtTarget == cpu.pc \in Current.extra

LoopTarget ==
  /\ Iterating /\ ~run.pauseRequested /\ ~Skipping
  /\ active[cpu.pc] # "plain" /\ AtTarget
  /\ StopLoop(run, "step", None, cpu)
  /\ entryCpu' = Captured(cpu)
  /\ UNCHANGED cpu

(* Past the checks: one instruction is executed (stepRuntimeAndTrack).     *)
Executes(o) ==
  /\ Iterating /\ ~run.pauseRequested
  /\ Skipping \/ (active[cpu.pc] # "plain" /\ ~AtTarget)
  /\ cpu' = o.cpu
  /\ entryCpu' = IF Current.kind = "return" THEN entryCpu
                 ELSE CaptureEntry(CaptureEntry(entryCpu, cpu), o.cpu)

(* Mutant: the skipped breakpoint stays skipped.                           *)
RunAfterSkipKept(o) == ApplyStepInfo(run, o.kind)

RunAfter(o) ==
  [ApplyStepInfo(run, o.kind) EXCEPT
     !.skipBreakpointOnce = IF Skipping THEN None ELSE @]

(* isReturnPastBaseline.                                                   *)
ReturnsPastBaseline(o) ==
  /\ Current.kind = "return" /\ o.kind = "ret"
  /\ Current.baseline = 0 \/ RunAfter(o).callDepth < Current.baseline

(* stopIfInstructionLimitReached, which a skipped breakpoint's instruction *)
(* does not get to in runUntilStop.                                        *)
LimitReached ==
  /\ Current.max > 0 /\ Current.executed + 1 >= Current.max
  /\ Skipping => Current.kind = "return"

LoopHalts(o) ==
  /\ Executes(o) /\ o.cpu.halted
  /\ run' = HaltStop(RunAfter(o))
  /\ AnnounceHalt(o.cpu.pc)
  /\ EndLoop

LoopReturns(o) ==
  /\ Executes(o) /\ ~o.cpu.halted
  /\ ReturnsPastBaseline(o)
  /\ StopLoop(RunAfter(o), "step", None, o.cpu)

LoopLimit(o) ==
  /\ Executes(o) /\ ~o.cpu.halted
  /\ ~ReturnsPastBaseline(o) /\ LimitReached
  /\ StopLoop(RunAfter(o), "step", None, o.cpu)

(* One more instruction, counted in a loop with a limit.                   *)
Counted ==
  [Current EXCEPT !.executed = IF Current.max > 0 THEN @ + 1 ELSE @]

(* The next iteration follows at once, or after a timer at the end of a    *)
(* chunk (throttleRuntimeLoop).                                            *)
LoopAdvances(o) ==
  /\ Executes(o) /\ ~o.cpu.halted
  /\ ~ReturnsPastBaseline(o) /\ ~LimitReached
  /\ run' = RunAfter(o)
  /\ told' = None
  /\ \/ /\ Current.i + 1 < Chunk
        /\ loops' = <<[Counted EXCEPT !.i = @ + 1]>> \o Tail(loops)
        /\ UNCHANGED holding
     \/ /\ Current.i + 1 = Chunk
        /\ loops' = Append(Tail(loops), [Counted EXCEPT !.i = 0])
        /\ holding' = FALSE
  /\ UNCHANGED <<notices, statuses>>

LoopResume ==
  /\ JsIdle /\ loops # <<>>
  /\ holding' = TRUE
  /\ UNCHANGED <<launch, targetVars, run, breakpointVars, loops, rebuild,
                 channelVars, panel, client>>

-----------------------------------------------------------------------------
(* The channels to VS Code's debug UI and to the platform panel.           *)

DeliverNotice ==
  /\ notices # <<>>
  /\ client' = IF Head(notices).event = "terminated"
               THEN [client EXCEPT !.view = "ended"]
               ELSE [client EXCEPT !.view = "stopped", !.asked = FALSE]
  /\ notices' = Tail(notices)
  /\ UNCHANGED <<launch, targetVars, run, breakpointVars, loopVars, rebuild,
                 statuses, told, panel>>

DeliverStatus ==
  /\ statuses # <<>>
  /\ panel' = Head(statuses)
  /\ statuses' = Tail(statuses)
  /\ UNCHANGED <<launch, targetVars, run, breakpointVars, loopVars, rebuild,
                 notices, told, client>>

-----------------------------------------------------------------------------
Configuring ==
  \/ \E soe \in BOOLEAN : LaunchRequest(soe)
  \/ \E v \in Versions : LaunchFinish(v)
  \/ LaunchFail
  \/ \E l \in Lines, kind \in Conditions \cup {"none"} : SetBreakpoints(l, kind)
  \/ ConfigurationDone

Executing ==
  \/ Continue
  \/ \E a \in Addr : Goto(a)
  \/ \E i \in 1 .. MaxStack : RunToStackFrame(i)
  \/ runtime /\ \E over \in BOOLEAN, o \in Outcomes : SingleStep(over, o)
  \/ StepOut
  \/ Pause
  \/ Disconnect

Platform ==
  \/ PlatformReset
  \/ \E a \in PcEdits : SetPc(a)
  \/ RebuildRequest
  \/ \E v \in Versions : RebuildFinish(v)
  \/ RebuildFail

Looping ==
  \/ LoopRuntimeGone
  \/ LoopPaused
  \/ LoopBreakpoint
  \/ LoopTarget
  \/ runtime /\ \E o \in Outcomes :
       LoopHalts(o) \/ LoopReturns(o) \/ LoopLimit(o) \/ LoopAdvances(o)
  \/ LoopResume

Delivering == DeliverNotice \/ DeliverStatus

Next == Configuring \/ Executing \/ Platform \/ Looping \/ Delivering

(* JavaScript runs every callback that is due, VS Code delivers every      *)
(* event and completes its configuration, and the assembler answers.       *)
Fairness ==
  /\ WF_vars(Looping)
  /\ WF_vars(DeliverNotice) /\ WF_vars(DeliverStatus)
  /\ WF_vars(ConfigurationDone)
  /\ WF_vars(LaunchFail \/ \E v \in Versions : LaunchFinish(v))

Spec == Init /\ [][Next]_vars
FairSpec == Spec /\ Fairness

-----------------------------------------------------------------------------
(* Properties.                                                             *)

(* Every variable has its type, and a runtime runs one of the programs.    *)
TypeOK ==
  /\ launch \in {"idle", "building", "complete", "failed"}
  /\ runtime \in BOOLEAN
  /\ program \in Versions \cup {None}
  /\ runtime => program \in Versions
  /\ cpu \in Cpu
  /\ entryCpu \in Cpu \cup {None}
  /\ run \in RunState
  /\ pending \in [Lines -> BreakpointKind]
  /\ active \in [Addr -> BreakpointKind]
  /\ loops \in Seq(Loop)
  /\ holding \in BOOLEAN
  /\ rebuild \in BOOLEAN
  /\ notices \in Seq(Notice)
  /\ statuses \in Seq({"running", "paused"})
  /\ panel \in {"running", "paused", "not running"}
  /\ client \in Client
  /\ told = None \/ told \in [reason : Reasons, pc : Addr]

(* One thread of Z80 execution: whatever requests, launches and rebuilds   *)
(* overlap, there is never a second run loop stepping the same CPU.        *)
AtMostOneLoop == Len(loops) <= 1 /\ (holding => loops # <<>>)

(* runState.isRunning, which guards register and memory edits, is set      *)
(* exactly while a run loop exists on the runtime.                         *)
RunningFlagTracksLoop == runtime => (run.isRunning <=> loops # <<>>)

(* Both halves of the launch are complete, or it has failed.               *)
Started == (run.launchComplete /\ run.configurationDone) \/ launch = "failed"
Held == IF client.view = "stopped" THEN 1 ELSE 0

(* The adapter answers each run with exactly one event.  While the client  *)
(* takes part, and once the program has been started (or its launch has    *)
(* failed), there is one loop, one event on its way, or the client has     *)
(* stopped: never two of these, or the client would see a stop it did not  *)
(* ask for, and never none, or it would wait for ever.                     *)
OneOutstandingStop ==
  /\ client.view \in {"running", "stopped"} =>
       Len(loops) + Len(notices) + Held = IF Started THEN 1 ELSE 0
  /\ client.view \in {"none", "ended"} => loops = <<>> /\ notices = <<>>

(* skipBreakpointOnce is armed and used up within one turn of the thread:  *)
(* it never survives to make a later run miss a breakpoint.                *)
SkipIsConsumed == JsIdle => run.skipBreakpointOnce = None

(* The breakpoints that stop execution are those the client last asked     *)
(* for, resolved in the program now in memory: before the launch, while it *)
(* builds, and after a rebuild moved the lines.                            *)
BreakpointsAsRequested ==
  runtime /\ client.view # "gone" => active = Resolve(program, client.wanted)

(* When no event is in flight the platform panel and the debug toolbar     *)
(* agree on whether the program runs.                                      *)
PanelAgreesWithClient ==
  /\ notices = <<>> /\ statuses = <<>> /\ Started
  /\ client.view \in {"running", "stopped"}
  => (panel = "running" <=> client.view = "running")

(* A step by a loop over an instruction, seen from outside.                *)
LoopExecutes == holding /\ cpu' # cpu

(* A run never executes an instruction that holds an unconditional         *)
(* breakpoint unless the client has just been stopped at it.               *)
NoMissedBreakpoint ==
  [][LoopExecutes /\ active[cpu.pc] = "plain" =>
       told = [reason |-> "breakpoint", pc |-> cpu.pc]]_vars

(* A "pause" stop is reported only for a pause pressed since the client    *)
(* last saw a stop: a pause that crossed another stop is forgotten.        *)
PauseStopsAreRequested ==
  [][notices' = Append(notices, Stop("pause")) => client.asked]_vars

(* Terminated after a halt means no progress: the client was told of the   *)
(* halt and the CPU has executed nothing since.                            *)
HaltTerminatesWithoutProgress ==
  [][notices' = Append(notices, Terminated) /\ launch = "complete"
       => cpu.halted /\ told # None /\ told.reason = "halt"]_vars

(* Next over a call comes to rest at the return address only once the call *)
(* has returned.                                                           *)
StepOverReturnsToCaller ==
  [][holding /\ Current.kind = "over" /\ ~holding'
     /\ cpu' = cpu /\ told' = [reason |-> "step", pc |-> cpu.pc]
       => Len(cpu.stack) < Current.frame]_vars

(* After disconnectRequest nothing is left running.                        *)
GoneMeansReleased == client.view = "gone" => ~runtime

(* The doc's reading of a condition that cannot be evaluated: it stops.    *)
BadConditionStops ==
  [][LoopExecutes /\ active[cpu.pc] = "bad" =>
       told = [reason |-> "breakpoint", pc |-> cpu.pc]]_vars

(* The session as the client sees it: RunControl is implemented, with the  *)
(* loops as the program's execution and the notices as reports on the way. *)
Doing == IF loops # <<>> THEN "executing"
         ELSE IF notices # <<>> THEN "reported" ELSE "idle"

RunControlMapping == INSTANCE RunControl WITH
  view <- client.view, started <- Started, work <- Doing

ImplementsRunControl == RunControlMapping!Spec

(* A launch in progress comes to an end the client sees: a loop that runs, *)
(* a stop, or the end of the session.                                      *)
LaunchIsAnswered ==
  launch = "building" ~> (loops # <<>> \/ client.view # "running")

(* A pause is answered, by whatever stop or end comes first.               *)
PauseIsAnswered == client.asked ~> client.view # "running"

(* A step over or step out with a limit comes to an end.                   *)
StepsEnd == (loops # <<>> /\ Current.max > 0) ~> loops = <<>>

(* Nobody waits for ever: launches, pauses and limited steps all come to   *)
(* an end, whatever else the client does meanwhile (adapter.ts:300-328,    *)
(* runtime-execution.ts:124-133, 430-445).                                 *)
RequestsAreAnswered == LaunchIsAnswered /\ PauseIsAnswered /\ StepsEnd
=============================================================================
