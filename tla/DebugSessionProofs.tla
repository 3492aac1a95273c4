------------------------- MODULE DebugSessionProofs -------------------------
(***************************************************************************)
(* Proofs about DebugSession, for every program, every set of breakpoint   *)
(* lines and every value of the bounds: type correctness, the safety       *)
(* invariants of the run loops and the implementation of RunControl; then  *)
(* what the client and the panel are told: breakpoints, the panel's        *)
(* status, skipped breakpoints, pauses and halts.  All of them rest on Inv *)
(* and, from breakpoints on, on a summary of Next into the few kinds of    *)
(* step that what is remembered of stops can tell apart.                   *)
(***************************************************************************)
EXTENDS DebugSession, SequenceTheorems, TLAPS

(* Where the launch stands decides what the session holds.                 *)
LaunchInv ==
  /\ launch = "idle" <=> client.view = "none"
  /\ launch = "building" => client.view \in {"running", "gone"}
  /\ run.launchComplete <=> launch = "complete"
  /\ runtime => launch = "complete"
  /\ launch = "complete" /\ ~runtime => client.view = "gone"
  /\ run.configurationDone <=> client.configured
  /\ launch = "idle" => ~client.configured

(* Nothing runs, and nothing has stopped, before the program is started.   *)
StartInv ==
  /\ loops # <<>> => run.launchComplete /\ run.configurationDone
  /\ run.isRunning => run.launchComplete
  /\ ~(run.launchComplete /\ run.configurationDone) => run.lastStopReason = None

(* An armed skip is for the instruction about to be executed.              *)
SkipInv ==
  run.skipBreakpointOnce # None =>
    /\ holding /\ runtime /\ ~run.pauseRequested
    /\ run.skipBreakpointOnce = cpu.pc

(* The loops and the notices together: nothing is going on, one loop runs, *)
(* or its answer is on the way.                                            *)
Idle == loops = <<>> /\ notices = <<>>
Looped == (\E l \in Loop : loops = <<l>>) /\ notices = <<>>
Reported == loops = <<>> /\ (\E n \in Notice : notices = <<n>>)

(* What the client has been told decides which of the three it is.         *)
ShapeInv ==
  /\ client.view = "running" => IF Started THEN Looped \/ Reported ELSE Idle
  /\ client.view = "stopped" => Started /\ Idle
  /\ client.view \in {"none", "ended"} => Idle
  /\ client.view = "gone" => Idle \/ Looped
  /\ holding => loops # <<>>

Inv == /\ TypeOK /\ LaunchInv /\ StartInv /\ SkipInv /\ ShapeInv
       /\ RunningFlagTracksLoop

-----------------------------------------------------------------------------
(* Types of the operators.                                                 *)

(* Resolve gives every address a kind of breakpoint.                       *)
LEMMA ResolveType ==
  ASSUME NEW v, NEW lines \in [Lines -> BreakpointKind]
  PROVE  Resolve(v, lines) \in [Addr -> BreakpointKind]
<1>1. ASSUME NEW a \in Addr,
             \E l \in Lines : LineAddr[v][l] = a /\ lines[l] # "none"
      PROVE  lines[CHOOSE l \in Lines : LineAddr[v][l] = a /\ lines[l] # "none"]
               \in BreakpointKind
  BY <1>1
<1>2. "none" \in BreakpointKind
  BY DEF BreakpointKind
<1> QED
  BY <1>1, <1>2 DEF Resolve

(* A push leaves a stack of addresses.                                     *)
LEMMA PushType ==
  ASSUME NEW a \in Addr, NEW s \in Seq(Addr)
  PROVE  Push(a, s) \in Seq(Addr)
<1>1. CASE Len(s) < MaxStack
  BY <1>1 DEF Push
<1>2. CASE ~(Len(s) < MaxStack)
  <2>1. MaxStack - 1 \in 0 .. Len(s)
    BY <1>2, ConstantsAssumption
  <2>2. SubSeq(s, 1, MaxStack - 1) \in Seq(Addr)
    BY <2>1
  <2> QED
    BY <1>2, <2>2 DEF Push
<1> QED
  BY <1>1, <1>2

(* A CPU and a kind make an outcome.                                       *)
Outcome == [cpu : Cpu, kind : {"none", "call", "ret"}]

(* What one instruction leaves behind is a CPU.                            *)
LEMMA ExecutedType ==
  ASSUME NEW pc \in Addr, NEW stack \in Seq(Addr), NEW halted \in BOOLEAN,
         NEW kind \in {"none", "call", "ret"}
  PROVE  Executed(pc, stack, halted, kind) \in Outcome
  BY DEF Executed, Outcome, Cpu

(* Whatever an instruction does, the CPU stays a CPU.                      *)
LEMMA OutcomesType ==
  ASSUME TypeOK, runtime, NEW o \in Outcomes
  PROVE  o \in Outcome
<1>1. /\ cpu.pc \in Addr /\ cpu.stack \in Seq(Addr) /\ cpu.halted \in BOOLEAN
      /\ program \in Versions
  BY DEF TypeOK, Cpu
<1>2. Following[cpu.pc] \in Addr
  BY <1>1, ConstantsAssumption
<1>3. Code[program][cpu.pc] \in [does : SUBSET Effects, to : Addr]
  <2>1. Code \in [Versions -> [Addr -> [does : SUBSET Effects, to : Addr]]]
    BY ConstantsAssumption
  <2>2. Code[program] \in [Addr -> [does : SUBSET Effects, to : Addr]]
    BY <1>1, <2>1
  <2> QED
    BY <1>1, <2>2
<1>4. Code[program][cpu.pc].to \in Addr /\ Code[program][cpu.pc].does \subseteq Effects
  BY <1>3
<1>5. Push(Following[cpu.pc], cpu.stack) \in Seq(Addr)
  BY <1>1, <1>2, PushType
<1>6. Executed(cpu.pc, cpu.stack, TRUE, "none") \in Outcome
  BY <1>1, ExecutedType
<1>7. ASSUME NEW e \in Code[program][cpu.pc].does
      PROVE  Effect(e) \subseteq Outcome
  <2>1. e \in Effects
    BY <1>4
  <2>2. CASE e = "fall"
    <3>1. Executed(Following[cpu.pc], cpu.stack, FALSE, "none") \in Outcome
      BY <1>1, <1>2, ExecutedType
    <3> QED
      BY <2>2, <3>1 DEF Effect
  <2>3. CASE e = "jump"
    <3>1. Executed(Code[program][cpu.pc].to, cpu.stack, FALSE, "none") \in Outcome
      BY <1>1, <1>4, ExecutedType
    <3> QED
      BY <2>3, <3>1 DEF Effect
  <2>4. CASE e \in {"call", "irq"}
    <3>1. \A kind \in {"call", "none"} :
            Executed(Code[program][cpu.pc].to,
                     Push(Following[cpu.pc], cpu.stack), FALSE, kind) \in Outcome
      BY <1>4, <1>5, ExecutedType
    <3> QED
      BY <2>4, <3>1 DEF Effect
  <2>5. CASE e = "halt"
    <3>1. Executed(Following[cpu.pc], cpu.stack, TRUE, "none") \in Outcome
      BY <1>1, <1>2, ExecutedType
    <3> QED
      BY <2>5, <3>1 DEF Effect
  <2>6. CASE e = "ret" /\ cpu.stack = <<>>
    <3>1. \A a \in Addr : Executed(a, cpu.stack, FALSE, "ret") \in Outcome
      BY <1>1, ExecutedType
    <3> QED
      BY <2>6, <3>1 DEF Effect
  <2>7. CASE e = "ret" /\ cpu.stack # <<>>
    <3>1. Head(cpu.stack) \in Addr /\ Tail(cpu.stack) \in Seq(Addr)
      BY <1>1, <2>7
    <3>2. Executed(Head(cpu.stack), Tail(cpu.stack), FALSE, "ret") \in Outcome
      BY <3>1, ExecutedType
    <3> QED
      BY <2>7, <3>2 DEF Effect
  <2> QED
    BY <2>1, <2>2, <2>3, <2>4, <2>5, <2>6, <2>7 DEF Effects
<1> QED
  BY <1>6, <1>7 DEF Outcomes

-----------------------------------------------------------------------------
(* The updates of the run state, field by field.                           *)

(* The fields that no run-state update of a running session touches.       *)
SameLaunch(r, s) ==
  /\ s.launchComplete = r.launchComplete
  /\ s.configurationDone = r.configurationDone
  /\ s.stopOnEntry = r.stopOnEntry

(* applyStepInfo changes the call depth only.                              *)
LEMMA ApplyStepInfoType ==
  ASSUME NEW r \in RunState, NEW kind
  PROVE  LET s == ApplyStepInfo(r, kind)
         IN  /\ s \in RunState /\ SameLaunch(r, s)
             /\ s.isRunning = r.isRunning
             /\ s.pauseRequested = r.pauseRequested
             /\ s.haltNotified = r.haltNotified
             /\ s.lastStopReason = r.lastStopReason
             /\ s.skipBreakpointOnce = r.skipBreakpointOnce
<1> DEFINE depth == IF kind = "call" /\ r.callDepth < MaxDepth THEN r.callDepth + 1
                    ELSE IF kind = "ret" /\ r.callDepth > 0 THEN r.callDepth - 1
                    ELSE r.callDepth
<1>1. r.callDepth \in Nat
  BY DEF RunState
<1>2. depth \in Nat
  BY <1>1
<1>3. ApplyStepInfo(r, kind) = [r EXCEPT !.callDepth = depth]
  BY DEF ApplyStepInfo
<1> HIDE DEF depth
<1> QED
  BY <1>2, <1>3 DEF RunState, SameLaunch

(* markRuntimeStopped clears isRunning and leaves the skip.                *)
LEMMA MarkStoppedType ==
  ASSUME NEW r \in RunState, NEW reason \in Reasons, NEW bp \in Addr \cup {None}
  PROVE  LET s == MarkStopped(r, reason, bp)
         IN  /\ s \in RunState /\ SameLaunch(r, s)
             /\ s.isRunning = FALSE
             /\ s.pauseRequested = r.pauseRequested
             /\ s.skipBreakpointOnce = r.skipBreakpointOnce
  BY DEF MarkStopped, RunState, SameLaunch

(* handleHaltStop does too, whether it stops or terminates.                *)
LEMMA HaltStopType ==
  ASSUME NEW r \in RunState
  PROVE  LET s == HaltStop(r)
         IN  /\ s \in RunState /\ SameLaunch(r, s)
             /\ s.isRunning = FALSE
             /\ s.pauseRequested = r.pauseRequested
             /\ s.skipBreakpointOnce = r.skipBreakpointOnce
  BY DEF HaltStop, RunState, SameLaunch, Reasons

(* prepareRun arms the skip, if at all, for the instruction at the PC.     *)
LEMMA PrepareRunType ==
  ASSUME TypeOK
  PROVE  /\ PrepareRun \in RunState /\ SameLaunch(run, PrepareRun)
         /\ PrepareRun.isRunning = TRUE
         /\ PrepareRun.pauseRequested = FALSE
         /\ PrepareRun.lastStopReason = run.lastStopReason
         /\ PrepareRun.skipBreakpointOnce \in {cpu.pc, None}
<1>1. run \in RunState /\ cpu.pc \in Addr
  BY DEF TypeOK, Cpu
<1>2. BreakpointSkip \in {cpu.pc, None}
  BY DEF BreakpointSkip
<1> QED
  BY <1>1, <1>2 DEF PrepareRun, RunState, SameLaunch

(* An executed instruction uses the skip up, and changes the call depth.   *)
LEMMA RunAfterType ==
  ASSUME TypeOK, NEW o
  PROVE  /\ RunAfter(o) \in RunState /\ SameLaunch(run, RunAfter(o))
         /\ RunAfter(o).isRunning = run.isRunning
         /\ RunAfter(o).pauseRequested = run.pauseRequested
         /\ RunAfter(o).lastStopReason = run.lastStopReason
         /\ RunAfter(o).skipBreakpointOnce =
              IF run.skipBreakpointOnce = cpu.pc THEN None
              ELSE run.skipBreakpointOnce
<1> DEFINE s == ApplyStepInfo(run, o.kind)
<1>1. run \in RunState
  BY DEF TypeOK
<1>2. /\ s \in RunState /\ SameLaunch(run, s)
      /\ s.isRunning = run.isRunning
      /\ s.pauseRequested = run.pauseRequested
      /\ s.lastStopReason = run.lastStopReason
      /\ s.skipBreakpointOnce = run.skipBreakpointOnce
  BY <1>1, ApplyStepInfoType
<1>3. RunAfter(o) = [s EXCEPT !.skipBreakpointOnce = IF Skipping THEN None ELSE @]
  BY DEF RunAfter
<1> HIDE DEF s
<1> QED
  BY <1>2, <1>3 DEF RunState, SameLaunch, Skipping

-----------------------------------------------------------------------------
(* The queues and the loops.                                               *)

(* Sending appends, or is in vain.                                         *)
LEMMA SendType ==
  ASSUME NEW S, NEW q \in Seq(S), NEW e \in Seq(S)
  PROVE  Send(q, e) \in Seq(S)
  BY DEF Send

(* Once the loops are over, an event sent is reported, or is in vain.      *)
Answered == IF client.view = "gone" THEN Idle' ELSE Reported'

(* An event is queued for a client that is there and dropped otherwise.    *)
LEMMA SendAnswers ==
  ASSUME NEW n \in Notice, notices = <<>>, notices' = Send(notices, <<n>>),
         loops' = <<>>
  PROVE  Answered /\ notices' \in Seq(Notice)
<1>1. <<>> \o <<n>> = <<n>>
  OBVIOUS
<1>2. notices' = IF client.view = "gone" THEN <<>> ELSE <<n>>
  BY <1>1 DEF Send
<1>3. <<>> \in Seq(Notice) /\ <<n>> \in Seq(Notice)
  OBVIOUS
<1> QED
  BY <1>2, <1>3 DEF Answered, Idle, Reported

(* An announced stop answers.                                              *)
LEMMA AnnounceStopType ==
  ASSUME TypeOK, NEW reason \in Reasons, NEW pc \in Addr,
         NEW status \in {<<>>, <<"paused">>}, AnnounceStop(reason, status, pc),
         notices = <<>>, loops' = <<>>
  PROVE  /\ Answered
         /\ notices' \in Seq(Notice) /\ statuses' \in Seq({"running", "paused"})
         /\ told' \in [reason : Reasons, pc : Addr]
<1>1. statuses \in Seq({"running", "paused"})
  BY DEF TypeOK
<1>2. Stop(reason) \in Notice
  BY DEF Stop, Notice
<1>3. status \in Seq({"running", "paused"})
  <2>1. <<"paused">> \in Seq({"running", "paused"})
    OBVIOUS
  <2>2. <<>> \in Seq({"running", "paused"})
    OBVIOUS
  <2> QED
    BY <2>1, <2>2
<1>4. /\ notices' = Send(notices, <<Stop(reason)>>)
      /\ statuses' = Send(statuses, status)
      /\ told' = [reason |-> reason, pc |-> pc]
  BY DEF AnnounceStop
<1>5. Answered /\ notices' \in Seq(Notice)
  BY <1>2, <1>4, SendAnswers
<1>6. statuses' \in Seq({"running", "paused"})
  BY <1>1, <1>3, <1>4, SendType
<1> QED
  BY <1>4, <1>5, <1>6

(* So does an announced halt, first or repeated.                           *)
LEMMA AnnounceHaltType ==
  ASSUME TypeOK, NEW pc \in Addr, AnnounceHalt(pc), notices = <<>>, loops' = <<>>
  PROVE  /\ Answered
         /\ notices' \in Seq(Notice) /\ statuses' \in Seq({"running", "paused"})
         /\ told' = None \/ told' \in [reason : Reasons, pc : Addr]
<1>1. CASE run.haltNotified
  <2>1. statuses \in Seq({"running", "paused"})
    BY DEF TypeOK
  <2>2. Terminated \in Notice
    BY DEF Terminated, Notice
  <2>3. /\ notices' = Send(notices, <<Terminated>>)
        /\ told' = None /\ statuses' = statuses
    BY <1>1 DEF AnnounceHalt
  <2> QED
    BY <2>1, <2>2, <2>3, SendAnswers
<1>2. CASE ~run.haltNotified
  <2>1. AnnounceStop("halt", <<"paused">>, pc)
    BY <1>2 DEF AnnounceHalt
  <2>2. "halt" \in Reasons
    BY DEF Reasons
  <2> QED
    BY <2>1, <2>2, AnnounceStopType
<1> QED
  BY <1>1, <1>2

(* A new loop is a loop.                                                   *)
LEMMA NewLoopType ==
  ASSUME NEW kind \in Kinds, NEW extra \in SUBSET Addr, NEW baseline \in Nat,
         NEW max \in Nat, NEW frame \in Nat
  PROVE  NewLoop(kind, extra, baseline, max, frame) \in Loop
<1>1. 0 \in 0 .. Chunk - 1
  BY ConstantsAssumption
<1> QED
  BY <1>1 DEF NewLoop, Loop

(* A loop started when nothing goes on is the only one, and holds the      *)
(* thread.                                                                 *)
LEMMA StartLoopType ==
  ASSUME TypeOK, Idle, NEW loop \in Loop, StartLoop(loop)
  PROVE  /\ loops' \in Seq(Loop) /\ Looped' /\ loops' # <<>> /\ holding' = TRUE
         /\ statuses' \in Seq({"running", "paused"}) /\ notices' = <<>>
<1>1. loops = <<>> /\ notices = <<>> /\ statuses \in Seq({"running", "paused"})
  BY DEF TypeOK, Idle
<1>2. /\ loops' = <<loop>> \o loops /\ holding' = TRUE
      /\ statuses' = Send(statuses, <<"running">>) /\ notices' = notices
  BY DEF StartLoop
<1>3. statuses' \in Seq({"running", "paused"})
  <2>1. <<"running">> \in Seq({"running", "paused"})
    OBVIOUS
  <2> QED
    BY <1>1, <1>2, <2>1, SendType
<1>4. <<loop>> \o <<>> = <<loop>>
  OBVIOUS
<1>5. loops' = <<loop>>
  BY <1>1, <1>2, <1>4
<1>6. <<loop>> \in Seq(Loop) /\ <<loop>> # <<>>
  OBVIOUS
<1> QED
  BY <1>1, <1>2, <1>3, <1>5, <1>6 DEF Looped

(* The loop that ends was the only one.                                    *)
LEMMA EndLoopType ==
  ASSUME Looped, EndLoop
  PROVE  loops' = <<>> /\ holding' = FALSE
<1>1. PICK l \in Loop : loops = <<l>>
  BY DEF Looped
<1>2. Tail(<<l>>) = <<>>
  OBVIOUS
<1> QED
  BY <1>1, <1>2 DEF EndLoop

-----------------------------------------------------------------------------
(* Three kinds of step.                                                    *)

(* What no action after the launch changes about it.                       *)
SameSession ==
  /\ launch' = launch /\ runtime' = runtime
  /\ client'.configured = client.configured /\ SameLaunch(run, run')

(* The step that the client sees.                                          *)
Abstract == [RunControlMapping!Next]_(RunControlMapping!vars)

(* A step the client sees nothing of.                                      *)
LEMMA StutterAbstract ==
  ASSUME client'.view = client.view, Started' <=> Started, Doing' = Doing
  PROVE  Abstract
<1>1. Started' = Started
  OBVIOUS
<1> QED
  BY <1>1 DEF Abstract, RunControlMapping!vars

(* A step that leaves the client gone.                                     *)
LEMMA LeaveAbstract ==
  ASSUME client.view # "none", client'.view = "gone"
  PROVE  Abstract
<1>1. Doing' \in RunControlMapping!Work
  BY DEF Doing, RunControlMapping!Work
<1>2. Started' \in BOOLEAN
  BY DEF Started
<1> QED
  BY <1>1, <1>2 DEF Abstract, RunControlMapping!Next, RunControlMapping!Leave

(* The launch and the configuration have met.                              *)
LEMMA StartAbstract ==
  ASSUME client.view = "running", client'.view = client.view,
         ~Started, Started', Doing = "idle", Doing' \in {"executing", "reported"}
  PROVE  Abstract
<1>1. Started' = TRUE
  OBVIOUS
<1> QED
  BY <1>1 DEF Abstract, RunControlMapping!Next, RunControlMapping!Start

(* A handler that neither starts nor ends a run keeps the invariant.       *)
LEMMA HandlerKeeps ==
  ASSUME Inv, TypeOK', SameSession, JsIdle,
         loops' = loops, holding' = holding, notices' = notices,
         client'.view = client.view,
         run'.isRunning = run.isRunning,
         run'.lastStopReason = run.lastStopReason,
         run'.skipBreakpointOnce = None
  PROVE  Inv' /\ Abstract
<1>1. LaunchInv'
  BY DEF Inv, LaunchInv, SameSession, SameLaunch
<1>2. StartInv' /\ SkipInv'
  BY DEF Inv, StartInv, SkipInv, SameSession, SameLaunch
<1>3. ShapeInv' /\ RunningFlagTracksLoop'
  BY DEF Inv, ShapeInv, RunningFlagTracksLoop, Started, Idle, Looped, Reported,
         SameSession, SameLaunch
<1>4. Abstract
  <2>1. Started' = Started /\ Doing' = Doing
    BY DEF Started, Doing, SameSession, SameLaunch
  <2> QED
    BY <2>1, StutterAbstract
<1> QED
  BY <1>4, <1>1, <1>2, <1>3 DEF Inv

(* While a loop holds the thread the session is launched, and it is the    *)
(* only thing going on.                                                    *)
LEMMA HoldingFacts ==
  ASSUME Inv, holding
  PROVE  /\ Looped /\ loops # <<>> /\ notices = <<>>
         /\ launch = "complete" /\ run.launchComplete /\ run.configurationDone
         /\ client.view \in {"running", "gone"} /\ client.configured
         /\ runtime => run.isRunning
<1>1. loops # <<>> /\ client.view \in Views
  BY DEF Inv, ShapeInv, TypeOK, Client
<1>2. run.launchComplete /\ run.configurationDone
  BY <1>1 DEF Inv, StartInv
<1>3. launch = "complete" /\ client.configured
  BY <1>2 DEF Inv, LaunchInv
<1>4. Looped /\ client.view \in {"running", "gone"}
  BY <1>1 DEF Inv, ShapeInv, Views, Idle, Reported
<1>5. runtime => run.isRunning
  BY <1>1 DEF Inv, RunningFlagTracksLoop
<1> QED
  BY <1>1, <1>2, <1>3, <1>4, <1>5 DEF Looped

(* A loop that stops with an answer keeps the invariant.                   *)
LEMMA StopKeeps ==
  ASSUME Inv, TypeOK', SameSession, holding, runtime, ~run'.isRunning,
         loops' = <<>>, holding' = FALSE, Answered, client'.view = client.view,
         run'.skipBreakpointOnce = None
  PROVE  Inv' /\ Abstract
<1>1. /\ launch = "complete" /\ run.launchComplete /\ run.configurationDone
      /\ client.view \in {"running", "gone"}
  BY HoldingFacts
<1>2. LaunchInv'
  BY DEF Inv, LaunchInv, SameSession, SameLaunch
<1>3. StartInv' /\ SkipInv' /\ RunningFlagTracksLoop'
  BY <1>1 DEF StartInv, SkipInv, RunningFlagTracksLoop, SameSession, SameLaunch
<1>4. Started'
  BY <1>1 DEF Started, SameSession, SameLaunch
<1>5. ShapeInv'
  BY <1>1, <1>4 DEF ShapeInv, Answered
<1>6. Abstract
  <2>1. CASE client.view = "gone"
    BY <2>1, LeaveAbstract
  <2>2. CASE client.view = "running"
    <3>1. Reported'
      BY <2>2 DEF Answered
    <3>2. Doing = "executing" /\ Doing' = "reported"
      BY <3>1, HoldingFacts DEF Doing, Reported
    <3>3. Started /\ Started'
      BY <1>1, <1>4 DEF Started
    <3> QED
      BY <3>2, <3>3 DEF Abstract, RunControlMapping!Next, RunControlMapping!Report,
         RunControlMapping!vars
  <2> QED
    BY <1>1, <2>1, <2>2
<1> QED
  BY <1>6, <1>2, <1>3, <1>5 DEF Inv

(* A client that may send a command has been stopped, after the launch.    *)
LEMMA RequestedFacts ==
  ASSUME Inv, Requested
  PROVE  /\ Idle /\ launch = "complete" /\ ~holding
         /\ run.launchComplete /\ run.configurationDone
         /\ run.skipBreakpointOnce = None
         /\ client \in Client /\ client' = [client EXCEPT !.view = "running"]
         /\ client' \in Client /\ client'.view = "running"
         /\ client'.configured = client.configured
         /\ client.view = "stopped" /\ runtime
<1>1. client.view = "stopped" /\ runtime /\ JsIdle
  BY DEF Requested
<1>2. Started /\ Idle /\ launch = "complete"
  BY <1>1 DEF Inv, ShapeInv, LaunchInv
<1>3. client \in Client /\ client' = [client EXCEPT !.view = "running"]
  BY DEF Requested, Inv, TypeOK
<1>4. run.skipBreakpointOnce = None /\ ~holding
  BY <1>1 DEF Inv, SkipInv, JsIdle
<1>5. run.launchComplete /\ run.configurationDone
  BY <1>2 DEF Started
<1> QED
  BY <1>1, <1>2, <1>3, <1>4, <1>5 DEF Client, Views

(* A command keeps the invariant if it starts a loop or is answered.       *)
LEMMA CommandKeeps ==
  ASSUME Inv, Requested, TypeOK', SameSession,
         \/ run'.isRunning /\ Looped' /\ loops' # <<>>
         \/ ~run'.isRunning /\ Answered /\ loops' = <<>> /\ holding' = FALSE,
         SkipInv'
  PROVE  Inv' /\ Abstract
<1>1. /\ launch = "complete" /\ run.launchComplete /\ run.configurationDone
      /\ client.view = "stopped" /\ client'.view = "running"
      /\ runtime
  BY RequestedFacts
<1>2. LaunchInv'
  BY <1>1 DEF Inv, LaunchInv, SameSession, SameLaunch
<1>3. StartInv' /\ RunningFlagTracksLoop'
  BY <1>1 DEF StartInv, RunningFlagTracksLoop, SameSession, SameLaunch
<1>4. Started'
  BY <1>1 DEF Started, SameSession, SameLaunch
<1>5. ShapeInv'
  BY <1>1, <1>4 DEF ShapeInv, Answered
<1>6. Abstract
  <2>1. Idle /\ Started
    BY <1>1, RequestedFacts DEF Started
  <2>2. Doing = "idle"
    BY <2>1 DEF Doing, Idle
  <2>3. Doing' \in {"executing", "reported"}
    <3>1. loops' # <<>> \/ Reported'
      BY <1>1 DEF Answered
    <3>2. CASE loops' # <<>>
      BY <3>2 DEF Doing
    <3>3. CASE Reported'
      BY <3>3 DEF Doing, Reported
    <3> QED
      BY <3>1, <3>2, <3>3
  <2> QED
    BY <1>1, <1>4, <2>1, <2>2, <2>3
       DEF Abstract, RunControlMapping!Next, RunControlMapping!Command
<1> QED
  BY <1>6, <1>2, <1>3, <1>5 DEF Inv

-----------------------------------------------------------------------------
(* The launch and the configuration keep the invariant.                    *)

(* A launch request keeps Inv and is the abstract launch.                  *)
LEMMA LaunchRequestStep ==
  ASSUME Inv, NEW soe \in BOOLEAN, LaunchRequest(soe)
  PROVE  Inv' /\ Abstract
<1>1. InitialRunState(soe) \in RunState
  BY ConstantsAssumption DEF InitialRunState, RunState
<1>2. NoLines \in [Lines -> BreakpointKind]
  BY DEF NoLines, BreakpointKind
<1>3. Resolve(None, NoLines) \in [Addr -> BreakpointKind]
  BY <1>2, ResolveType
<1>4. TypeOK'
  BY <1>1, <1>2, <1>3 DEF Inv, TypeOK, LaunchRequest, Client, Views, loopVars, channelVars
<1>5. Idle /\ ~client.configured
  BY DEF Inv, LaunchInv, ShapeInv, LaunchRequest
<1>6. /\ launch' = "building" /\ runtime' = FALSE
      /\ run' = InitialRunState(soe)
      /\ loops' = <<>> /\ notices' = <<>> /\ ~holding'
      /\ client'.view = "running" /\ client'.configured = FALSE
  BY <1>5 DEF LaunchRequest, loopVars, channelVars, JsIdle, Inv, TypeOK, Client, Idle
<1>7. LaunchInv'
  BY <1>6 DEF LaunchInv, InitialRunState
<1>8. StartInv' /\ SkipInv' /\ RunningFlagTracksLoop'
  BY <1>6 DEF StartInv, SkipInv, InitialRunState, RunningFlagTracksLoop
<1>9. ShapeInv'
  BY <1>6 DEF ShapeInv, Idle, Started, InitialRunState
<1>10. Abstract
  <2>1. client.view = "none" /\ ~Started
    BY DEF Inv, LaunchInv, LaunchRequest, Started
  <2>2. ~Started'
    BY <1>6 DEF Started, InitialRunState
  <2>3. Doing = "idle" /\ Doing' = "idle"
    BY <1>5, <1>6 DEF Doing, Idle
  <2>4. Started' = Started
    BY <2>1, <2>2 DEF Started
  <2>5. RunControlMapping!Launch
    BY <1>6, <2>1, <2>3, <2>4 DEF RunControlMapping!Launch
  <2> QED
    BY <2>5 DEF Abstract, RunControlMapping!Next
<1> QED
  BY <1>10, <1>4, <1>7, <1>8, <1>9 DEF Inv

(* What Begin does when nothing is going on: it starts the program, stops  *)
(* on entry, or leaves everything as it is.                                *)
LEMMA BeginType ==
  ASSUME Inv, Idle, NEW r \in RunState, NEW pc \in Addr, Begin(r, pc),
         ~holding, ~r.isRunning
  PROVE  /\ run' \in RunState /\ SameLaunch(r, run')
         /\ loops' \in Seq(Loop) /\ holding' \in BOOLEAN
         /\ notices' \in Seq(Notice) /\ statuses' \in Seq({"running", "paused"})
         /\ told' = None \/ told' \in [reason : Reasons, pc : Addr]
         /\ run'.skipBreakpointOnce = r.skipBreakpointOnce
         /\ run'.isRunning <=> loops' # <<>>
         /\ holding' => loops' # <<>>
         /\ \/ Starts(r) /\ Looped'
            \/ StopsOnEntry(r) /\ loops' = <<>> /\ Answered
            \/ ~Starts(r) /\ ~StopsOnEntry(r) /\ loops' = <<>> /\ Idle'
                 /\ run'.lastStopReason = r.lastStopReason
<1>1. TypeOK /\ loops = <<>> /\ notices = <<>>
  BY DEF Inv, Idle
<1>2. CASE Starts(r) /\ run' = [r EXCEPT !.isRunning = TRUE]
           /\ StartLoop(NewLoop("run", {}, 0, 0, 0)) /\ UNCHANGED told
  <2>1. NewLoop("run", {}, 0, 0, 0) \in Loop
    BY NewLoopType DEF Kinds
  <2>2. /\ loops' \in Seq(Loop) /\ Looped' /\ loops' # <<>> /\ holding' = TRUE
        /\ statuses' \in Seq({"running", "paused"}) /\ notices' = <<>>
    BY <1>1, <1>2, <2>1, StartLoopType
  <2>3. run' \in RunState /\ SameLaunch(r, run') /\ run'.isRunning
        /\ run'.skipBreakpointOnce = r.skipBreakpointOnce
    BY <1>2 DEF RunState, SameLaunch
  <2> QED
    BY <1>1, <1>2, <2>2, <2>3 DEF TypeOK
<1>3. CASE /\ StopsOnEntry(r)
           /\ run' = [r EXCEPT !.lastStopReason = "entry", !.lastBreakpointAddress = None]
           /\ AnnounceStop("entry", <<"paused">>, pc)
           /\ UNCHANGED loopVars
  <2>1. "entry" \in Reasons
    BY DEF Reasons
  <2>2. loops' = <<>> /\ holding' = holding
    BY <1>1, <1>3 DEF loopVars
  <2>3. /\ Answered
        /\ notices' \in Seq(Notice) /\ statuses' \in Seq({"running", "paused"})
        /\ told' \in [reason : Reasons, pc : Addr]
    BY <1>1, <1>3, <2>1, <2>2, AnnounceStopType
  <2>4. run' \in RunState /\ SameLaunch(r, run') /\ run'.isRunning = r.isRunning
        /\ run'.skipBreakpointOnce = r.skipBreakpointOnce
    BY <1>3, <2>1 DEF RunState, SameLaunch
  <2> QED
    BY <1>1, <1>3, <2>2, <2>3, <2>4 DEF TypeOK
<1>4. CASE ~Starts(r) /\ ~StopsOnEntry(r) /\ run' = r /\ UNCHANGED <<loopVars, channelVars>>
  BY <1>1, <1>4 DEF TypeOK, loopVars, channelVars, SameLaunch, Idle
<1> QED
  BY <1>2, <1>3, <1>4 DEF Begin

(* The program starts, or stops on entry, once both halves are complete.   *)
LEMMA ReadyBegins ==
  ASSUME NEW r \in RunState, r.lastStopReason = None
  PROVE  Starts(r) \/ StopsOnEntry(r) <=> r.launchComplete /\ r.configurationDone
<1>1. "entry" # None
  BY ConstantsAssumption DEF Reasons
<1> QED
  BY <1>1 DEF Starts, StopsOnEntry, RunState

(* The end of a launch keeps Inv and starts the program at most once.      *)
LEMMA LaunchFinishStep ==
  ASSUME Inv, NEW v \in Versions, LaunchFinish(v)
  PROVE  Inv' /\ Abstract
<1>1. TypeOK /\ run \in RunState /\ launch = "building" /\ ~holding
  BY DEF Inv, TypeOK, LaunchFinish, JsIdle
<1>2. /\ ~run.launchComplete /\ ~Started /\ run.lastStopReason = None
      /\ client.view \in {"running", "gone"}
      /\ loops = <<>> /\ ~run.isRunning
  BY <1>1 DEF Inv, LaunchInv, StartInv, Started
<1>3. Idle /\ run.skipBreakpointOnce = None
  BY <1>1, <1>2 DEF Inv, ShapeInv, Looped, SkipInv, Idle
<1>4. /\ Launched \in RunState /\ Launched.launchComplete
      /\ Launched.configurationDone = run.configurationDone
      /\ Launched.isRunning = run.isRunning
      /\ Launched.lastStopReason = run.lastStopReason
      /\ Launched.skipBreakpointOnce = run.skipBreakpointOnce
  BY <1>1 DEF Launched, RunState
<1>5. /\ launch' = "complete" /\ runtime' = TRUE /\ cpu' = ResetCpu
      /\ client' = client /\ Begin(Launched, EntryPc)
  BY DEF LaunchFinish
<1>6. EntryPc \in Addr /\ ResetCpu \in Cpu /\ CaptureEntry(None, ResetCpu) \in Cpu \cup {None}
  BY ConstantsAssumption DEF ResetCpu, Cpu, CaptureEntry
<1>7. Resolve(v, pending) \in [Addr -> BreakpointKind]
  BY <1>1, ResolveType DEF TypeOK
<1>8. /\ run' \in RunState /\ SameLaunch(Launched, run')
      /\ loops' \in Seq(Loop) /\ holding' \in BOOLEAN
      /\ notices' \in Seq(Notice) /\ statuses' \in Seq({"running", "paused"})
      /\ told' = None \/ told' \in [reason : Reasons, pc : Addr]
      /\ run'.skipBreakpointOnce = None
      /\ run'.isRunning <=> loops' # <<>>
      /\ holding' => loops' # <<>>
      /\ \/ Starts(Launched) /\ Looped'
         \/ StopsOnEntry(Launched) /\ loops' = <<>> /\ Answered
         \/ ~Starts(Launched) /\ ~StopsOnEntry(Launched) /\ loops' = <<>> /\ Idle'
              /\ run'.lastStopReason = None
  BY <1>1, <1>2, <1>3, <1>4, <1>5, <1>6, BeginType
<1>9. TypeOK'
  BY <1>1, <1>6, <1>7, <1>8 DEF TypeOK, LaunchFinish, ApplyAll
<1>10. Starts(Launched) \/ StopsOnEntry(Launched) <=> run.configurationDone
  BY <1>2, <1>4, ReadyBegins
<1>11. run'.launchComplete /\ run'.configurationDone = run.configurationDone
  BY <1>4, <1>8 DEF SameLaunch
<1>12. LaunchInv'
  BY <1>1, <1>2, <1>5, <1>11 DEF Inv, LaunchInv
<1>13. StartInv' /\ SkipInv' /\ RunningFlagTracksLoop'
  BY <1>8, <1>10, <1>11 DEF StartInv, SkipInv, RunningFlagTracksLoop, Looped
<1>14. ShapeInv'
  <2>1. Started' = run.configurationDone
    BY <1>5, <1>9, <1>11 DEF Started, TypeOK, RunState
  <2>2. client'.view = client.view
    BY <1>5
  <2>3. run.configurationDone => Looped' \/ Answered
    BY <1>8, <1>10
  <2>4. ~run.configurationDone => Idle'
    BY <1>8, <1>10
  <2> QED
    BY <1>2, <1>8, <2>1, <2>2, <2>3, <2>4 DEF ShapeInv, Answered
<1>15. Abstract
  <2>1. client'.view = client.view /\ (run.configurationDone => Started')
        /\ (~run.configurationDone => ~Started')
    BY <1>5, <1>11 DEF Started
  <2>2. Doing = "idle"
    BY <1>3 DEF Doing, Idle
  <2>3. CASE client.view = "gone"
    BY <2>1, <2>3, LeaveAbstract
  <2>4. CASE client.view = "running" /\ run.configurationDone
    <3>1. Looped' \/ Reported'
      BY <1>8, <1>10, <2>4 DEF Answered
    <3>2. Doing' \in {"executing", "reported"}
      <4>1. CASE Looped'
        BY <4>1 DEF Doing, Looped
      <4>2. CASE Reported'
        BY <4>2 DEF Doing, Reported
      <4> QED
        BY <3>1, <4>1, <4>2
    <3> QED
      BY <1>2, <2>1, <2>2, <2>4, <3>2, StartAbstract
  <2>5. CASE client.view = "running" /\ ~run.configurationDone
    <3>1. Idle'
      BY <1>8, <1>10, <2>5
    <3>2. Doing' = "idle"
      BY <3>1 DEF Doing, Idle
    <3> QED
      BY <1>2, <2>1, <2>2, <2>5, <3>2, StutterAbstract
  <2> QED
    BY <1>2, <2>3, <2>4, <2>5
<1> QED
  BY <1>15, <1>9, <1>12, <1>13, <1>14 DEF Inv

(* A failed launch keeps Inv and reports the end of the session.           *)
LEMMA LaunchFailStep ==
  ASSUME Inv, LaunchFail
  PROVE  Inv' /\ Abstract
<1>1. TypeOK /\ launch = "building" /\ ~holding
  BY DEF Inv, LaunchFail, JsIdle
<1>2. /\ ~run.launchComplete /\ ~Started /\ client.view \in {"running", "gone"}
      /\ loops = <<>>
  BY <1>1 DEF Inv, LaunchInv, StartInv, Started
<1>3. notices = <<>>
  BY <1>2 DEF Inv, ShapeInv, Idle, Looped
<1>4. /\ launch' = "failed" /\ notices' = Send(notices, <<Terminated>>)
      /\ loops' = loops /\ loops' = <<>> /\ holding' = FALSE
      /\ UNCHANGED <<runtime, program, cpu, entryCpu, run, pending, active,
                     rebuild, statuses, told, panel, client>>
  BY <1>1, <1>2 DEF LaunchFail, targetVars, breakpointVars, loopVars, TypeOK
<1>5. Terminated \in Notice
  BY DEF Terminated, Notice
<1>6. Answered /\ notices' \in Seq(Notice)
  BY <1>3, <1>4, <1>5, SendAnswers
<1>7. TypeOK'
  BY <1>1, <1>4, <1>6 DEF TypeOK
<1>8. LaunchInv' /\ StartInv' /\ SkipInv' /\ RunningFlagTracksLoop'
  BY <1>1, <1>2, <1>4
     DEF Inv, LaunchInv, StartInv, SkipInv, RunningFlagTracksLoop
<1>9. ShapeInv'
  BY <1>2, <1>4, <1>6 DEF ShapeInv, Answered, Started
<1>10. Abstract
  <2>1. client'.view = client.view /\ Started'
    BY <1>4 DEF Started
  <2>2. CASE client.view = "gone"
    BY <2>1, <2>2, LeaveAbstract
  <2>3. CASE client.view = "running"
    <3>1. Reported'
      BY <1>6, <2>3 DEF Answered
    <3>2. Doing = "idle" /\ Doing' = "reported"
      BY <1>2, <1>3, <3>1 DEF Doing, Reported
    <3> QED
      BY <1>2, <2>1, <2>3, <3>2, StartAbstract
  <2> QED
    BY <1>2, <2>2, <2>3
<1> QED
  BY <1>10, <1>7, <1>8, <1>9 DEF Inv

(* configurationDone keeps Inv and starts the program at most once.        *)
LEMMA ConfigurationDoneStep ==
  ASSUME Inv, ConfigurationDone
  PROVE  Inv' /\ Abstract
<1> DEFINE r == [run EXCEPT !.configurationDone = TRUE]
<1>1. /\ TypeOK /\ run \in RunState /\ client \in Client /\ ~holding
      /\ client.view \in {"running", "stopped"} /\ ~client.configured
  BY DEF Inv, TypeOK, ConfigurationDone, JsIdle, Listening, Client, Views
<1>2. /\ ~run.configurationDone /\ run.lastStopReason = None
      /\ loops = <<>> /\ run.skipBreakpointOnce = None
  BY <1>1 DEF Inv, LaunchInv, StartInv, SkipInv
<1>3. /\ r \in RunState /\ r.configurationDone
      /\ r.launchComplete = run.launchComplete
      /\ r.isRunning = run.isRunning /\ r.lastStopReason = run.lastStopReason
      /\ r.skipBreakpointOnce = run.skipBreakpointOnce
  BY <1>1 DEF RunState
<1>4. /\ Begin(r, cpu.pc) /\ client' = [client EXCEPT !.configured = TRUE]
      /\ launch' = launch /\ runtime' = runtime
      /\ UNCHANGED <<program, cpu, entryCpu, pending, active, rebuild, panel>>
  BY DEF ConfigurationDone, targetVars, breakpointVars
<1>5. /\ client' \in Client /\ client'.view = client.view /\ client'.configured
  BY <1>1, <1>4 DEF Client
<1> HIDE DEF r
<1>6. CASE run.launchComplete
  <2>1. launch = "complete" /\ ~Started
    BY <1>2, <1>6 DEF Inv, LaunchInv, Started
  <2>2. Idle /\ client.view = "running" /\ runtime
    BY <1>1, <2>1 DEF Inv, ShapeInv, LaunchInv
  <2>3. ~run.isRunning
    BY <1>2, <2>2 DEF Inv, RunningFlagTracksLoop
  <2>4. cpu.pc \in Addr
    BY <1>1 DEF TypeOK, Cpu
  <2>5. /\ run' \in RunState /\ SameLaunch(r, run')
        /\ loops' \in Seq(Loop) /\ holding' \in BOOLEAN
        /\ notices' \in Seq(Notice) /\ statuses' \in Seq({"running", "paused"})
        /\ told' = None \/ told' \in [reason : Reasons, pc : Addr]
        /\ run'.skipBreakpointOnce = None
        /\ run'.isRunning <=> loops' # <<>>
        /\ holding' => loops' # <<>>
        /\ \/ Starts(r) /\ Looped'
           \/ StopsOnEntry(r) /\ loops' = <<>> /\ Answered
           \/ ~Starts(r) /\ ~StopsOnEntry(r)
    BY <1>1, <1>2, <1>3, <1>4, <2>2, <2>3, <2>4, BeginType
  <2>6. Starts(r) \/ StopsOnEntry(r)
    BY <1>2, <1>3, <1>6, ReadyBegins
  <2>7. TypeOK'
    BY <1>1, <1>4, <1>5, <2>5 DEF TypeOK
  <2>8. run'.launchComplete /\ run'.configurationDone
    BY <1>3, <1>6, <2>5 DEF SameLaunch
  <2>9. LaunchInv'
    BY <1>4, <1>5, <2>1, <2>2, <2>8 DEF Inv, LaunchInv
  <2>10. StartInv' /\ SkipInv' /\ RunningFlagTracksLoop'
    BY <2>5, <2>8 DEF StartInv, SkipInv, RunningFlagTracksLoop
  <2>11. ShapeInv'
    BY <1>5, <2>2, <2>5, <2>6, <2>8 DEF ShapeInv, Answered, Started
  <2>12. Abstract
    <3>1. Started'
      BY <2>8 DEF Started
    <3>2. Doing = "idle"
      BY <2>2 DEF Doing, Idle
    <3>3. Looped' \/ Reported'
      BY <2>2, <2>5, <2>6 DEF Answered
    <3>4. Doing' \in {"executing", "reported"}
      <4>1. CASE Looped'
        BY <4>1 DEF Doing, Looped
      <4>2. CASE Reported'
        BY <4>2 DEF Doing, Reported
      <4> QED
        BY <3>3, <4>1, <4>2
    <3> QED
      BY <1>5, <2>1, <2>2, <3>1, <3>2, <3>4, StartAbstract
  <2> QED
    BY <2>7, <2>9, <2>10, <2>11, <2>12 DEF Inv
<1>7. CASE ~run.launchComplete
  <2>1. ~Starts(r) /\ ~StopsOnEntry(r)
    BY <1>3, <1>7 DEF Starts, StopsOnEntry
  <2>2. run' = r /\ UNCHANGED <<loopVars, channelVars>>
    BY <1>4, <2>1 DEF Begin
  <2>3. TypeOK'
    BY <1>1, <1>3, <1>4, <1>5, <2>2 DEF TypeOK, loopVars, channelVars
  <2>4. /\ loops' = loops /\ holding' = holding /\ notices' = notices
        /\ run'.launchComplete = FALSE
        /\ run'.isRunning = run.isRunning /\ run'.lastStopReason = None
        /\ run'.skipBreakpointOnce = None
    BY <1>1, <1>2, <1>3, <1>7, <2>2 DEF loopVars, channelVars, RunState
  <2>5. LaunchInv'
    BY <1>1, <1>3, <1>4, <1>5, <1>7, <2>2 DEF Inv, LaunchInv
  <2>6. StartInv' /\ SkipInv' /\ RunningFlagTracksLoop'
    <3>1. StartInv' /\ SkipInv'
      BY <1>2, <1>7, <2>4 DEF Inv, StartInv, SkipInv
    <3>2. RunningFlagTracksLoop'
      BY <1>4, <2>4 DEF Inv, RunningFlagTracksLoop
    <3> QED
      BY <3>1, <3>2
  <2>7. Started' <=> Started
    BY <1>4, <1>7, <2>4 DEF Started
  <2>8. ShapeInv'
    BY <1>5, <2>4, <2>7 DEF Inv, ShapeInv, Idle, Looped, Reported
  <2>9. Doing' = Doing
    BY <2>4 DEF Doing
  <2>10. Abstract
    BY <1>5, <2>7, <2>9, StutterAbstract
  <2> QED
    BY <2>3, <2>5, <2>6, <2>8, <2>10 DEF Inv
<1> QED
  BY <1>6, <1>7

(* Setting breakpoints keeps Inv and is invisible to RunControl.           *)
LEMMA SetBreakpointsStep ==
  ASSUME Inv, NEW l \in Lines, NEW kind \in Conditions \cup {"none"},
         SetBreakpoints(l, kind)
  PROVE  Inv' /\ Abstract
<1>1. /\ TypeOK /\ JsIdle /\ run.skipBreakpointOnce = None
      /\ client \in Client /\ pending \in [Lines -> BreakpointKind]
  BY DEF Inv, TypeOK, SkipInv, SetBreakpoints, JsIdle
<1>2. kind \in BreakpointKind
  BY ConstantsAssumption DEF BreakpointKind
<1>3. /\ pending' = [pending EXCEPT ![l] = kind] /\ active' = Resolve(program, pending')
      /\ client' = [client EXCEPT !.wanted[l] = kind]
      /\ UNCHANGED <<launch, targetVars, run, loopVars, rebuild, channelVars, panel>>
  BY DEF SetBreakpoints
<1>4. pending' \in [Lines -> BreakpointKind]
  BY <1>1, <1>2, <1>3
<1>5. active' \in [Addr -> BreakpointKind]
  BY <1>3, <1>4, ResolveType
<1>6. [client.wanted EXCEPT ![l] = kind] \in [Lines -> BreakpointKind]
  BY <1>1, <1>2 DEF Client
<1>7. client' \in Client /\ client'.view = client.view /\ client'.configured = client.configured
  BY <1>1, <1>3, <1>6 DEF Client
<1>8. TypeOK'
  BY <1>1, <1>3, <1>4, <1>5, <1>7 DEF TypeOK, targetVars, loopVars, channelVars
<1>9. SameSession /\ loops' = loops /\ holding' = holding /\ notices' = notices /\ run' = run
  BY <1>3, <1>7 DEF SameSession, SameLaunch, targetVars, loopVars, channelVars
<1> QED
  BY <1>1, <1>7, <1>8, <1>9, HandlerKeeps

-----------------------------------------------------------------------------
(* The commands.                                                           *)

(* prepareRun and the loop it leads to.                                    *)
LEMMA PreparedRunStep ==
  ASSUME Inv, Requested, NEW loop \in Loop, run' = PrepareRun, StartLoop(loop),
         UNCHANGED <<cpu, entryCpu, told>>
  PROVE  Inv' /\ Abstract
<1>1. TypeOK
  BY DEF Inv
<1>2. /\ Idle /\ runtime /\ client' \in Client
      /\ client'.configured = client.configured
  BY RequestedFacts
<1>3. /\ run' \in RunState /\ SameLaunch(run, run') /\ run'.isRunning
      /\ run'.pauseRequested = FALSE
      /\ run'.skipBreakpointOnce \in {cpu.pc, None}
  BY <1>1, PrepareRunType
<1>4. /\ loops' \in Seq(Loop) /\ Looped' /\ loops' # <<>> /\ holding' = TRUE
      /\ statuses' \in Seq({"running", "paused"}) /\ notices' = <<>>
  BY <1>1, <1>2, StartLoopType
<1>5. UNCHANGED <<launch, runtime, program, pending, active, rebuild, panel>>
  BY DEF Requested, breakpointVars
<1>6. <<>> \in Seq(Notice)
  OBVIOUS
<1>7. TypeOK'
  BY <1>1, <1>2, <1>3, <1>4, <1>5, <1>6 DEF TypeOK
<1>8. SkipInv'
  BY <1>2, <1>3, <1>4, <1>5 DEF SkipInv
<1>9. SameSession
  BY <1>2, <1>3, <1>5 DEF SameSession
<1> QED
  BY <1>3, <1>4, <1>7, <1>8, <1>9, CommandKeeps

(* Starting a run keeps Inv and is an abstract command.                    *)
LEMMA ResumeStep ==
  ASSUME Inv, NEW targets \in SUBSET Addr, Resume(targets)
  PROVE  Inv' /\ Abstract
<1>1. NewLoop("run", targets, 0, 0, 0) \in Loop
  BY NewLoopType DEF Kinds
<1> QED
  BY <1>1, PreparedRunStep DEF Resume

(* Running to a frame is starting a run.                                   *)
LEMMA RunToStackFrameStep ==
  ASSUME Inv, NEW i \in 1 .. MaxStack, RunToStackFrame(i)
  PROVE  Inv' /\ Abstract
<1>1. cpu.stack \in Seq(Addr) /\ i \in 1 .. Len(cpu.stack)
  BY DEF RunToStackFrame, Inv, TypeOK, Cpu
<1>2. cpu.stack[i] \in Addr
  BY <1>1
<1>3. {cpu.stack[i]} \in SUBSET Addr
  BY <1>2
<1> QED
  BY <1>3, ResumeStep DEF RunToStackFrame

(* Stepping out keeps Inv and is an abstract command.                      *)
LEMMA StepOutStep ==
  ASSUME Inv, StepOut
  PROVE  Inv' /\ Abstract
<1>1. run.callDepth \in Nat /\ StepOutMax \in Nat
  BY ConstantsAssumption DEF Inv, TypeOK, RunState
<1>2. NewLoop("return", {}, run.callDepth, StepOutMax, 0) \in Loop
  BY <1>1, NewLoopType DEF Kinds
<1> QED
  BY <1>2, PreparedRunStep DEF StepOut

(* Next and Step In keep Inv: a command answered at once or by a loop.     *)
LEMMA SingleStepStep ==
  ASSUME Inv, runtime, NEW over \in BOOLEAN, NEW o \in Outcomes, SingleStep(over, o)
  PROVE  Inv' /\ Abstract
<1> DEFINE s == ApplyStepInfo(run, o.kind)
           r == [s EXCEPT !.pauseRequested = FALSE]
           stepOver == o.kind = "call" /\ (over \/ o.cpu.pc \in Unmapped)
<1>1. /\ TypeOK /\ Requested /\ o \in Outcome
  BY OutcomesType DEF Inv, SingleStep
<1>2. /\ Idle /\ loops = <<>> /\ notices = <<>> /\ holding = FALSE
      /\ run.skipBreakpointOnce = None /\ client' \in Client
      /\ client'.configured = client.configured
  BY <1>1, RequestedFacts DEF Idle, TypeOK
<1>3. /\ s \in RunState /\ SameLaunch(run, s) /\ s.skipBreakpointOnce = None
  BY <1>1, <1>2, ApplyStepInfoType DEF TypeOK
<1> HIDE DEF s
<1>4. /\ r \in RunState /\ SameLaunch(run, r) /\ r.skipBreakpointOnce = None
  BY <1>3 DEF RunState, SameLaunch
<1> HIDE DEF r
<1>5. /\ o.cpu \in Cpu /\ o.cpu.pc \in Addr /\ Len(o.cpu.stack) \in Nat
  BY <1>1 DEF Outcome, Cpu
<1>6. /\ UNCHANGED <<launch, runtime, program, pending, active, rebuild, panel>>
      /\ cpu' = o.cpu /\ entryCpu' = CaptureEntry(entryCpu, o.cpu)
  BY <1>1 DEF Requested, SingleStep, breakpointVars
<1>7. entryCpu' \in Cpu \cup {None}
  BY <1>1, <1>5, <1>6 DEF CaptureEntry, TypeOK
<1>8. ASSUME run' \in RunState, SameLaunch(run, run'), loops' \in Seq(Loop),
             run'.skipBreakpointOnce = None,
             holding' \in BOOLEAN, notices' \in Seq(Notice),
             statuses' \in Seq({"running", "paused"}),
             told' = None \/ told' \in [reason : Reasons, pc : Addr],
             \/ run'.isRunning /\ Looped' /\ loops' # <<>>
             \/ ~run'.isRunning /\ Answered /\ loops' = <<>> /\ holding' = FALSE
      PROVE  Inv' /\ Abstract
  <2>1. TypeOK'
    BY <1>1, <1>2, <1>5, <1>6, <1>7, <1>8 DEF TypeOK
  <2>2. SkipInv' /\ SameSession
    BY <1>2, <1>6, <1>8 DEF SkipInv, SameSession
  <2> QED
    BY <1>1, <1>8, <2>1, <2>2, CommandKeeps
<1>9. CASE /\ stepOver
           /\ run' = [r EXCEPT !.haltNotified = FALSE, !.isRunning = TRUE,
                               !.lastStopReason = "step",
                               !.lastBreakpointAddress = None]
           /\ StartLoop(NewLoop("over", {Following[cpu.pc]}, 0, StepOverMax,
                                Len(o.cpu.stack)))
           /\ told' = None
  <2>1. {Following[cpu.pc]} \in SUBSET Addr /\ StepOverMax \in Nat
    BY <1>1, ConstantsAssumption DEF TypeOK, Cpu
  <2>2. NewLoop("over", {Following[cpu.pc]}, 0, StepOverMax, Len(o.cpu.stack)) \in Loop
    BY <1>5, <2>1, NewLoopType DEF Kinds
  <2>3. /\ loops' \in Seq(Loop) /\ Looped' /\ loops' # <<>> /\ holding' = TRUE
        /\ statuses' \in Seq({"running", "paused"}) /\ notices' = <<>>
    BY <1>1, <1>2, <1>9, <2>2, StartLoopType
  <2>4. run' \in RunState /\ SameLaunch(run, run') /\ run'.isRunning
        /\ run'.skipBreakpointOnce = None
    BY <1>4, <1>9 DEF RunState, SameLaunch, Reasons
  <2>5. notices' \in Seq(Notice)
    BY <2>3
  <2> QED
    BY <1>8, <1>9, <2>3, <2>4, <2>5
<1>10. CASE ~stepOver /\ o.cpu.halted /\ run' = HaltStop(r)
            /\ AnnounceHalt(o.cpu.pc) /\ UNCHANGED loopVars
  <2>1. loops' = <<>> /\ holding' = FALSE /\ loops' \in Seq(Loop)
    BY <1>1, <1>2, <1>10 DEF loopVars, TypeOK
  <2>2. /\ Answered
        /\ notices' \in Seq(Notice) /\ statuses' \in Seq({"running", "paused"})
        /\ told' = None \/ told' \in [reason : Reasons, pc : Addr]
    BY <1>1, <1>2, <1>5, <1>10, <2>1, AnnounceHaltType
  <2>3. run' \in RunState /\ SameLaunch(run, run') /\ run'.isRunning = FALSE
        /\ run'.skipBreakpointOnce = None
    BY <1>4, <1>10, HaltStopType DEF SameLaunch
  <2> QED
    BY <1>8, <2>1, <2>2, <2>3
<1>11. CASE ~stepOver /\ ~o.cpu.halted /\ run' = MarkStopped(r, "step", None)
            /\ AnnounceStop("step", <<>>, o.cpu.pc) /\ UNCHANGED loopVars
  <2>1. loops' = <<>> /\ holding' = FALSE /\ loops' \in Seq(Loop) /\ "step" \in Reasons
    BY <1>1, <1>2, <1>11 DEF loopVars, TypeOK, Reasons
  <2>2. /\ Answered
        /\ notices' \in Seq(Notice) /\ statuses' \in Seq({"running", "paused"})
        /\ told' \in [reason : Reasons, pc : Addr]
    BY <1>1, <1>2, <1>5, <1>11, <2>1, AnnounceStopType
  <2>3. run' \in RunState /\ SameLaunch(run, run') /\ run'.isRunning = FALSE
        /\ run'.skipBreakpointOnce = None
    <3>1. LET t == MarkStopped(r, "step", None)
          IN  t \in RunState /\ SameLaunch(r, t) /\ t.isRunning = FALSE
              /\ t.skipBreakpointOnce = r.skipBreakpointOnce
      BY <1>4, <2>1, MarkStoppedType
    <3> QED
      BY <1>4, <1>11, <3>1 DEF SameLaunch
  <2> QED
    BY <1>8, <2>1, <2>2, <2>3
<1> QED
  BY <1>9, <1>10, <1>11 DEF SingleStep, s, r

(* A pause keeps Inv and is invisible to RunControl.                       *)
LEMMA PauseStep ==
  ASSUME Inv, Pause
  PROVE  Inv' /\ Abstract
<1>1. /\ TypeOK /\ JsIdle /\ run.skipBreakpointOnce = None
      /\ run \in RunState /\ client \in Client
  BY DEF Inv, TypeOK, SkipInv, Pause, JsIdle
<1>2. /\ run' \in RunState /\ SameLaunch(run, run')
      /\ run'.isRunning = run.isRunning
      /\ run'.lastStopReason = run.lastStopReason
      /\ run'.skipBreakpointOnce = None
  BY <1>1 DEF Pause, RunState, SameLaunch
<1>3. /\ client' \in Client /\ client'.view = client.view
      /\ client'.configured = client.configured
  BY <1>1 DEF Pause, Client
<1>4. TypeOK'
  BY <1>1, <1>2, <1>3
     DEF TypeOK, Pause, targetVars, breakpointVars, loopVars, channelVars
<1>5. SameSession /\ loops' = loops /\ holding' = holding /\ notices' = notices
  BY <1>2, <1>3 DEF SameSession, Pause, targetVars, loopVars, channelVars
<1> QED
  BY <1>1, <1>2, <1>3, <1>4, <1>5, HandlerKeeps

(* A disconnect keeps Inv: the client leaves.                              *)
LEMMA DisconnectStep ==
  ASSUME Inv, Disconnect
  PROVE  Inv' /\ Abstract
<1>1. /\ TypeOK /\ JsIdle /\ run.skipBreakpointOnce = None
      /\ run \in RunState /\ client \in Client
      /\ client.view \in {"running", "stopped", "ended"}
  BY DEF Inv, TypeOK, SkipInv, Disconnect, JsIdle, Client, Views
<1>2. /\ run' \in RunState /\ SameLaunch(run, run')
      /\ run'.isRunning = FALSE /\ run'.lastStopReason = run.lastStopReason
      /\ run'.skipBreakpointOnce = None
  BY <1>1 DEF Disconnect, RunState, SameLaunch
<1>3. /\ client' \in Client /\ client'.view = "gone"
      /\ client'.configured = client.configured
  BY <1>1 DEF Disconnect, Client, Views
<1>4. <<>> \in Seq(Notice) /\ <<>> \in Seq({"running", "paused"})
  OBVIOUS
<1>5. /\ runtime' = FALSE /\ entryCpu' = None
      /\ notices' = <<>> /\ statuses' = <<>> /\ panel' = "not running"
      /\ UNCHANGED <<launch, program, cpu, pending, active, loops, holding,
                     rebuild, told>>
  BY DEF Disconnect, breakpointVars, loopVars
<1>6. TypeOK'
  BY <1>1, <1>2, <1>3, <1>4, <1>5 DEF TypeOK
<1>7. LaunchInv'
  BY <1>1, <1>2, <1>3, <1>5 DEF Inv, LaunchInv, SameLaunch
<1>8. StartInv' /\ SkipInv' /\ RunningFlagTracksLoop'
  BY <1>2, <1>5 DEF Inv, StartInv, SkipInv, RunningFlagTracksLoop, SameLaunch
<1>9. ShapeInv'
  <2>1. Idle \/ Looped \/ Reported
    BY <1>1 DEF Inv, ShapeInv
  <2> QED
    BY <1>3, <1>5, <2>1 DEF Inv, ShapeInv, Idle, Looped, Reported
<1>10. Abstract
  BY <1>1, <1>3, LeaveAbstract
<1> QED
  BY <1>10, <1>6, <1>7, <1>8, <1>9 DEF Inv

-----------------------------------------------------------------------------
(* The platform's requests.                                                *)

(* Resets, PC edits and rebuilds keep Inv and are invisible.               *)
LEMMA PlatformStep ==
  ASSUME Inv, Platform
  PROVE  Inv' /\ Abstract
<1>1. TypeOK /\ run \in RunState
  BY DEF Inv, TypeOK
<1>2. ASSUME JsIdle, TypeOK', SameLaunch(run, run'),
             run'.isRunning = run.isRunning,
             run'.lastStopReason = run.lastStopReason,
             run'.skipBreakpointOnce = None,
             UNCHANGED <<launch, runtime, loopVars, channelVars, client>>
      PROVE  Inv' /\ Abstract
  <2>1. SameSession /\ loops' = loops /\ holding' = holding /\ notices' = notices
        /\ client'.view = client.view
    BY <1>2 DEF SameSession, loopVars, channelVars
  <2> QED
    BY <1>2, <2>1, HandlerKeeps
<1>3. JsIdle => run.skipBreakpointOnce = None
  BY DEF Inv, SkipInv, JsIdle
<1>4. ResetCpu \in Cpu
  BY ConstantsAssumption DEF ResetCpu, Cpu
<1>5. CASE PlatformReset
  <2>1. TypeOK'
    BY <1>1, <1>4, <1>5
       DEF PlatformReset, TypeOK, breakpointVars, loopVars, channelVars
  <2> QED
    BY <1>2, <1>3, <1>5, <2>1 DEF PlatformReset, SameLaunch
<1>6. ASSUME NEW a \in PcEdits, SetPc(a) PROVE Inv' /\ Abstract
  <2>1. a \in Addr
    BY ConstantsAssumption
  <2>2. cpu' \in Cpu
    BY <1>1, <1>6, <2>1 DEF SetPc, TypeOK, Cpu
  <2>3. TypeOK'
    BY <1>1, <1>6, <2>2 DEF SetPc, TypeOK, breakpointVars, loopVars, channelVars
  <2> QED
    BY <1>2, <1>3, <1>6, <2>3 DEF SetPc, SameLaunch
<1>7. CASE RebuildRequest
  <2>1. TypeOK'
    BY <1>1, <1>7
       DEF RebuildRequest, TypeOK, targetVars, breakpointVars, loopVars, channelVars
  <2> QED
    BY <1>2, <1>3, <1>7, <2>1 DEF RebuildRequest, SameLaunch, targetVars
<1>8. ASSUME NEW v \in Versions, RebuildFinish(v) PROVE Inv' /\ Abstract
  <2>1. /\ run' \in RunState /\ SameLaunch(run, run')
        /\ run'.isRunning = run.isRunning
        /\ run'.lastStopReason = run.lastStopReason
        /\ run'.skipBreakpointOnce = None
    BY <1>1, <1>8 DEF RebuildFinish, RunState, SameLaunch
  <2>2. active' \in [Addr -> BreakpointKind]
    BY <1>1, <1>8, ResolveType DEF RebuildFinish, ApplyAll, TypeOK
  <2>3. cpu' \in Cpu
    BY <1>1, <1>4, <1>8 DEF RebuildFinish, TypeOK
  <2>4. TypeOK'
    BY <1>1, <1>8, <2>1, <2>2, <2>3
       DEF RebuildFinish, TypeOK, loopVars, channelVars
  <2> QED
    BY <1>2, <1>8, <2>1, <2>4 DEF RebuildFinish
<1>9. CASE RebuildFail
  <2>1. TypeOK'
    BY <1>1, <1>9
       DEF RebuildFail, TypeOK, targetVars, breakpointVars, loopVars, channelVars
  <2> QED
    BY <1>2, <1>3, <1>9, <2>1 DEF RebuildFail, SameLaunch, targetVars
<1> QED
  BY <1>5, <1>6, <1>7, <1>8, <1>9 DEF Platform

-----------------------------------------------------------------------------
(* The run loop.                                                           *)

(* A loop that finds the runtime gone ends; the client has left.           *)
LEMMA LoopRuntimeGoneStep ==
  ASSUME Inv, LoopRuntimeGone
  PROVE  Inv' /\ Abstract
<1>1. TypeOK /\ holding /\ ~runtime /\ EndLoop
  BY DEF Inv, LoopRuntimeGone
<1>2. Looped /\ notices = <<>> /\ launch = "complete"
  BY <1>1, HoldingFacts
<1>3. client.view = "gone"
  BY <1>1, <1>2 DEF Inv, LaunchInv
<1>4. loops' = <<>> /\ holding' = FALSE
  BY <1>1, <1>2, EndLoopType
<1>5. UNCHANGED <<launch, runtime, program, cpu, entryCpu, run, pending, active,
                  rebuild, notices, statuses, told, panel, client>>
  BY DEF LoopRuntimeGone, targetVars, breakpointVars, channelVars
<1>6. <<>> \in Seq(Loop)
  OBVIOUS
<1>7. TypeOK'
  BY <1>1, <1>4, <1>5, <1>6 DEF TypeOK
<1>8. LaunchInv' /\ StartInv' /\ SkipInv' /\ RunningFlagTracksLoop'
  BY <1>1, <1>4, <1>5
     DEF Inv, LaunchInv, StartInv, SkipInv, RunningFlagTracksLoop
<1>9. ShapeInv'
  BY <1>2, <1>3, <1>4, <1>5 DEF ShapeInv, Idle
<1>10. Abstract
  BY <1>3, <1>5, LeaveAbstract
<1> QED
  BY <1>10, <1>7, <1>8, <1>9 DEF Inv

(* A loop that stops, for whatever reason, ends with its answer.           *)
LEMMA LoopAnswersStep ==
  ASSUME Inv, Iterating, run' \in RunState, SameLaunch(run, run'),
         run'.isRunning = FALSE, run'.skipBreakpointOnce = None,
         cpu' \in Cpu, entryCpu' \in Cpu \cup {None}, EndLoop, Answered,
         notices' \in Seq(Notice), statuses' \in Seq({"running", "paused"}),
         told' = None \/ told' \in [reason : Reasons, pc : Addr]
  PROVE  Inv' /\ Abstract
<1>1. /\ TypeOK /\ holding /\ runtime
      /\ UNCHANGED <<launch, runtime, program, pending, active, rebuild, panel, client>>
  BY DEF Inv, Iterating, breakpointVars
<1>2. loops' = <<>> /\ holding' = FALSE
  BY <1>1, HoldingFacts, EndLoopType
<1>3. <<>> \in Seq(Loop)
  OBVIOUS
<1>4. TypeOK'
  BY <1>1, <1>2, <1>3 DEF TypeOK
<1>5. SameSession /\ client'.view = client.view
  BY <1>1 DEF SameSession
<1> QED
  BY <1>1, <1>2, <1>4, <1>5, StopKeeps

(* A loop that stops with an event keeps Inv and is an abstract report.    *)
LEMMA StopLoopStep ==
  ASSUME Inv, Iterating, NEW r \in RunState, SameLaunch(run, r),
         r.skipBreakpointOnce = None, NEW reason \in Reasons,
         NEW bp \in Addr \cup {None}, NEW c \in Cpu, StopLoop(r, reason, bp, c),
         cpu' \in Cpu, entryCpu' \in Cpu \cup {None}
  PROVE  Inv' /\ Abstract
<1>1. TypeOK /\ holding /\ EndLoop /\ c.pc \in Addr
  BY DEF Inv, Iterating, StopLoop, Cpu
<1>2. Looped /\ notices = <<>>
  BY <1>1, HoldingFacts
<1>3. loops' = <<>>
  BY <1>1, <1>2, EndLoopType
<1>4. /\ Answered
      /\ notices' \in Seq(Notice) /\ statuses' \in Seq({"running", "paused"})
      /\ told' \in [reason : Reasons, pc : Addr]
  BY <1>1, <1>2, <1>3, AnnounceStopType DEF StopLoop
<1>5. LET s == MarkStopped(r, reason, bp)
      IN  /\ s \in RunState /\ SameLaunch(r, s) /\ s.isRunning = FALSE
          /\ s.skipBreakpointOnce = r.skipBreakpointOnce
  BY MarkStoppedType
<1>6. /\ run' \in RunState /\ SameLaunch(run, run') /\ run'.isRunning = FALSE
      /\ run'.skipBreakpointOnce = None
  BY <1>5 DEF StopLoop, SameLaunch
<1> QED
  BY <1>1, <1>4, <1>6, LoopAnswersStep

(* The entry state a loop captures is a CPU.                               *)
LEMMA CapturedType ==
  ASSUME TypeOK, NEW c \in Cpu
  PROVE  Captured(c) \in Cpu \cup {None}
  BY DEF Captured, CaptureEntry, TypeOK

(* A loop that stops before an instruction keeps Inv.                      *)
LEMMA LoopPausedStep ==
  ASSUME Inv, LoopPaused
  PROVE  Inv' /\ Abstract
<1> DEFINE r == [run EXCEPT !.pauseRequested = FALSE]
<1>1. /\ TypeOK /\ cpu \in Cpu /\ run \in RunState /\ Iterating
      /\ run.skipBreakpointOnce = None
  BY DEF Inv, TypeOK, SkipInv, LoopPaused
<1>2. r \in RunState /\ SameLaunch(run, r) /\ r.skipBreakpointOnce = None
  BY <1>1 DEF RunState, SameLaunch
<1>3. StopLoop(r, "pause", None, cpu) /\ cpu' = cpu /\ entryCpu' = Captured(cpu)
  BY DEF LoopPaused
<1> HIDE DEF r
<1>4. "pause" \in Reasons
  BY DEF Reasons
<1> QED
  BY <1>1, <1>2, <1>3, <1>4, CapturedType, StopLoopStep

(* Where a loop checks for a breakpoint or target no skip is armed.        *)
LEMMA LoopChecksStep ==
  ASSUME Inv, LoopBreakpoint \/ LoopTarget
  PROVE  Inv' /\ Abstract
<1>1. /\ TypeOK /\ cpu \in Cpu /\ run \in RunState /\ Iterating
      /\ run.skipBreakpointOnce = None /\ cpu.pc \in Addr
  BY DEF Inv, TypeOK, SkipInv, LoopBreakpoint, LoopTarget, Skipping, Cpu
<1>2. cpu' = cpu /\ entryCpu' = Captured(cpu) /\ Captured(cpu) \in Cpu \cup {None}
  BY <1>1, CapturedType DEF LoopBreakpoint, LoopTarget
<1>3. "breakpoint" \in Reasons /\ "step" \in Reasons /\ SameLaunch(run, run)
  BY DEF Reasons, SameLaunch
<1>4. StopLoop(run, "breakpoint", cpu.pc, cpu) \/ StopLoop(run, "step", None, cpu)
  BY DEF LoopBreakpoint, LoopTarget
<1> QED
  BY <1>1, <1>2, <1>3, <1>4, StopLoopStep

(* What executing an instruction leaves behind.                            *)
LEMMA ExecutesType ==
  ASSUME Inv, NEW o \in Outcomes, Executes(o)
  PROVE  /\ TypeOK /\ Iterating /\ o.cpu \in Cpu /\ o.cpu.pc \in Addr
         /\ cpu' \in Cpu /\ entryCpu' \in Cpu \cup {None}
         /\ RunAfter(o) \in RunState /\ SameLaunch(run, RunAfter(o))
         /\ RunAfter(o).isRunning = run.isRunning
         /\ RunAfter(o).lastStopReason = run.lastStopReason
         /\ RunAfter(o).skipBreakpointOnce = None
<1>1. TypeOK /\ Iterating /\ runtime
  BY DEF Inv, Executes, Iterating
<1>2. o \in Outcome
  BY <1>1, OutcomesType
<1>3. o.cpu \in Cpu /\ o.cpu.pc \in Addr /\ cpu \in Cpu
  BY <1>1, <1>2 DEF Outcome, Cpu, TypeOK
<1>4. entryCpu' \in Cpu \cup {None} /\ cpu' = o.cpu
  BY <1>1, <1>3 DEF Executes, CaptureEntry, TypeOK
<1>5. run.skipBreakpointOnce = None \/ run.skipBreakpointOnce = cpu.pc
  BY DEF Inv, SkipInv
<1> QED
  BY <1>1, <1>3, <1>4, <1>5, RunAfterType

(* A loop that meets a HALT keeps Inv and reports once.                    *)
LEMMA LoopHaltsStep ==
  ASSUME Inv, NEW o \in Outcomes, LoopHalts(o)
  PROVE  Inv' /\ Abstract
<1>1. Executes(o) /\ run' = HaltStop(RunAfter(o)) /\ AnnounceHalt(o.cpu.pc) /\ EndLoop
  BY DEF LoopHalts
<1>2. /\ TypeOK /\ Iterating /\ o.cpu.pc \in Addr
      /\ cpu' \in Cpu /\ entryCpu' \in Cpu \cup {None}
      /\ RunAfter(o) \in RunState /\ SameLaunch(run, RunAfter(o))
      /\ RunAfter(o).skipBreakpointOnce = None
  BY <1>1, ExecutesType
<1>3. Looped /\ notices = <<>>
  BY <1>2, HoldingFacts DEF Iterating
<1>4. loops' = <<>>
  BY <1>1, <1>3, EndLoopType
<1>5. /\ Answered
      /\ notices' \in Seq(Notice) /\ statuses' \in Seq({"running", "paused"})
      /\ told' = None \/ told' \in [reason : Reasons, pc : Addr]
  BY <1>1, <1>2, <1>3, <1>4, AnnounceHaltType
<1>6. LET s == HaltStop(RunAfter(o))
      IN  /\ s \in RunState /\ SameLaunch(RunAfter(o), s) /\ s.isRunning = FALSE
          /\ s.skipBreakpointOnce = RunAfter(o).skipBreakpointOnce
  BY <1>2, HaltStopType
<1>7. /\ run' \in RunState /\ SameLaunch(run, run') /\ run'.isRunning = FALSE
      /\ run'.skipBreakpointOnce = None
  BY <1>1, <1>2, <1>6 DEF SameLaunch
<1> QED
  BY <1>1, <1>2, <1>5, <1>7, LoopAnswersStep

(* A loop that stops after an instruction keeps Inv.                       *)
LEMMA LoopStepsStep ==
  ASSUME Inv, NEW o \in Outcomes, LoopReturns(o) \/ LoopLimit(o)
  PROVE  Inv' /\ Abstract
<1>1. Executes(o) /\ StopLoop(RunAfter(o), "step", None, o.cpu)
  BY DEF LoopReturns, LoopLimit
<1>2. /\ Iterating /\ o.cpu \in Cpu
      /\ cpu' \in Cpu /\ entryCpu' \in Cpu \cup {None}
      /\ RunAfter(o) \in RunState /\ SameLaunch(run, RunAfter(o))
      /\ RunAfter(o).skipBreakpointOnce = None
  BY <1>1, ExecutesType
<1>3. "step" \in Reasons
  BY DEF Reasons
<1> QED
  BY <1>1, <1>2, <1>3, StopLoopStep

(* A loop that goes on, or yields, keeps Inv and is invisible.             *)
LEMMA LoopAdvancesStep ==
  ASSUME Inv, NEW o \in Outcomes, LoopAdvances(o)
  PROVE  Inv' /\ Abstract
<1>1. /\ Executes(o) /\ run' = RunAfter(o) /\ told' = None
      /\ notices' = notices /\ statuses' = statuses
  BY DEF LoopAdvances
<1>2. /\ TypeOK /\ Iterating /\ o.cpu \in Cpu
      /\ cpu' \in Cpu /\ entryCpu' \in Cpu \cup {None}
      /\ RunAfter(o) \in RunState /\ SameLaunch(run, RunAfter(o))
      /\ RunAfter(o).isRunning = run.isRunning
      /\ RunAfter(o).lastStopReason = run.lastStopReason
      /\ RunAfter(o).skipBreakpointOnce = None
  BY <1>1, ExecutesType
<1>3. /\ holding /\ runtime
      /\ UNCHANGED <<launch, runtime, program, pending, active, rebuild, panel, client>>
  BY <1>2 DEF Iterating, breakpointVars
<1>4. /\ Looped /\ loops # <<>> /\ notices = <<>> /\ launch = "complete"
      /\ run.launchComplete /\ run.configurationDone /\ run.isRunning
      /\ client.view \in {"running", "gone"}
  BY <1>3, HoldingFacts
<1>5. PICK l \in Loop : loops = <<l>>
  BY <1>4 DEF Looped
<1>6. Current = l /\ Tail(loops) = <<>>
  <2>1. Head(<<l>>) = l /\ Tail(<<l>>) = <<>>
    OBVIOUS
  <2> QED
    BY <1>5, <2>1 DEF Current
<1>7. Counted \in Loop /\ Counted.i = l.i
  <2>1. l.executed \in Nat
    BY DEF Loop
  <2>2. PICK n \in Nat : n = IF l.max > 0 THEN l.executed + 1 ELSE l.executed
    BY <2>1
  <2>3. Counted = [l EXCEPT !.executed = n]
    BY <1>6, <2>2 DEF Counted
  <2> QED
    BY <2>2, <2>3 DEF Loop
<1>8. \E m \in Loop : loops' = <<m>>
  <2>1. ASSUME Current.i + 1 < Chunk,
               loops' = <<[Counted EXCEPT !.i = @ + 1]>> \o Tail(loops)
        PROVE  \E m \in Loop : loops' = <<m>>
    <3>1. l.i + 1 \in 0 .. Chunk - 1
      <4>1. l.i \in 0 .. Chunk - 1 /\ Chunk \in Nat
        BY ConstantsAssumption DEF Loop
      <4> QED
        BY <1>6, <2>1, <4>1
    <3>2. [Counted EXCEPT !.i = @ + 1] = [Counted EXCEPT !.i = l.i + 1]
      BY <1>7
    <3>3. [Counted EXCEPT !.i = l.i + 1] \in Loop
      BY <1>7, <3>1 DEF Loop
    <3> DEFINE m == [Counted EXCEPT !.i = @ + 1]
    <3>4. m \in Loop
      BY <3>2, <3>3
    <3> HIDE DEF m
    <3>5. <<m>> \o <<>> = <<m>>
      BY <3>4
    <3> QED
      BY <1>6, <2>1, <3>4, <3>5 DEF m
  <2>2. ASSUME loops' = Append(Tail(loops), [Counted EXCEPT !.i = 0])
        PROVE  \E m \in Loop : loops' = <<m>>
    <3>1. 0 \in 0 .. Chunk - 1
      BY ConstantsAssumption
    <3> DEFINE m == [Counted EXCEPT !.i = 0]
    <3>2. m \in Loop
      BY <1>7, <3>1 DEF Loop
    <3> HIDE DEF m
    <3>3. Append(<<>>, m) = <<m>>
      BY <3>2
    <3> QED
      BY <1>6, <2>2, <3>2, <3>3 DEF m
  <2> QED
    BY <2>1, <2>2 DEF LoopAdvances
<1>9. loops' # <<>> /\ loops' \in Seq(Loop) /\ holding' \in BOOLEAN
  <2>1. PICK m \in Loop : loops' = <<m>>
    BY <1>8
  <2>2. <<m>> # <<>> /\ <<m>> \in Seq(Loop)
    OBVIOUS
  <2>3. holding' \in BOOLEAN
    BY <1>2 DEF LoopAdvances, TypeOK
  <2> QED
    BY <2>1, <2>2, <2>3
<1>10. TypeOK'
  BY <1>1, <1>2, <1>3, <1>9 DEF TypeOK
<1>11. LaunchInv'
  BY <1>1, <1>2, <1>3 DEF Inv, LaunchInv, SameLaunch
<1>12. StartInv' /\ SkipInv' /\ RunningFlagTracksLoop'
  BY <1>1, <1>2, <1>4, <1>9 DEF StartInv, SkipInv, RunningFlagTracksLoop, SameLaunch
<1>13. ShapeInv'
  <2>1. Looped'
    BY <1>1, <1>4, <1>8 DEF Looped
  <2>2. Started'
    BY <1>1, <1>2, <1>4 DEF Started, SameLaunch
  <2>3. client'.view = client.view
    BY <1>3
  <2> QED
    BY <1>4, <1>9, <2>1, <2>2, <2>3 DEF ShapeInv
<1>14. Abstract
  <2>1. Started /\ Started' /\ client'.view = client.view
    BY <1>1, <1>2, <1>3, <1>4 DEF Started, SameLaunch
  <2>2. Doing' = Doing
    BY <1>4, <1>9 DEF Doing
  <2> QED
    BY <2>1, <2>2, StutterAbstract
<1> QED
  BY <1>14, <1>10, <1>11, <1>12, <1>13 DEF Inv

(* A parked loop that gets the thread back keeps Inv.                      *)
LEMMA LoopResumeStep ==
  ASSUME Inv, LoopResume
  PROVE  Inv' /\ Abstract
<1>1. /\ TypeOK /\ ~holding /\ loops # <<>> /\ holding' = TRUE
      /\ UNCHANGED <<launch, runtime, program, cpu, entryCpu, run, pending, active,
                     loops, rebuild, notices, statuses, told, panel, client>>
  BY DEF Inv, LoopResume, JsIdle, targetVars, breakpointVars, channelVars
<1>2. run.skipBreakpointOnce = None
  BY <1>1 DEF Inv, SkipInv
<1>3. TypeOK'
  BY <1>1 DEF TypeOK
<1>4. LaunchInv' /\ StartInv' /\ SkipInv' /\ RunningFlagTracksLoop'
  BY <1>1, <1>2 DEF Inv, LaunchInv, StartInv, SkipInv, RunningFlagTracksLoop
<1>5. ShapeInv'
  BY <1>1 DEF Inv, ShapeInv, Started, Idle, Looped, Reported
<1>6. Abstract
  <2>1. (Started' <=> Started) /\ Doing' = Doing /\ client'.view = client.view
    BY <1>1 DEF Started, Doing
  <2> QED
    BY <2>1, StutterAbstract
<1> QED
  BY <1>6, <1>3, <1>4, <1>5 DEF Inv

-----------------------------------------------------------------------------
(* The deliveries.                                                         *)

(* A notice can arrive only while the client waits for it.                 *)
LEMMA NoticeFacts ==
  ASSUME Inv, notices # <<>>
  PROVE  Reported /\ client.view = "running" /\ Started /\ loops = <<>> /\ ~holding
<1>1. client.view = "running" /\ Started /\ Reported
  BY DEF Inv, ShapeInv, Idle, Looped, TypeOK, Client, Views
<1> QED
  BY <1>1 DEF Reported, Inv, ShapeInv

(* The delivery of a report keeps Inv and is the abstract delivery.        *)
LEMMA DeliverNoticeStep ==
  ASSUME Inv, DeliverNotice
  PROVE  Inv' /\ Abstract
<1>1. /\ TypeOK /\ client \in Client /\ notices # <<>> /\ notices' = Tail(notices)
      /\ UNCHANGED <<launch, runtime, program, cpu, entryCpu, run, pending, active,
                     loops, holding, rebuild, statuses, told, panel>>
  BY DEF Inv, TypeOK, DeliverNotice, targetVars, breakpointVars, loopVars
<1>2. Reported /\ client.view = "running" /\ Started /\ loops = <<>> /\ ~holding
  BY <1>1, NoticeFacts
<1>3. /\ client' \in Client /\ client'.view \in {"stopped", "ended"}
      /\ client'.configured = client.configured
  BY <1>1 DEF DeliverNotice, Client, Views
<1>4. notices' = <<>>
  <2>1. PICK n \in Notice : notices = <<n>>
    BY <1>2 DEF Reported
  <2>2. Tail(<<n>>) = <<>>
    OBVIOUS
  <2> QED
    BY <1>1, <2>1, <2>2
<1>5. <<>> \in Seq(Notice)
  OBVIOUS
<1>6. TypeOK'
  BY <1>1, <1>3, <1>4, <1>5 DEF TypeOK
<1>7. LaunchInv'
  BY <1>1, <1>2, <1>3 DEF Inv, LaunchInv, Started
<1>8. StartInv' /\ SkipInv' /\ RunningFlagTracksLoop'
  BY <1>1 DEF Inv, StartInv, SkipInv, RunningFlagTracksLoop
<1>9. ShapeInv'
  <2>1. Started' /\ Idle' /\ ~holding'
    BY <1>1, <1>2, <1>4 DEF Started, Idle
  <2> QED
    BY <1>3, <2>1 DEF ShapeInv
<1>10. Abstract
  <2>1. Started'
    BY <1>1, <1>2 DEF Started
  <2>2. Doing = "reported" /\ Doing' = "idle"
    BY <1>1, <1>2, <1>4 DEF Doing
  <2> QED
    BY <1>2, <1>3, <2>1, <2>2
       DEF Abstract, RunControlMapping!Next, RunControlMapping!Deliver
<1> QED
  BY <1>10, <1>6, <1>7, <1>8, <1>9 DEF Inv

(* The delivery of a status keeps Inv and is invisible.                    *)
LEMMA DeliverStatusStep ==
  ASSUME Inv, DeliverStatus
  PROVE  Inv' /\ Abstract
<1>1. /\ TypeOK /\ statuses # <<>> /\ panel' = Head(statuses) /\ statuses' = Tail(statuses)
      /\ UNCHANGED <<launch, runtime, program, cpu, entryCpu, run, pending, active,
                     loops, holding, rebuild, notices, told, client>>
  BY DEF Inv, DeliverStatus, targetVars, breakpointVars, loopVars
<1>2. statuses \in Seq({"running", "paused"})
  BY <1>1 DEF TypeOK
<1>3. statuses' \in Seq({"running", "paused"}) /\ panel' \in {"running", "paused"}
  BY <1>1, <1>2
<1>4. TypeOK'
  BY <1>1, <1>3 DEF TypeOK
<1>5. LaunchInv' /\ StartInv' /\ SkipInv' /\ RunningFlagTracksLoop'
  BY <1>1 DEF Inv, LaunchInv, StartInv, SkipInv, RunningFlagTracksLoop
<1>6. ShapeInv'
  BY <1>1 DEF Inv, ShapeInv, Started, Idle, Looped, Reported
<1>7. Abstract
  <2>1. (Started' <=> Started) /\ Doing' = Doing /\ client'.view = client.view
    BY <1>1 DEF Started, Doing
  <2> QED
    BY <2>1, StutterAbstract
<1> QED
  BY <1>7, <1>4, <1>5, <1>6 DEF Inv

-----------------------------------------------------------------------------
(* The theorems.                                                           *)

(* The invariant holds initially.                                          *)
LEMMA InitInv == Init => Inv
<1> SUFFICES ASSUME Init PROVE Inv
  OBVIOUS
<1>1. ResetCpu \in Cpu /\ InitialRunState(FALSE) \in RunState
  BY ConstantsAssumption DEF ResetCpu, Cpu, InitialRunState, RunState
<1>2. NoLines \in [Lines -> BreakpointKind]
  BY DEF NoLines, BreakpointKind
<1>3. Resolve(None, NoLines) \in [Addr -> BreakpointKind]
  BY <1>2, ResolveType
<1>4. <<>> \in Seq(Loop) /\ <<>> \in Seq(Notice) /\ <<>> \in Seq({"running", "paused"})
  OBVIOUS
<1>5. TypeOK
  BY <1>1, <1>2, <1>3, <1>4 DEF Init, TypeOK, Client, Views
<1>6. LaunchInv /\ StartInv /\ SkipInv /\ RunningFlagTracksLoop
  BY DEF Init, LaunchInv, StartInv, SkipInv, RunningFlagTracksLoop, InitialRunState
<1>7. ShapeInv
  BY DEF Init, ShapeInv, Idle
<1> QED
  BY <1>5, <1>6, <1>7 DEF Inv

(* Every step keeps the invariant and is abstractly a step or a stutter.   *)
LEMMA NextInv == Inv /\ [Next]_vars => Inv' /\ Abstract
<1> SUFFICES ASSUME Inv, [Next]_vars PROVE Inv' /\ Abstract
  OBVIOUS
<1>1. CASE Configuring
  BY <1>1, LaunchRequestStep, LaunchFinishStep, LaunchFailStep,
     SetBreakpointsStep, ConfigurationDoneStep DEF Configuring
<1>2. CASE Executing
  <2>1. CASE Continue
    BY <2>1, ResumeStep DEF Continue
  <2>2. ASSUME NEW a \in Addr, Goto(a) PROVE Inv' /\ Abstract
    BY <2>2, ResumeStep DEF Goto
  <2> QED
    BY <1>2, <2>1, <2>2, RunToStackFrameStep, SingleStepStep, StepOutStep,
       PauseStep, DisconnectStep DEF Executing
<1>3. CASE Platform
  BY <1>3, PlatformStep
<1>4. CASE Looping
  BY <1>4, LoopRuntimeGoneStep, LoopPausedStep, LoopChecksStep, LoopHaltsStep,
     LoopStepsStep, LoopAdvancesStep, LoopResumeStep DEF Looping
<1>5. CASE Delivering
  BY <1>5, DeliverNoticeStep, DeliverStatusStep DEF Delivering
<1>6. CASE UNCHANGED vars
  <2>1. /\ UNCHANGED <<launch, runtime, program, cpu, entryCpu, run, pending, active>>
        /\ UNCHANGED <<loops, holding, rebuild, notices, statuses, told, panel, client>>
    BY <1>6 DEF vars, targetVars, breakpointVars, loopVars, channelVars
  <2>2. TypeOK'
    BY <2>1 DEF Inv, TypeOK
  <2>3. LaunchInv' /\ StartInv' /\ SkipInv' /\ RunningFlagTracksLoop'
    BY <2>1 DEF Inv, LaunchInv, StartInv, SkipInv, RunningFlagTracksLoop
  <2>4. ShapeInv'
    BY <2>1 DEF Inv, ShapeInv, Started, Idle, Looped, Reported
  <2>5. (Started' <=> Started) /\ Doing' = Doing /\ client'.view = client.view
    BY <2>1 DEF Started, Doing
  <2>6. Abstract
    BY <2>5, StutterAbstract
  <2> QED
    BY <2>2, <2>3, <2>4, <2>6 DEF Inv
<1> QED
  BY <1>1, <1>2, <1>3, <1>4, <1>5, <1>6 DEF Next

(* The invariant holds of every session, whatever the program and bounds.  *)
THEOREM InvariantHolds == Spec => []Inv
<1> QED
  BY InitInv, NextInv, PTL DEF Spec

(* Every variable keeps its type: in particular the program is in memory   *)
(* whenever there is a runtime to execute it.                              *)
THEOREM TypeCorrect == Spec => []TypeOK
<1>1. Inv => TypeOK
  BY DEF Inv
<1> QED
  BY <1>1, InvariantHolds, PTL

(* There is never more than one run loop on the CPU.                       *)
THEOREM OneLoop == Spec => []AtMostOneLoop
<1>1. Inv => AtMostOneLoop
  <2> SUFFICES ASSUME Inv PROVE AtMostOneLoop
    OBVIOUS
  <2>1. Idle \/ Looped \/ Reported
    BY DEF Inv, ShapeInv, TypeOK, Client, Views
  <2>2. Len(loops) <= 1
    <3>1. CASE loops = <<>>
      BY <3>1
    <3>2. CASE \E l \in Loop : loops = <<l>>
      BY <3>2
    <3> QED
      BY <2>1, <3>1, <3>2 DEF Idle, Looped, Reported
  <2> QED
    BY <2>2 DEF AtMostOneLoop, Inv, ShapeInv
<1> QED
  BY <1>1, InvariantHolds, PTL

(* isRunning guards edits of registers and memory exactly while a loop     *)
(* exists.                                                                 *)
THEOREM FlagTracksLoop == Spec => []RunningFlagTracksLoop
<1>1. Inv => RunningFlagTracksLoop
  BY DEF Inv
<1> QED
  BY <1>1, InvariantHolds, PTL

(* Each run is answered by exactly one event: neither a second one nor     *)
(* silence.                                                                *)
THEOREM OneAnswer == Spec => []OneOutstandingStop
<1>1. Inv => OneOutstandingStop
  <2> SUFFICES ASSUME Inv PROVE OneOutstandingStop
    OBVIOUS
  <2>1. Idle => Len(loops) = 0 /\ Len(notices) = 0
    BY DEF Idle
  <2>2. Looped => Len(loops) = 1 /\ Len(notices) = 0
    BY DEF Looped
  <2>3. Reported => Len(loops) = 0 /\ Len(notices) = 1
    BY DEF Reported
  <2>4. ASSUME client.view = "running"
        PROVE  Len(loops) + Len(notices) + Held = IF Started THEN 1 ELSE 0
    <3>1. Held = 0
      BY <2>4 DEF Held
    <3>2. IF Started THEN Looped \/ Reported ELSE Idle
      BY <2>4 DEF Inv, ShapeInv
    <3>3. CASE Started /\ Looped
      BY <2>2, <3>1, <3>3
    <3>4. CASE Started /\ Reported
      BY <2>3, <3>1, <3>4
    <3>5. CASE ~Started /\ Idle
      BY <2>1, <3>1, <3>5
    <3> QED
      BY <3>2, <3>3, <3>4, <3>5
  <2>5. ASSUME client.view = "stopped"
        PROVE  Len(loops) + Len(notices) + Held = IF Started THEN 1 ELSE 0
    <3>1. Held = 1
      BY <2>5 DEF Held
    <3>2. Started /\ Idle
      BY <2>5 DEF Inv, ShapeInv
    <3> QED
      BY <2>1, <3>1, <3>2
  <2>6. client.view \in {"none", "ended"} => loops = <<>> /\ notices = <<>>
    BY DEF Inv, ShapeInv, Idle
  <2> QED
    BY <2>4, <2>5, <2>6 DEF OneOutstandingStop
<1> QED
  BY <1>1, InvariantHolds, PTL

(* No breakpoint skip outlives the turn of the thread it was armed for.    *)
THEOREM SkipConsumed == Spec => []SkipIsConsumed
<1>1. Inv => SkipIsConsumed
  BY DEF Inv, SkipInv, SkipIsConsumed, JsIdle
<1> QED
  BY <1>1, InvariantHolds, PTL

(* The client sees a RunControl: started once, one answer a command,       *)
(* nothing running or reported while it takes the program to be stopped.   *)
THEOREM Refinement == Spec => ImplementsRunControl
<1>1. Init => RunControlMapping!Init
  <2> SUFFICES ASSUME Init PROVE RunControlMapping!Init
    OBVIOUS
  <2>1. client.view = "none" /\ ~Started /\ Doing = "idle"
    BY DEF Init, Started, Doing, InitialRunState
  <2> QED
    BY <2>1 DEF RunControlMapping!Init
<1>2. Inv /\ [Next]_vars => [RunControlMapping!Next]_(RunControlMapping!vars)
  BY NextInv DEF Abstract
<1> QED
  BY <1>1, <1>2, InvariantHolds, PTL DEF Spec, ImplementsRunControl, RunControlMapping!Spec

-----------------------------------------------------------------------------
(* Breakpoints.                                                            *)

(* What the manager holds is what the client asked for, and it is resolved *)
(* in the program in memory.                                               *)
BreakInv ==
  /\ pending = client.wanted
  /\ client.view = "none" => client.wanted = NoLines
  /\ active = Resolve(program, pending)

(* Every step keeps the breakpoints resolved.                              *)
LEMMA BreakStep ==
  ASSUME Inv, BreakInv, [Next]_vars PROVE BreakInv'
<1>0. client \in Client /\ pending \in [Lines -> BreakpointKind]
  BY DEF Inv, TypeOK
<1>1. ASSUME UNCHANGED <<program, pending, active>>, client'.wanted = client.wanted,
             client'.view = "none" => client.view = "none"
      PROVE  BreakInv'
  BY <1>1 DEF BreakInv
<1>2. CASE Configuring
  <2>1. ASSUME NEW soe \in BOOLEAN, LaunchRequest(soe) PROVE BreakInv'
    <3>1. client.view = "none"
      BY <2>1 DEF LaunchRequest, Inv, LaunchInv
    <3>2. /\ pending' = NoLines /\ program' = None /\ active' = Resolve(None, NoLines)
          /\ client'.wanted = client.wanted /\ client'.view = "running"
      BY <1>0, <2>1 DEF LaunchRequest, Client
    <3> QED
      BY <3>1, <3>2 DEF BreakInv
  <2>2. ASSUME NEW v \in Versions, LaunchFinish(v) PROVE BreakInv'
    BY <2>2 DEF LaunchFinish, ApplyAll, BreakInv
  <2>3. CASE LaunchFail
    BY <1>1, <2>3 DEF LaunchFail, targetVars, breakpointVars
  <2>4. ASSUME NEW l \in Lines, NEW kind \in Conditions \cup {"none"}, SetBreakpoints(l, kind)
        PROVE  BreakInv'
    <3>1. /\ pending' = [pending EXCEPT ![l] = kind] /\ active' = Resolve(program, pending')
          /\ client' = [client EXCEPT !.wanted[l] = kind] /\ program' = program
          /\ client.view # "none"
      BY <2>4 DEF SetBreakpoints, targetVars
    <3>2. client'.wanted = [client.wanted EXCEPT ![l] = kind] /\ client'.view = client.view
      BY <1>0, <3>1 DEF Client
    <3> QED
      BY <3>1, <3>2 DEF BreakInv
  <2>5. CASE ConfigurationDone
    BY <1>0, <1>1, <2>5 DEF ConfigurationDone, targetVars, breakpointVars, Client
  <2> QED
    BY <1>2, <2>1, <2>2, <2>3, <2>4, <2>5 DEF Configuring
<1>3. CASE Executing
  <2>1. CASE Requested
    BY <1>0, <1>1, <2>1 DEF Requested, breakpointVars, Client
  <2>2. CASE Pause \/ Disconnect
    BY <1>0, <1>1, <2>2 DEF Pause, Disconnect, targetVars, breakpointVars, Client
  <2>3. Requested \/ Pause \/ Disconnect
    BY <1>3 DEF Executing, Continue, Goto, RunToStackFrame, Resume, SingleStep, StepOut
  <2> QED
    BY <2>1, <2>2, <2>3
<1>4. CASE Platform
  <2>1. ASSUME NEW v \in Versions, RebuildFinish(v) PROVE BreakInv'
    BY <2>1 DEF RebuildFinish, ApplyAll, BreakInv
  <2>2. CASE PlatformReset \/ (\E a \in PcEdits : SetPc(a)) \/ RebuildRequest \/ RebuildFail
    BY <1>1, <2>2 DEF PlatformReset, SetPc, RebuildRequest, RebuildFail, targetVars, breakpointVars
  <2> QED
    BY <1>4, <2>1, <2>2 DEF Platform
<1>5. CASE Looping
  <2>1. Iterating \/ LoopRuntimeGone \/ LoopResume
    BY <1>5 DEF Looping, LoopPaused, LoopBreakpoint, LoopTarget, LoopHalts, LoopReturns,
                LoopLimit, LoopAdvances, Executes
  <2> QED
    BY <1>1, <2>1 DEF Iterating, LoopRuntimeGone, LoopResume, targetVars, breakpointVars
<1>6. CASE Delivering
  BY <1>0, <1>1, <1>6
     DEF Delivering, DeliverNotice, DeliverStatus, targetVars, breakpointVars, Client
<1>7. CASE UNCHANGED vars
  BY <1>1, <1>7 DEF vars, targetVars, breakpointVars
<1> QED
  BY <1>2, <1>3, <1>4, <1>5, <1>6, <1>7 DEF Next

(* The breakpoints that stop execution are those the client last asked     *)
(* for, resolved in the program in memory, through launches and rebuilds.  *)
THEOREM BreakpointsFollowClient == Spec => []BreakpointsAsRequested
<1>1. Init => BreakInv
  <2> SUFFICES ASSUME Init PROVE BreakInv
    OBVIOUS
  <2>1. pending = NoLines /\ program = None /\ active = Resolve(None, NoLines)
    BY DEF Init
  <2>2. client.wanted = NoLines
    BY DEF Init
  <2> QED
    BY <2>1, <2>2 DEF BreakInv
<1>2. Inv /\ BreakInv /\ [Next]_vars => BreakInv'
  BY BreakStep
<1>3. BreakInv => BreakpointsAsRequested
  BY DEF BreakInv, BreakpointsAsRequested
<1> QED
  BY <1>1, <1>2, <1>3, InvariantHolds, PTL DEF Spec

-----------------------------------------------------------------------------
(* The kinds of step.  Each says what it does to the loops, to what is on  *)
(* its way to the client and to the panel, and to what the run state       *)
(* remembers of the last stop.                                             *)

(* The status the panel shows once every event on its way has arrived.     *)
Shown == IF statuses = <<>> THEN panel ELSE statuses[Len(statuses)]

(* A handler that neither runs nor stops anything.                         *)
Quietly ==
  /\ UNCHANGED <<loops, notices, told, runtime>> /\ Shown' = Shown
  /\ client'.view = client.view /\ (Started' => Started)
  /\ run'.haltNotified => run.haltNotified
  /\ run'.lastStopReason = run.lastStopReason
  /\ run'.lastBreakpointAddress \in {run.lastBreakpointAddress, None}
  /\ run'.skipBreakpointOnce \in {run.skipBreakpointOnce, None}
  /\ run'.pauseRequested => run.pauseRequested \/ client'.asked
  /\ client.asked => client'.asked
  /\ run'.haltNotified /\ "reset" \notin Requests => cpu'.halted = cpu.halted

(* There is no runtime, or there no longer is one.                         *)
Without ==
  /\ ~runtime'
  /\ run'.haltNotified => run.haltNotified /\ run'.lastStopReason = run.lastStopReason
  /\ run'.skipBreakpointOnce = None
  /\ \/ client'.view = "gone"
     \/ client'.view = "running" /\ ~Started' /\ ~run'.pauseRequested
     \/ /\ client'.view = "running" /\ loops' = <<>> /\ notices' = <<Terminated>>
        /\ run' = run /\ client' = client
  /\ notices' = Append(notices, Terminated) => launch # "complete"
  /\ notices' # Append(notices, Stop("pause"))

(* The launch and the configuration have met, or wait for each other.      *)
Begins ==
  /\ panel' = panel /\ client'.view = client.view /\ client'.asked = client.asked
  /\ client.view \in {"running", "gone"} /\ notices = <<>>
  /\ run.lastStopReason = None /\ run'.skipBreakpointOnce = None
  /\ run'.haltNotified = run.haltNotified
  /\ run'.pauseRequested = run.pauseRequested
  /\ \/ /\ loops' # <<>> /\ notices' = <<>> /\ told' = told
        /\ statuses' = Send(statuses, <<"running">>) /\ run'.lastStopReason = None
     \/ /\ loops' = <<>> /\ notices' = Send(<<>>, <<Stop("entry")>>)
        /\ statuses' = Send(statuses, <<"paused">>) /\ run'.lastStopReason = "entry"
     \/ loops' = <<>> /\ notices' = <<>> /\ ~Started' /\ run'.lastStopReason = None

(* A command starts a loop.                                                *)
Runs ==
  /\ client.view = "stopped" /\ client'.view = "running" /\ panel' = panel
  /\ loops = <<>> /\ loops' # <<>> /\ runtime /\ notices' = <<>>
  /\ statuses' = statuses \o <<"running">> /\ ~run'.pauseRequested
  /\ \/ /\ UNCHANGED <<cpu, told>>
        /\ run'.haltNotified = run.haltNotified
        /\ run'.lastStopReason = run.lastStopReason
        /\ run'.skipBreakpointOnce # None =>
             /\ run.lastStopReason = "breakpoint"
             /\ run.lastBreakpointAddress = run'.skipBreakpointOnce
     \/ ~run'.haltNotified /\ run'.skipBreakpointOnce = None

(* A step stops at once: the panel was told of the stop it began at.       *)
Steps ==
  /\ client.view = "stopped" /\ client'.view = "running"
  /\ loops' = <<>> /\ UNCHANGED <<statuses, panel>>
  /\ notices = <<>> /\ notices' = Send(<<>>, <<Stop("step")>>)
  /\ ~run'.haltNotified /\ ~run'.pauseRequested
  /\ run'.lastStopReason = "step" /\ run'.skipBreakpointOnce = None

(* A loop goes on.                                                         *)
Advances ==
  /\ UNCHANGED <<notices, statuses, panel, client>> /\ (Started' <=> Started)
  /\ loops # <<>> /\ loops' # <<>> /\ notices = <<>> /\ runtime /\ ~cpu.halted
  /\ run'.haltNotified = run.haltNotified
  /\ run'.lastStopReason = run.lastStopReason
  /\ run'.pauseRequested = run.pauseRequested /\ run'.skipBreakpointOnce = None

(* A loop stops.                                                           *)
Stops(reason, bp) ==
  /\ UNCHANGED <<panel, client>> /\ client.view \in {"running", "gone"}
  /\ loops' = <<>> /\ notices = <<>> /\ notices' = Send(<<>>, <<Stop(reason)>>)
  /\ statuses' = Send(statuses, <<"paused">>)
  /\ told' = [reason |-> reason, pc |-> cpu'.pc]
  /\ ~run'.haltNotified /\ run'.lastStopReason = reason
  /\ run'.lastBreakpointAddress = bp /\ run'.skipBreakpointOnce = None
  /\ run'.pauseRequested => run.pauseRequested
  /\ reason = "pause" => run.pauseRequested
  /\ reason = "breakpoint" => bp = cpu'.pc

(* A loop, or a step, meets a HALT.                                        *)
Halts ==
  /\ client.view \in {"running", "stopped", "gone"} /\ client'.view \in {"running", "gone"}
  /\ client'.view = "gone" <=> client.view = "gone"
  /\ client'.asked = client.asked /\ panel' = panel /\ runtime
  /\ loops' = <<>> /\ notices = <<>> /\ cpu'.halted /\ AnnounceHalt(cpu'.pc)
  /\ run'.haltNotified /\ run'.skipBreakpointOnce = None
  /\ run'.lastStopReason = IF run.haltNotified THEN run.lastStopReason ELSE "halt"
  /\ run'.pauseRequested => run.pauseRequested /\ client'.view = client.view

(* An event reaches the client.                                            *)
Delivers ==
  /\ client.view = "running" /\ loops = <<>> /\ notices' = <<>> /\ Started
  /\ UNCHANGED <<cpu, run, loops, told, runtime, statuses, panel>>
  /\ \/ client'.view = "ended"
     \/ client'.view = "stopped" /\ notices # <<>> /\ Head(notices).event = "stopped"

AnyKind ==
  \/ Quietly \/ Without \/ Begins \/ Runs \/ Steps \/ Advances \/ Halts \/ Delivers
  \/ \E reason \in Reasons, bp \in Addr \cup {None} : Stops(reason, bp)


(* What a halt leaves in the run state.                                    *)
LEMMA HaltFields ==
  ASSUME NEW r \in RunState
  PROVE  /\ HaltStop(r).haltNotified = TRUE
         /\ HaltStop(r).lastStopReason = IF r.haltNotified THEN r.lastStopReason ELSE "halt"
         /\ HaltStop(r).pauseRequested = r.pauseRequested
         /\ HaltStop(r).skipBreakpointOnce = r.skipBreakpointOnce
<1>1. r.haltNotified \in BOOLEAN
  BY DEF RunState
<1> QED
  BY <1>1 DEF HaltStop, RunState

(* prepareRun forgets the pause, and skips only the breakpoint it stopped  *)
(* on.                                                                     *)
LEMMA PrepareFields ==
  ASSUME TypeOK
  PROVE  /\ PrepareRun.haltNotified = run.haltNotified
         /\ PrepareRun.lastStopReason = run.lastStopReason
         /\ PrepareRun.pauseRequested = FALSE
         /\ PrepareRun.skipBreakpointOnce # None =>
              /\ run.lastStopReason = "breakpoint"
              /\ run.lastBreakpointAddress = PrepareRun.skipBreakpointOnce
<1>1. run \in RunState
  BY DEF TypeOK
<1>2. PICK skip : skip = BreakpointSkip
  OBVIOUS
<1>3. skip # None => run.lastStopReason = "breakpoint" /\ run.lastBreakpointAddress = skip
  BY <1>2 DEF BreakpointSkip
<1>4. PrepareRun = [run EXCEPT !.pauseRequested = FALSE, !.isRunning = TRUE,
                               !.skipBreakpointOnce = skip]
  BY <1>2 DEF PrepareRun
<1> QED
  BY <1>1, <1>3, <1>4 DEF RunState

(* An executed instruction remembers the last stop.                        *)
LEMMA AfterFields ==
  ASSUME TypeOK, NEW o
  PROVE  /\ RunAfter(o).haltNotified = run.haltNotified
         /\ RunAfter(o).lastStopReason = run.lastStopReason
         /\ RunAfter(o).pauseRequested = run.pauseRequested
         /\ ApplyStepInfo(run, o.kind).haltNotified = run.haltNotified
         /\ ApplyStepInfo(run, o.kind).lastStopReason = run.lastStopReason
<1> DEFINE s == ApplyStepInfo(run, o.kind)
<1>1. run \in RunState
  BY DEF TypeOK
<1>2. /\ s \in RunState /\ s.haltNotified = run.haltNotified
      /\ s.lastStopReason = run.lastStopReason /\ s.pauseRequested = run.pauseRequested
  BY <1>1, ApplyStepInfoType
<1>3. RunAfter(o) = [s EXCEPT !.skipBreakpointOnce = IF Skipping THEN None ELSE @]
  BY DEF RunAfter
<1> HIDE DEF s
<1>4. /\ RunAfter(o).haltNotified = s.haltNotified
      /\ RunAfter(o).lastStopReason = s.lastStopReason
      /\ RunAfter(o).pauseRequested = s.pauseRequested
  BY <1>2, <1>3 DEF RunState
<1> QED
  BY <1>2, <1>4 DEF s

(* A halted CPU stays halted, whatever the program.                        *)
LEMMA HaltedStays ==
  ASSUME cpu.halted, NEW o \in Outcomes
  PROVE  o.cpu.halted /\ o.kind = "none"
  BY DEF Outcomes, Executed

-----------------------------------------------------------------------------
(* Every step is of one of the kinds.                                      *)

(* A handler that leaves both queues alone is quiet if it leaves the       *)
(* memory of stops alone.                                                  *)
LEMMA QuietHandler ==
  ASSUME UNCHANGED <<loops, notices, told, runtime, statuses, panel>>,
         client'.view = client.view, client'.asked = client.asked,
         launch' = launch, SameLaunch(run, run'),
         run'.haltNotified => run.haltNotified,
         run'.lastStopReason = run.lastStopReason,
         run'.lastBreakpointAddress \in {run.lastBreakpointAddress, None},
         run'.skipBreakpointOnce \in {run.skipBreakpointOnce, None},
         run'.pauseRequested = run.pauseRequested,
         run'.haltNotified /\ "reset" \notin Requests => cpu'.halted = cpu.halted
  PROVE  Quietly
<1>1. Shown' = Shown /\ (Started' => Started)
  BY DEF Shown, Started, SameLaunch
<1> QED
  BY <1>1 DEF Quietly

(* A loop started where there was none is there.                           *)
LEMMA StartLoopFills ==
  ASSUME NEW loop \in Loop, loops = <<>>, StartLoop(loop)
  PROVE  loops' # <<>> /\ notices' = notices /\ statuses' = Send(statuses, <<"running">>)
<1>1. <<loop>> \o <<>> = <<loop>> /\ <<loop>> # <<>>
  OBVIOUS
<1> QED
  BY <1>1 DEF StartLoop

(* Begin, when nothing is going on yet.                                    *)
LEMMA BeginKind ==
  ASSUME NEW r \in RunState, NEW pc \in Addr, Begin(r, pc), loops = <<>>, notices = <<>>,
         run.lastStopReason = None, r.lastStopReason = None, r.skipBreakpointOnce = None,
         r.haltNotified = run.haltNotified, r.pauseRequested = run.pauseRequested,
         panel' = panel, client'.view = client.view, client'.asked = client.asked,
         client.view \in {"running", "gone"},
         run' = r /\ ~Starts(r) /\ ~StopsOnEntry(r) => ~Started'
  PROVE  Begins
<1>1. CASE /\ run' = [r EXCEPT !.isRunning = TRUE]
           /\ StartLoop(NewLoop("run", {}, 0, 0, 0)) /\ told' = told
  <2>1. NewLoop("run", {}, 0, 0, 0) \in Loop
    BY NewLoopType DEF Kinds
  <2>2. loops' # <<>> /\ notices' = <<>> /\ statuses' = Send(statuses, <<"running">>)
    BY <1>1, <2>1, StartLoopFills
  <2>3. /\ run'.lastStopReason = None /\ run'.skipBreakpointOnce = None
        /\ run'.haltNotified = run.haltNotified /\ run'.pauseRequested = run.pauseRequested
    BY <1>1 DEF RunState
  <2> QED
    BY <1>1, <2>2, <2>3 DEF Begins
<1>2. CASE /\ run' = [r EXCEPT !.lastStopReason = "entry", !.lastBreakpointAddress = None]
           /\ AnnounceStop("entry", <<"paused">>, pc) /\ UNCHANGED loopVars
  <2>1. /\ run'.lastStopReason = "entry" /\ run'.skipBreakpointOnce = None
        /\ run'.haltNotified = run.haltNotified /\ run'.pauseRequested = run.pauseRequested
    BY <1>2 DEF RunState
  <2>2. /\ loops' = <<>> /\ notices' = Send(<<>>, <<Stop("entry")>>)
        /\ statuses' = Send(statuses, <<"paused">>)
    BY <1>2 DEF AnnounceStop, loopVars
  <2> QED
    BY <2>1, <2>2 DEF Begins
<1>3. CASE ~Starts(r) /\ ~StopsOnEntry(r) /\ run' = r /\ UNCHANGED <<loopVars, channelVars>>
  BY <1>3 DEF Begins, loopVars, channelVars
<1> QED
  BY <1>1, <1>2, <1>3 DEF Begin

(* The end of a launch begins the program, stops it or waits.              *)
LEMMA LaunchFinishKind ==
  ASSUME Inv, NEW v \in Versions, LaunchFinish(v)
  PROVE  Begins
<1>1. TypeOK /\ run \in RunState /\ launch = "building" /\ ~holding
  BY DEF Inv, TypeOK, LaunchFinish, JsIdle
<1>2. /\ ~run.launchComplete /\ ~Started /\ run.lastStopReason = None
      /\ client.view \in {"running", "gone"}
      /\ loops = <<>> /\ ~run.isRunning
  BY <1>1 DEF Inv, LaunchInv, StartInv, Started
<1>3. notices = <<>> /\ run.skipBreakpointOnce = None
  BY <1>1, <1>2 DEF Inv, ShapeInv, Looped, SkipInv, Idle
<1>4. /\ Launched \in RunState /\ Launched.launchComplete
      /\ Launched.configurationDone = run.configurationDone
      /\ Launched.lastStopReason = None /\ Launched.skipBreakpointOnce = None
      /\ Launched.haltNotified = run.haltNotified
      /\ Launched.pauseRequested = run.pauseRequested
  BY <1>1, <1>2, <1>3 DEF Launched, RunState
<1>5. /\ launch' = "complete" /\ client' = client /\ panel' = panel
      /\ Begin(Launched, EntryPc)
  BY DEF LaunchFinish
<1>6. Starts(Launched) \/ StopsOnEntry(Launched) <=> run.configurationDone
  BY <1>4, ReadyBegins
<1>7. run' = Launched /\ ~run.configurationDone => ~Started'
  BY <1>4, <1>5 DEF Started
<1>8. EntryPc \in Addr
  BY ConstantsAssumption
<1> QED
  BY <1>2, <1>3, <1>4, <1>5, <1>6, <1>7, <1>8, BeginKind

(* configurationDone begins the program, stops it or leaves it to wait.    *)
LEMMA ConfigurationDoneKind ==
  ASSUME Inv, ConfigurationDone
  PROVE  Begins \/ Quietly
<1> DEFINE r == [run EXCEPT !.configurationDone = TRUE]
<1>1. /\ TypeOK /\ run \in RunState /\ client \in Client /\ ~holding /\ cpu.pc \in Addr
      /\ client.view \in {"running", "stopped"} /\ ~client.configured
  BY DEF Inv, TypeOK, ConfigurationDone, JsIdle, Listening, Client, Views, Cpu
<1>2. /\ ~run.configurationDone /\ run.lastStopReason = None
      /\ loops = <<>> /\ run.skipBreakpointOnce = None
  BY <1>1 DEF Inv, LaunchInv, StartInv, SkipInv
<1>3. /\ r \in RunState /\ r.configurationDone
      /\ r.launchComplete = run.launchComplete
      /\ r.lastStopReason = None /\ r.skipBreakpointOnce = None
      /\ r.lastBreakpointAddress = run.lastBreakpointAddress
      /\ r.haltNotified = run.haltNotified /\ r.pauseRequested = run.pauseRequested
  BY <1>1, <1>2 DEF RunState
<1>4. /\ Begin(r, cpu.pc) /\ panel' = panel /\ launch' = launch
      /\ runtime' = runtime /\ cpu' = cpu
      /\ client'.view = client.view /\ client'.asked = client.asked
  BY <1>1 DEF ConfigurationDone, targetVars, Client
<1> HIDE DEF r
<1>5. CASE run.launchComplete
  <2>1. launch = "complete" /\ ~Started
    BY <1>2, <1>5 DEF Inv, LaunchInv, Started
  <2>2. client.view = "running" /\ notices = <<>>
    BY <1>1, <2>1 DEF Inv, ShapeInv, Idle
  <2>3. Starts(r) \/ StopsOnEntry(r)
    BY <1>3, <1>5, ReadyBegins
  <2>4. Begins
    BY <1>1, <1>2, <1>3, <1>4, <2>2, <2>3, BeginKind
  <2> QED
    BY <2>4
<1>6. CASE ~run.launchComplete
  <2>1. ~Starts(r) /\ ~StopsOnEntry(r)
    BY <1>3, <1>6 DEF Starts, StopsOnEntry
  <2>2. run' = r /\ UNCHANGED <<loops, holding, notices, statuses, told>>
    BY <1>4, <2>1 DEF Begin, loopVars, channelVars
  <2>3. Shown' = Shown /\ (Started' => Started)
    BY <1>3, <1>4, <1>6, <2>2 DEF Shown, Started
  <2>4. Quietly
    BY <1>2, <1>3, <1>4, <2>2, <2>3 DEF Quietly
  <2> QED
    BY <2>4
<1> QED
  BY <1>5, <1>6

(* The other steps of a launch.                                            *)
LEMMA LaunchKinds ==
  ASSUME Inv, LaunchFail \/ \E soe \in BOOLEAN : LaunchRequest(soe)
  PROVE  Without
<1>0. /\ client \in Client /\ notices \in Seq(Notice) /\ run \in RunState
      /\ run.skipBreakpointOnce = None
  BY DEF Inv, TypeOK, SkipInv, LaunchFail, LaunchRequest, JsIdle
<1>1. notices # Append(notices, Stop("pause"))
  BY <1>0
<1>2. ASSUME NEW soe \in BOOLEAN, LaunchRequest(soe) PROVE Without
  <2>1. /\ ~runtime' /\ launch = "idle" /\ launch' = "building" /\ notices' = notices
        /\ run' = InitialRunState(soe) /\ client'.view = "running"
    BY <1>0, <1>2 DEF LaunchRequest, channelVars, Client
  <2>2. /\ run'.haltNotified = FALSE /\ run'.skipBreakpointOnce = None
        /\ run'.pauseRequested = FALSE /\ run'.launchComplete = FALSE
    BY <2>1 DEF InitialRunState
  <2>3. ~Started'
    BY <2>1, <2>2 DEF Started
  <2> QED
    BY <1>1, <2>1, <2>2, <2>3 DEF Without
<1>3. CASE LaunchFail
  <2>1. /\ launch = "building" /\ run' = run /\ client' = client
        /\ runtime' = runtime /\ loops' = loops /\ notices' = Send(notices, <<Terminated>>)
    BY <1>3 DEF LaunchFail, targetVars, loopVars
  <2>2. /\ ~run.launchComplete /\ ~Started /\ client.view \in {"running", "gone"}
        /\ loops = <<>> /\ ~runtime
    BY <2>1 DEF Inv, LaunchInv, StartInv, Started
  <2>3. notices = <<>>
    BY <2>2 DEF Inv, ShapeInv, Idle, Looped
  <2>4. notices' = IF client.view = "gone" THEN <<>> ELSE <<Terminated>>
    <3>1. <<>> \o <<Terminated>> = <<Terminated>>
      OBVIOUS
    <3> QED
      BY <2>1, <2>3, <3>1 DEF Send
  <2>5. notices' # Append(notices, Stop("pause"))
    <3>1. Append(<<>>, Stop("pause")) = <<Stop("pause")>> /\ <<Stop("pause")>> # <<>>
      OBVIOUS
    <3>2. Terminated.event # Stop("pause").event
      BY DEF Terminated, Stop
    <3>3. <<Terminated>>[1] # <<Stop("pause")>>[1]
      BY <3>2
    <3> QED
      BY <2>3, <2>4, <3>1, <3>3
  <2> QED
    BY <1>0, <2>1, <2>2, <2>4, <2>5 DEF Without
<1> QED
  BY <1>2, <1>3

(* prepareRun and the loop it leads to.                                    *)
LEMMA PreparedRunKind ==
  ASSUME Inv, Requested, NEW loop \in Loop, run' = PrepareRun, StartLoop(loop),
         UNCHANGED <<cpu, entryCpu, told>>
  PROVE  Runs
<1>1. /\ TypeOK /\ loops = <<>> /\ notices = <<>> /\ runtime
      /\ client.view = "stopped" /\ client'.view = "running"
  BY RequestedFacts DEF Inv, Idle
<1>2. loops' # <<>> /\ notices' = notices /\ statuses' = statuses \o <<"running">>
  BY <1>1, StartLoopFills DEF Send
<1>3. panel' = panel
  BY DEF Requested
<1>4. /\ run'.haltNotified = run.haltNotified
      /\ run'.lastStopReason = run.lastStopReason
      /\ run'.pauseRequested = FALSE
      /\ run'.skipBreakpointOnce # None =>
           /\ run.lastStopReason = "breakpoint"
           /\ run.lastBreakpointAddress = run'.skipBreakpointOnce
  BY <1>1, PrepareFields
<1> QED
  BY <1>1, <1>2, <1>3, <1>4 DEF Runs

(* The commands that start a loop at once.                                 *)
LEMMA ResumeKind ==
  ASSUME Inv, \/ \E targets \in SUBSET Addr : Resume(targets)
              \/ \E i \in 1 .. MaxStack : RunToStackFrame(i)
              \/ StepOut
  PROVE  Runs
<1>1. ASSUME NEW targets \in SUBSET Addr, Resume(targets) PROVE Runs
  <2>1. NewLoop("run", targets, 0, 0, 0) \in Loop
    BY NewLoopType DEF Kinds
  <2> QED
    BY <1>1, <2>1, PreparedRunKind DEF Resume
<1>2. ASSUME NEW i \in 1 .. MaxStack, RunToStackFrame(i) PROVE Runs
  <2>1. cpu.stack \in Seq(Addr) /\ i \in 1 .. Len(cpu.stack)
    BY <1>2 DEF RunToStackFrame, Inv, TypeOK, Cpu
  <2>2. {cpu.stack[i]} \in SUBSET Addr
    BY <2>1
  <2> QED
    BY <1>1, <1>2, <2>2 DEF RunToStackFrame
<1>3. CASE StepOut
  <2>1. run.callDepth \in Nat /\ StepOutMax \in Nat
    BY ConstantsAssumption DEF Inv, TypeOK, RunState
  <2>2. NewLoop("return", {}, run.callDepth, StepOutMax, 0) \in Loop
    BY <2>1, NewLoopType DEF Kinds
  <2> QED
    BY <1>3, <2>2, PreparedRunKind DEF StepOut
<1> QED
  BY <1>1, <1>2, <1>3

(* Next and Step In run through a call, meet a HALT, or stop at once.      *)
LEMMA SingleStepKind ==
  ASSUME Inv, runtime, NEW over \in BOOLEAN, NEW o \in Outcomes, SingleStep(over, o)
  PROVE  Runs \/ Halts \/ Steps
<1> DEFINE s == ApplyStepInfo(run, o.kind)
           r == [s EXCEPT !.pauseRequested = FALSE]
           stepOver == o.kind = "call" /\ (over \/ o.cpu.pc \in Unmapped)
<1>1. /\ TypeOK /\ Requested /\ o \in Outcome /\ run \in RunState
  BY OutcomesType DEF Inv, TypeOK, SingleStep
<1>2. /\ loops = <<>> /\ notices = <<>> /\ run.skipBreakpointOnce = None
      /\ client.view = "stopped" /\ client'.view = "running"
  BY <1>1, RequestedFacts DEF Idle
<1>3. panel' = panel /\ client'.asked = client.asked /\ cpu' = o.cpu
  BY <1>1 DEF Requested, SingleStep, TypeOK, Client
<1>4. /\ s \in RunState /\ s.skipBreakpointOnce = None
      /\ s.haltNotified = run.haltNotified /\ s.lastStopReason = run.lastStopReason
  BY <1>1, <1>2, ApplyStepInfoType
<1> HIDE DEF s
<1>5. /\ r \in RunState /\ r.skipBreakpointOnce = None /\ r.pauseRequested = FALSE
      /\ r.haltNotified = run.haltNotified /\ r.lastStopReason = run.lastStopReason
  BY <1>4 DEF RunState
<1> HIDE DEF r
<1>6. Len(o.cpu.stack) \in Nat /\ cpu.pc \in Addr
  <2>1. o.cpu.stack \in Seq(Addr) /\ cpu.pc \in Addr
    BY <1>1 DEF Outcome, Cpu, TypeOK
  <2> QED
    BY <2>1
<1>7. CASE /\ stepOver
           /\ run' = [r EXCEPT !.haltNotified = FALSE, !.isRunning = TRUE,
                               !.lastStopReason = "step",
                               !.lastBreakpointAddress = None]
           /\ StartLoop(NewLoop("over", {Following[cpu.pc]}, 0, StepOverMax,
                                Len(o.cpu.stack)))
           /\ told' = None
  <2>1. {Following[cpu.pc]} \in SUBSET Addr /\ StepOverMax \in Nat
    BY <1>6, ConstantsAssumption
  <2>2. NewLoop("over", {Following[cpu.pc]}, 0, StepOverMax, Len(o.cpu.stack)) \in Loop
    BY <1>6, <2>1, NewLoopType DEF Kinds
  <2>3. loops' # <<>> /\ notices' = notices /\ statuses' = statuses \o <<"running">>
    BY <1>2, <1>7, <2>2, StartLoopFills DEF Send
  <2>4. /\ run'.haltNotified = FALSE /\ run'.pauseRequested = FALSE
        /\ run'.skipBreakpointOnce = None
    BY <1>5, <1>7 DEF RunState
  <2>5. Runs
    BY <1>2, <1>3, <2>3, <2>4 DEF Runs
  <2> QED
    BY <2>5
<1>8. CASE ~stepOver /\ o.cpu.halted /\ run' = HaltStop(r)
            /\ AnnounceHalt(o.cpu.pc) /\ UNCHANGED loopVars
  <2>1. /\ run'.haltNotified = TRUE /\ run'.pauseRequested = FALSE
        /\ run'.skipBreakpointOnce = None
        /\ run'.lastStopReason = IF run.haltNotified THEN run.lastStopReason ELSE "halt"
    BY <1>5, <1>8, HaltFields
  <2>2. loops' = <<>>
    BY <1>2, <1>8 DEF loopVars
  <2>3. Halts
    BY <1>2, <1>3, <1>8, <2>1, <2>2 DEF Halts
  <2> QED
    BY <2>3
<1>9. CASE ~stepOver /\ ~o.cpu.halted /\ run' = MarkStopped(r, "step", None)
            /\ AnnounceStop("step", <<>>, o.cpu.pc) /\ UNCHANGED loopVars
  <2>1. /\ run'.haltNotified = FALSE /\ run'.pauseRequested = FALSE
        /\ run'.skipBreakpointOnce = None /\ run'.lastStopReason = "step"
    <3>1. /\ MarkStopped(r, "step", None).haltNotified = FALSE
          /\ MarkStopped(r, "step", None).lastStopReason = "step"
          /\ MarkStopped(r, "step", None).pauseRequested = r.pauseRequested
          /\ MarkStopped(r, "step", None).skipBreakpointOnce = r.skipBreakpointOnce
      BY <1>5 DEF MarkStopped, RunState
    <3> QED
      BY <1>5, <1>9, <3>1
  <2>2. statuses \in Seq({"running", "paused"})
    BY <1>1 DEF TypeOK
  <2>3. statuses \o <<>> = statuses
    BY <2>2
  <2>4. /\ loops' = <<>> /\ notices' = Send(<<>>, <<Stop("step")>>)
        /\ statuses' = Send(statuses, <<>>)
    BY <1>2, <1>9 DEF AnnounceStop, loopVars
  <2>5. statuses' = statuses
    BY <2>3, <2>4 DEF Send
  <2>6. Steps
    BY <1>2, <1>3, <2>1, <2>4, <2>5 DEF Steps
  <2> QED
    BY <2>6
<1> QED
  BY <1>7, <1>8, <1>9 DEF SingleStep, s, r

(* A pause is quiet: the loop will see it.                                 *)
LEMMA PauseKind ==
  ASSUME Inv, Pause
  PROVE  Quietly
<1>1. run \in RunState /\ client \in Client
  BY DEF Inv, TypeOK
<1>2. /\ run' = [run EXCEPT !.pauseRequested = TRUE]
      /\ client' = [client EXCEPT !.asked = TRUE]
      /\ UNCHANGED <<launch, runtime, cpu, loops, notices, statuses, told, panel>>
  BY DEF Pause, targetVars, loopVars, channelVars
<1>3. /\ run'.haltNotified = run.haltNotified /\ run'.lastStopReason = run.lastStopReason
      /\ run'.lastBreakpointAddress = run.lastBreakpointAddress
      /\ run'.skipBreakpointOnce = run.skipBreakpointOnce
      /\ SameLaunch(run, run')
  BY <1>1, <1>2 DEF RunState, SameLaunch
<1>4. client'.view = client.view /\ client'.asked
  BY <1>1, <1>2 DEF Client
<1>5. Shown' = Shown /\ (Started' => Started)
  BY <1>2, <1>3 DEF Shown, Started, SameLaunch
<1> QED
  BY <1>2, <1>3, <1>4, <1>5 DEF Quietly

(* Those the client has left find no runtime.                              *)
LEMMA LeavingKinds ==
  ASSUME Inv, Disconnect \/ LoopRuntimeGone
  PROVE  Without
<1>0. /\ client \in Client /\ notices \in Seq(Notice) /\ run \in RunState
  BY DEF Inv, TypeOK
<1>1. /\ notices # Append(notices, Stop("pause")) /\ notices # Append(notices, Terminated)
      /\ <<>> # Append(notices, Stop("pause")) /\ <<>> # Append(notices, Terminated)
  BY <1>0
<1>2. CASE Disconnect
  <2>1. /\ runtime' = FALSE /\ client' = [client EXCEPT !.view = "gone"] /\ notices' = <<>>
        /\ run' = [run EXCEPT !.isRunning = FALSE, !.haltNotified = FALSE]
        /\ run.skipBreakpointOnce = None
    BY <1>2 DEF Disconnect, JsIdle, Inv, SkipInv
  <2>2. client'.view = "gone" /\ run'.haltNotified = FALSE /\ run'.skipBreakpointOnce = None
    BY <1>0, <2>1 DEF Client, RunState
  <2> QED
    BY <1>1, <2>1, <2>2 DEF Without
<1>3. CASE LoopRuntimeGone
  <2>1. /\ holding /\ ~runtime /\ runtime' = runtime /\ client' = client
        /\ run' = run /\ notices' = notices
    BY <1>3 DEF LoopRuntimeGone, targetVars, channelVars
  <2>2. launch = "complete" /\ run.skipBreakpointOnce = None
    BY <2>1, HoldingFacts DEF Inv, SkipInv
  <2>3. client.view = "gone"
    BY <2>1, <2>2 DEF Inv, LaunchInv
  <2> QED
    BY <1>1, <2>1, <2>2, <2>3 DEF Without
<1> QED
  BY <1>2, <1>3

(* The platform's requests are quiet.                                      *)
LEMMA PlatformKind ==
  ASSUME Inv, Platform
  PROVE  Quietly
<1>1. run \in RunState /\ cpu \in Cpu
  BY DEF Inv, TypeOK
<1>2. SameLaunch(run, run)
  BY DEF SameLaunch
<1>3. CASE PlatformReset
  BY <1>2, <1>3, QuietHandler DEF PlatformReset, loopVars, channelVars
<1>4. ASSUME NEW a \in PcEdits, SetPc(a) PROVE Quietly
  <2>1. cpu'.halted = cpu.halted
    BY <1>1, <1>4 DEF SetPc, Cpu
  <2> QED
    BY <1>2, <1>4, <2>1, QuietHandler DEF SetPc, loopVars, channelVars
<1>5. CASE RebuildRequest \/ RebuildFail
  BY <1>2, <1>5, QuietHandler
     DEF RebuildRequest, RebuildFail, targetVars, loopVars, channelVars
<1>6. ASSUME NEW v \in Versions, RebuildFinish(v) PROVE Quietly
  <2>1. /\ run'.haltNotified = FALSE /\ run'.lastStopReason = run.lastStopReason
        /\ run'.lastBreakpointAddress = None /\ run'.skipBreakpointOnce = None
        /\ run'.pauseRequested = run.pauseRequested /\ SameLaunch(run, run')
    BY <1>1, <1>6 DEF RebuildFinish, RunState, SameLaunch
  <2> QED
    BY <1>6, <2>1, QuietHandler DEF RebuildFinish, loopVars, channelVars
<1> QED
  BY <1>3, <1>4, <1>5, <1>6 DEF Platform

(* So are new breakpoints, the timer that resumes a loop, and stuttering.  *)
LEMMA QuietKinds ==
  ASSUME Inv, \/ \E l \in Lines, kind \in Conditions \cup {"none"} : SetBreakpoints(l, kind)
              \/ LoopResume \/ UNCHANGED vars
  PROVE  Quietly
<1>1. client \in Client /\ SameLaunch(run, run)
  BY DEF Inv, TypeOK, SameLaunch
<1>2. ASSUME NEW l \in Lines, NEW kind \in Conditions \cup {"none"}, SetBreakpoints(l, kind)
      PROVE  Quietly
  <2>1. client'.view = client.view /\ client'.asked = client.asked
    BY <1>1, <1>2 DEF SetBreakpoints, Client
  <2> QED
    BY <1>1, <1>2, <2>1, QuietHandler DEF SetBreakpoints, targetVars, loopVars, channelVars
<1>3. CASE LoopResume
  BY <1>1, <1>3, QuietHandler DEF LoopResume, targetVars, channelVars
<1>4. CASE UNCHANGED vars
  BY <1>1, <1>4, QuietHandler DEF vars, targetVars, loopVars, channelVars
<1> QED
  BY <1>2, <1>3, <1>4

(* A loop that stops.                                                      *)
LEMMA StopLoopKind ==
  ASSUME Inv, Iterating, NEW r \in RunState, r.skipBreakpointOnce = None,
         NEW reason \in Reasons, NEW bp \in Addr \cup {None},
         StopLoop(r, reason, bp, cpu'),
         r.pauseRequested => run.pauseRequested,
         reason = "pause" => run.pauseRequested,
         reason = "breakpoint" => bp = cpu'.pc
  PROVE  Stops(reason, bp)
<1>1. /\ holding /\ EndLoop /\ panel' = panel /\ client' = client
      /\ run' = MarkStopped(r, reason, bp) /\ AnnounceStop(reason, <<"paused">>, cpu'.pc)
  BY DEF Iterating, StopLoop
<1>2. Looped /\ notices = <<>> /\ client.view \in {"running", "gone"}
  BY <1>1, HoldingFacts
<1>3. loops' = <<>>
  BY <1>1, <1>2, EndLoopType
<1>4. /\ notices' = Send(<<>>, <<Stop(reason)>>) /\ statuses' = Send(statuses, <<"paused">>)
      /\ told' = [reason |-> reason, pc |-> cpu'.pc]
  BY <1>1, <1>2 DEF AnnounceStop
<1>5. /\ MarkStopped(r, reason, bp).haltNotified = FALSE
      /\ MarkStopped(r, reason, bp).lastStopReason = reason
      /\ MarkStopped(r, reason, bp).lastBreakpointAddress = bp
      /\ MarkStopped(r, reason, bp).pauseRequested = r.pauseRequested
      /\ MarkStopped(r, reason, bp).skipBreakpointOnce = r.skipBreakpointOnce
  BY DEF MarkStopped, RunState
<1> QED
  BY <1>1, <1>2, <1>3, <1>4, <1>5 DEF Stops

(* The stops before an instruction, and after one.                         *)
LEMMA LoopStopKinds ==
  ASSUME Inv, \/ LoopPaused \/ LoopBreakpoint \/ LoopTarget
              \/ \E o \in Outcomes : LoopReturns(o) \/ LoopLimit(o)
  PROVE  \E reason \in Reasons, bp \in Addr \cup {None} : Stops(reason, bp)
<1>1. /\ TypeOK /\ run \in RunState /\ cpu.pc \in Addr
  BY DEF Inv, TypeOK, Cpu
<1>2. "pause" \in Reasons /\ "breakpoint" \in Reasons /\ "step" \in Reasons
  BY DEF Reasons
<1>3. CASE LoopPaused
  <2> DEFINE r == [run EXCEPT !.pauseRequested = FALSE]
  <2>1. /\ Iterating /\ run.pauseRequested /\ StopLoop(r, "pause", None, cpu')
    BY <1>3 DEF LoopPaused
  <2>2. r \in RunState /\ r.skipBreakpointOnce = None /\ r.pauseRequested = FALSE
    <3>1. run.skipBreakpointOnce = None
      BY <2>1 DEF Inv, SkipInv
    <3> QED
      BY <1>1, <3>1 DEF RunState
  <2> HIDE DEF r
  <2>3. Stops("pause", None)
    BY <1>2, <2>1, <2>2, StopLoopKind
  <2> QED
    BY <1>2, <2>3
<1>4. CASE LoopBreakpoint \/ LoopTarget
  <2>1. /\ Iterating /\ run.skipBreakpointOnce = None /\ cpu' = cpu
        /\ \/ StopLoop(run, "breakpoint", cpu'.pc, cpu')
           \/ StopLoop(run, "step", None, cpu')
    BY <1>4 DEF LoopBreakpoint, LoopTarget, Inv, SkipInv, Skipping
  <2>2. Stops("breakpoint", cpu'.pc) \/ Stops("step", None)
    BY <1>1, <1>2, <2>1, StopLoopKind
  <2> QED
    BY <1>1, <1>2, <2>1, <2>2
<1>5. ASSUME NEW o \in Outcomes, LoopReturns(o) \/ LoopLimit(o)
      PROVE  Stops("step", None)
  <2>1. Executes(o) /\ StopLoop(RunAfter(o), "step", None, o.cpu)
    BY <1>5 DEF LoopReturns, LoopLimit
  <2>2. Iterating /\ cpu' = o.cpu
    BY <2>1 DEF Executes
  <2>3. RunAfter(o) \in RunState /\ RunAfter(o).skipBreakpointOnce = None
    BY <2>1, ExecutesType
  <2>4. RunAfter(o).pauseRequested = run.pauseRequested
    BY <1>1, AfterFields
  <2> QED
    BY <1>2, <2>1, <2>2, <2>3, <2>4, StopLoopKind
<1> QED
  BY <1>2, <1>3, <1>4, <1>5

(* A loop that meets a HALT.                                               *)
LEMMA LoopHaltsKind ==
  ASSUME Inv, NEW o \in Outcomes, LoopHalts(o)
  PROVE  Halts
<1>1. /\ Executes(o) /\ o.cpu.halted /\ run' = HaltStop(RunAfter(o))
      /\ AnnounceHalt(o.cpu.pc) /\ EndLoop
  BY DEF LoopHalts
<1>2. /\ TypeOK /\ Iterating /\ cpu' = o.cpu
      /\ RunAfter(o) \in RunState /\ RunAfter(o).skipBreakpointOnce = None
  BY <1>1, ExecutesType DEF Executes
<1>3. holding /\ runtime /\ client' = client /\ panel' = panel
  BY <1>2 DEF Iterating
<1>4. Looped /\ notices = <<>> /\ client.view \in {"running", "gone"}
  BY <1>3, HoldingFacts
<1>5. loops' = <<>>
  BY <1>1, <1>4, EndLoopType
<1>6. /\ RunAfter(o).haltNotified = run.haltNotified
      /\ RunAfter(o).lastStopReason = run.lastStopReason
      /\ RunAfter(o).pauseRequested = run.pauseRequested
  BY <1>2, AfterFields
<1>7. /\ run'.haltNotified = TRUE /\ run'.skipBreakpointOnce = None
      /\ run'.pauseRequested = run.pauseRequested
      /\ run'.lastStopReason = IF run.haltNotified THEN run.lastStopReason ELSE "halt"
  BY <1>1, <1>2, <1>6, HaltFields
<1> QED
  BY <1>1, <1>2, <1>3, <1>4, <1>5, <1>7 DEF Halts

(* A loop that goes on.                                                    *)
LEMMA LoopAdvancesKind ==
  ASSUME Inv, NEW o \in Outcomes, LoopAdvances(o)
  PROVE  Advances
<1>1. /\ Executes(o) /\ ~o.cpu.halted /\ run' = RunAfter(o)
      /\ notices' = notices /\ statuses' = statuses
  BY DEF LoopAdvances
<1>2. /\ TypeOK /\ Iterating
      /\ SameLaunch(run, RunAfter(o)) /\ RunAfter(o).skipBreakpointOnce = None
  BY <1>1, ExecutesType
<1>3. /\ holding /\ runtime /\ client' = client /\ panel' = panel /\ launch' = launch
  BY <1>2 DEF Iterating
<1>4. loops # <<>> /\ notices = <<>>
  BY <1>3, HoldingFacts
<1>5. /\ RunAfter(o).haltNotified = run.haltNotified
      /\ RunAfter(o).lastStopReason = run.lastStopReason
      /\ RunAfter(o).pauseRequested = run.pauseRequested
  BY <1>2, AfterFields
<1>6. Started' <=> Started
  BY <1>1, <1>2, <1>3 DEF Started, SameLaunch
<1>7. ~cpu.halted
  BY <1>1, HaltedStays
<1>8. loops' # <<>>
  <2>1. Inv'
    BY LoopAdvancesStep
  <2>2. run.isRunning /\ run'.isRunning /\ runtime'
    BY <1>1, <1>3, HoldingFacts, ExecutesType DEF Iterating, Executes
  <2> QED
    BY <2>1, <2>2 DEF Inv, RunningFlagTracksLoop
<1> QED
  BY <1>1, <1>2, <1>3, <1>4, <1>5, <1>6, <1>7, <1>8 DEF Advances

(* The deliveries.                                                         *)
LEMMA DeliveringKinds ==
  ASSUME Inv, Delivering
  PROVE  Quietly \/ Delivers
<1>1. /\ TypeOK /\ client \in Client /\ SameLaunch(run, run)
      /\ statuses \in Seq({"running", "paused"})
  BY DEF Inv, TypeOK, SameLaunch
<1>2. CASE DeliverNotice
  <2>1. /\ notices # <<>> /\ notices' = Tail(notices)
        /\ UNCHANGED <<cpu, run, loops, told, runtime, statuses, panel>>
    BY <1>2 DEF DeliverNotice, targetVars, loopVars
  <2>2. Reported /\ client.view = "running" /\ loops = <<>> /\ Started
    BY <2>1, NoticeFacts
  <2>3. PICK n \in Notice : notices = <<n>>
    BY <2>2 DEF Reported
  <2>4. notices' = <<>> /\ Head(notices) = n /\ n.event \in {"stopped", "terminated"}
    <3>1. Tail(<<n>>) = <<>> /\ Head(<<n>>) = n
      OBVIOUS
    <3> QED
      BY <2>1, <2>3, <3>1 DEF Notice
  <2>5. \/ client'.view = "ended"
        \/ client'.view = "stopped" /\ Head(notices).event = "stopped"
    BY <1>1, <1>2, <2>4 DEF DeliverNotice, Client
  <2>6. Delivers
    BY <2>1, <2>2, <2>4, <2>5 DEF Delivers
  <2> QED
    BY <2>6
<1>3. CASE DeliverStatus
  <2>1. /\ statuses # <<>> /\ panel' = Head(statuses) /\ statuses' = Tail(statuses)
        /\ UNCHANGED <<launch, runtime, cpu, run, loops, notices, told, client>>
    BY <1>3 DEF DeliverStatus, targetVars, loopVars
  <2>2. Shown' = Shown
    <3>1. CASE Len(statuses) = 1
      <4>1. statuses = <<Head(statuses)>> /\ Tail(statuses) = <<>>
        BY <1>1, <2>1, <3>1
      <4>2. statuses[Len(statuses)] = Head(statuses)
        BY <1>1, <2>1, <3>1
      <4> QED
        BY <2>1, <4>1, <4>2 DEF Shown
    <3>2. CASE Len(statuses) # 1
      <4>1. /\ Tail(statuses) # <<>> /\ Len(Tail(statuses)) = Len(statuses) - 1
            /\ Len(statuses) - 1 \in 1 .. Len(statuses) - 1
        <5>0. PICK n \in Nat : n = Len(statuses)
          BY <1>1
        <5>1. n > 1
          <6>1. n # 0
            BY <1>1, <2>1, <5>0, EmptySeq
          <6> QED
            BY <3>2, <5>0, <6>1
        <5>2. Len(Tail(statuses)) = Len(statuses) - 1
          BY <1>1, <2>1
        <5>3. Len(<<>>) = 0
          OBVIOUS
        <5>4. Len(statuses) - 1 # 0 /\ Len(statuses) - 1 \in 1 .. Len(statuses) - 1
          BY <5>0, <5>1
        <5> QED
          BY <5>2, <5>3, <5>4
      <4>2. Tail(statuses)[Len(statuses) - 1] = statuses[Len(statuses)]
        BY <1>1, <2>1, <4>1
      <4> QED
        BY <2>1, <4>1, <4>2 DEF Shown
    <3> QED
      BY <3>1, <3>2
  <2>3. Started' => Started
    BY <2>1 DEF Started
  <2>4. Quietly
    BY <2>1, <2>2, <2>3 DEF Quietly
  <2> QED
    BY <2>4
<1> QED
  BY <1>2, <1>3 DEF Delivering

(* Every step is of a kind.                                                *)
LEMMA StepKinds ==
  ASSUME Inv, [Next]_vars
  PROVE  AnyKind
<1>1. CASE Configuring
  BY <1>1, LaunchKinds, LaunchFinishKind, QuietKinds, ConfigurationDoneKind
     DEF Configuring, AnyKind
<1>2. CASE Executing
  <2>1. Continue => \E targets \in SUBSET Addr : Resume(targets)
    BY DEF Continue
  <2>2. (\E a \in Addr : Goto(a)) => \E targets \in SUBSET Addr : Resume(targets)
    BY DEF Goto
  <2> QED
    BY <1>2, <2>1, <2>2, ResumeKind, SingleStepKind, PauseKind, LeavingKinds
       DEF Executing, AnyKind
<1>3. CASE Platform
  BY <1>3, PlatformKind DEF AnyKind
<1>4. CASE Looping
  BY <1>4, LeavingKinds, LoopStopKinds, LoopHaltsKind, LoopAdvancesKind, QuietKinds
     DEF Looping, AnyKind
<1>5. CASE Delivering
  BY <1>5, DeliveringKinds DEF AnyKind
<1>6. CASE UNCHANGED vars
  BY <1>6, QuietKinds DEF AnyKind
<1> QED
  BY <1>1, <1>2, <1>3, <1>4, <1>5, <1>6 DEF Next

-----------------------------------------------------------------------------
(* The panel.                                                              *)

(* The panel is, or will be, right: a loop shows as running, and a client  *)
(* that is stopped, or will be, as not running.                            *)
PanelInv ==
  client.view \in {"running", "stopped"} /\ Started =>
    /\ loops # <<>> => Shown = "running"
    /\ client.view = "stopped" => Shown # "running"
    /\ notices # <<>> /\ Head(notices).event = "stopped" => Shown # "running"

(* A status that is sent is the one shown in the end.                      *)
LEMMA SentIsShown ==
  ASSUME statuses \in Seq({"running", "paused"}), NEW status \in {"running", "paused"},
         statuses' = Send(statuses, <<status>>), client.view # "gone"
  PROVE  Shown' = status
<1>1. statuses' = statuses \o <<status>>
  BY DEF Send
<1>2. PICK n \in Nat : n = Len(statuses)
  OBVIOUS
<1>3. Len(statuses') = n + 1 /\ statuses'[n + 1] = status
  BY <1>1, <1>2
<1>4. Len(<<>>) = 0 /\ n + 1 # 0
  BY <1>2
<1> QED
  BY <1>3, <1>4 DEF Shown

(* Every kind of step keeps the panel right.                               *)
LEMMA PanelStep ==
  ASSUME Inv, PanelInv, [Next]_vars PROVE PanelInv'
<1>1. statuses \in Seq({"running", "paused"})
  BY DEF Inv, TypeOK
<1>2. CASE Quietly
  BY <1>2 DEF PanelInv, Quietly
<1>3. CASE Without
  <2>1. <<Terminated>> # <<>> /\ Head(<<Terminated>>) = Terminated
    OBVIOUS
  <2>2. Terminated.event = "terminated"
    BY DEF Terminated
  <2> QED
    BY <1>3, <2>1, <2>2 DEF PanelInv, Without
<1>4. CASE Begins
  <2>1. CASE client.view = "gone"
    BY <1>4, <2>1 DEF Begins, PanelInv
  <2>2. CASE client.view = "running" /\ loops' # <<>>
    <3>1. statuses' = Send(statuses, <<"running">>) /\ notices' = <<>> /\ client'.view = "running"
      BY <1>4, <2>2 DEF Begins
    <3> QED
      BY <1>1, <2>2, <3>1, SentIsShown DEF PanelInv
  <2>3. CASE client.view = "running" /\ loops' = <<>> /\ Started'
    <3>1. statuses' = Send(statuses, <<"paused">>) /\ client'.view = "running"
      BY <1>4, <2>3 DEF Begins
    <3> QED
      BY <1>1, <2>3, <3>1, SentIsShown DEF PanelInv
  <2> QED
    BY <1>4, <2>1, <2>2, <2>3 DEF Begins, PanelInv
<1>5. CASE Runs
  <2>1. statuses' = Send(statuses, <<"running">>) /\ client.view # "gone"
    BY <1>5 DEF Runs, Send
  <2> QED
    BY <1>1, <1>5, <2>1, SentIsShown DEF Runs, PanelInv
<1>6. CASE Steps
  <2>1. client.view = "stopped" /\ Started /\ Shown' = Shown
    BY <1>6 DEF Steps, Inv, ShapeInv, Shown
  <2> QED
    BY <1>6, <2>1 DEF Steps, PanelInv
<1>7. CASE Advances
  <2>1. Shown' = Shown
    BY <1>7 DEF Advances, Shown
  <2>2. client.view # "stopped"
    BY <1>7 DEF Advances, Inv, ShapeInv, Idle
  <2> QED
    BY <1>7, <2>1, <2>2 DEF Advances, PanelInv
<1>8. CASE Halts
  <2>1. CASE client'.view = "gone"
    BY <2>1 DEF PanelInv
  <2>2. CASE client'.view # "gone" /\ run.haltNotified
    <3>1. notices' = <<>> \o <<Terminated>>
      BY <1>8, <2>2 DEF Halts, AnnounceHalt, Send
    <3>2. <<>> \o <<Terminated>> = <<Terminated>> /\ Head(<<Terminated>>) = Terminated
      OBVIOUS
    <3>3. Terminated.event # "stopped"
      BY DEF Terminated
    <3> QED
      BY <1>8, <3>1, <3>2, <3>3 DEF Halts, PanelInv
  <2>3. CASE client'.view # "gone" /\ ~run.haltNotified
    <3>1. statuses' = Send(statuses, <<"paused">>) /\ client.view # "gone"
      BY <1>8, <2>3 DEF Halts, AnnounceHalt, AnnounceStop
    <3> QED
      BY <1>1, <1>8, <3>1, SentIsShown DEF Halts, PanelInv
  <2> QED
    BY <2>1, <2>2, <2>3
<1>9. CASE Delivers
  <2>1. Shown' = Shown
    BY <1>9 DEF Delivers, Shown
  <2> QED
    BY <1>9, <2>1 DEF Delivers, PanelInv
<1>10. ASSUME NEW reason \in Reasons, NEW bp \in Addr \cup {None}, Stops(reason, bp)
       PROVE  PanelInv'
  <2>1. CASE client.view = "gone"
    BY <1>10, <2>1 DEF Stops, PanelInv
  <2>2. CASE client.view = "running"
    <3>1. statuses' = Send(statuses, <<"paused">>)
      BY <1>10 DEF Stops
    <3> QED
      BY <1>1, <1>10, <2>2, <3>1, SentIsShown DEF Stops, PanelInv
  <2> QED
    BY <1>10, <2>1, <2>2 DEF Stops
<1> QED
  BY <1>2, <1>3, <1>4, <1>5, <1>6, <1>7, <1>8, <1>9, <1>10, StepKinds DEF AnyKind

(* When no event is in flight the panel and the debug toolbar agree,       *)
(* whatever stops, steps, halts and launches came before.                  *)
THEOREM PanelAgrees == Spec => []PanelAgreesWithClient
<1>1. Init => PanelInv
  <2> SUFFICES ASSUME Init PROVE PanelInv
    OBVIOUS
  <2>1. client.view = "none"
    BY DEF Init
  <2> QED
    BY <2>1 DEF PanelInv
<1>2. Inv /\ PanelInv /\ [Next]_vars => PanelInv'
  BY PanelStep
<1>3. Inv /\ PanelInv => PanelAgreesWithClient
  <2> SUFFICES ASSUME Inv, PanelInv, notices = <<>>, statuses = <<>>, Started,
                      client.view \in {"running", "stopped"}
               PROVE  panel = "running" <=> client.view = "running"
    BY DEF PanelAgreesWithClient
  <2>1. Shown = panel
    BY DEF Shown
  <2>2. client.view = "running" => loops # <<>>
    BY DEF Inv, ShapeInv, Looped, Reported
  <2> QED
    BY <2>1, <2>2 DEF PanelInv
<1> QED
  BY <1>1, <1>2, <1>3, InvariantHolds, PTL DEF Spec

-----------------------------------------------------------------------------
(* What is remembered of stops.                                            *)

(* The memory of the last stop and what was announced agree: a halt is     *)
(* notified only as the last stop; where execution rests on a breakpoint,  *)
(* that breakpoint was announced and nothing has executed since; and a     *)
(* breakpoint to be skipped is that one.                                   *)
ToldInv ==
  /\ run.haltNotified => run.lastStopReason = "halt"
  /\ runtime /\ loops = <<>> /\ run.lastStopReason = "breakpoint"
       /\ run.lastBreakpointAddress # None
       => told = [reason |-> "breakpoint", pc |-> run.lastBreakpointAddress]
  /\ run.skipBreakpointOnce # None
       => told = [reason |-> "breakpoint", pc |-> run.skipBreakpointOnce]

(* Every kind of step keeps the memory of stops true.                      *)
LEMMA ToldStep ==
  ASSUME Inv, ToldInv, [Next]_vars PROVE ToldInv'
<1>0. /\ "halt" # "breakpoint" /\ "entry" # "breakpoint" /\ None # "breakpoint"
      /\ None # "halt"
  BY ConstantsAssumption DEF Reasons
<1>1. CASE Quietly
  BY <1>1 DEF ToldInv, Quietly
<1>2. CASE Without
  BY <1>2 DEF ToldInv, Without
<1>3. CASE Begins
  <2>1. ~run'.haltNotified /\ run'.lastStopReason # "breakpoint"
    BY <1>0, <1>3 DEF ToldInv, Begins
  <2> QED
    BY <1>3, <2>1 DEF ToldInv, Begins
<1>4. CASE Runs
  BY <1>4 DEF ToldInv, Runs
<1>5. CASE Steps
  BY <1>5 DEF ToldInv, Steps
<1>6. CASE Advances
  BY <1>6 DEF ToldInv, Advances
<1>7. CASE Halts
  BY <1>0, <1>7 DEF ToldInv, Halts
<1>8. CASE Delivers
  BY <1>8 DEF ToldInv, Delivers
<1>9. ASSUME NEW reason \in Reasons, NEW bp \in Addr \cup {None}, Stops(reason, bp)
      PROVE  ToldInv'
  BY <1>9 DEF ToldInv, Stops
<1> QED
  BY <1>1, <1>2, <1>3, <1>4, <1>5, <1>6, <1>7, <1>8, <1>9, StepKinds DEF AnyKind

(* The memory of stops is true from the start.                             *)
LEMMA ToldHolds == Spec => []ToldInv
<1>1. Init => ToldInv
  <2> SUFFICES ASSUME Init PROVE ToldInv
    OBVIOUS
  <2>1. run = InitialRunState(FALSE) /\ runtime = FALSE
    BY DEF Init
  <2>2. run.haltNotified = FALSE /\ run.skipBreakpointOnce = None
    BY <2>1 DEF InitialRunState
  <2> QED
    BY <2>1, <2>2 DEF ToldInv
<1>2. Inv /\ ToldInv /\ [Next]_vars => ToldInv'
  BY ToldStep
<1> QED
  BY <1>1, <1>2, InvariantHolds, PTL DEF Spec

(* While a loop holds the thread only its instructions change the CPU.     *)
LEMMA OnlyLoopsExecute ==
  ASSUME Inv, [Next]_vars, LoopExecutes
  PROVE  runtime /\ \E o \in Outcomes : Executes(o)
<1>1. holding /\ cpu' # cpu /\ client.view \in {"running", "gone"}
  BY HoldingFacts DEF LoopExecutes
<1>2. ~Configuring
  BY <1>1 DEF Configuring, LaunchRequest, LaunchFinish, LaunchFail, SetBreakpoints,
              ConfigurationDone, JsIdle
<1>3. ~Executing
  BY <1>1 DEF Executing, Continue, Goto, RunToStackFrame, Resume, SingleStep, StepOut, Requested,
              Pause, Disconnect, JsIdle
<1>4. ~Platform
  BY <1>1 DEF Platform, PlatformReset, SetPc, RebuildRequest, RebuildFinish, RebuildFail, JsIdle
<1>5. ~Delivering
  BY <1>1 DEF Delivering, DeliverNotice, DeliverStatus, targetVars
<1>6. Looping
  BY <1>1, <1>2, <1>3, <1>4, <1>5 DEF Next, vars, targetVars
<1>7. ~(LoopRuntimeGone \/ LoopPaused \/ LoopBreakpoint \/ LoopTarget \/ LoopResume)
  BY <1>1 DEF LoopRuntimeGone, LoopPaused, LoopBreakpoint, LoopTarget, LoopResume, JsIdle,
              targetVars
<1> QED
  BY <1>6, <1>7 DEF Looping, LoopHalts, LoopReturns, LoopLimit, LoopAdvances

(* A run never executes an instruction that holds an unconditional         *)
(* breakpoint unless the client has just been stopped at it.               *)
THEOREM BreakpointsStop == Spec => NoMissedBreakpoint
<1>1. ASSUME Inv, ToldInv, [Next]_vars, LoopExecutes, active[cpu.pc] = "plain"
      PROVE  told = [reason |-> "breakpoint", pc |-> cpu.pc]
  <2>1. PICK o \in Outcomes : Executes(o)
    BY <1>1, OnlyLoopsExecute
  <2>2. run.skipBreakpointOnce = cpu.pc
    BY <1>1, <2>1 DEF Executes, Skipping
  <2>3. cpu.pc # None
    BY <1>1, ConstantsAssumption DEF Inv, TypeOK, Cpu
  <2> QED
    BY <1>1, <2>2, <2>3 DEF ToldInv
<1>2. Inv /\ ToldInv /\ [Next]_vars =>
        (LoopExecutes /\ active[cpu.pc] = "plain" =>
           told = [reason |-> "breakpoint", pc |-> cpu.pc])
  BY <1>1
<1> QED
  BY <1>2, InvariantHolds, ToldHolds, PTL DEF Spec, NoMissedBreakpoint

-----------------------------------------------------------------------------
(* Pauses.                                                                 *)

(* A pause the run loop has yet to see is one the client has asked for     *)
(* since it last saw a stop.                                               *)
PauseInv == client.view = "running" /\ run.pauseRequested => client.asked

(* Every kind of step keeps the pauses to those asked for.                 *)
LEMMA PauseStepInv ==
  ASSUME Inv, PauseInv, [Next]_vars PROVE PauseInv'
<1>1. ASSUME NEW reason \in Reasons, NEW bp \in Addr \cup {None}, Stops(reason, bp)
      PROVE  PauseInv'
  BY <1>1 DEF PauseInv, Stops
<1>2. CASE Quietly \/ Without \/ Begins
  BY <1>2 DEF PauseInv, Quietly, Without, Begins
<1>3. CASE Runs \/ Steps \/ Advances \/ Halts \/ Delivers
  BY <1>3 DEF PauseInv, Runs, Steps, Advances, Halts, Delivers
<1> QED
  BY <1>1, <1>2, <1>3, StepKinds DEF AnyKind

(* What is sent is the last of what is on its way.                         *)
LEMMA OneSent ==
  ASSUME NEW n, NEW m, notices = <<>>, notices' = Send(<<>>, <<n>>),
         notices' = Append(notices, m)
  PROVE  n = m /\ client.view # "gone"
<1>1. <<>> \o <<n>> = <<n>> /\ Append(<<>>, m) = <<m>> /\ <<m>> # <<>>
  OBVIOUS
<1>2. <<n>> = <<m>> /\ client.view # "gone"
  BY <1>1 DEF Send
<1>3. <<n>>[1] = n /\ <<m>>[1] = m
  OBVIOUS
<1> QED
  BY <1>2, <1>3

(* Only a loop that saw the pause reports one.                             *)
LEMMA PauseReported ==
  ASSUME Inv, [Next]_vars, notices' = Append(notices, Stop("pause"))
  PROVE  client.view = "running" /\ run.pauseRequested
<1>0. notices \in Seq(Notice)
  BY DEF Inv, TypeOK
<1>1. notices' # notices /\ notices' # <<>>
  BY <1>0
<1>2. /\ \A reason \in Reasons : Stop(reason) = Stop("pause") => reason = "pause"
      /\ Terminated # Stop("pause") /\ "pause" \in Reasons
  BY DEF Stop, Terminated, Reasons
<1>3. ~Quietly /\ ~Without /\ ~Runs /\ ~Advances /\ ~Delivers
  BY <1>1 DEF Quietly, Without, Runs, Advances, Delivers
<1>4. ASSUME NEW reason \in Reasons, notices = <<>>, notices' = Send(<<>>, <<Stop(reason)>>)
      PROVE  reason = "pause" /\ client.view # "gone"
  BY <1>2, <1>4, OneSent
<1>5. "entry" \in Reasons /\ "step" \in Reasons /\ "halt" \in Reasons
  BY DEF Reasons
<1>6. ~Begins
  BY <1>1, <1>4, <1>5 DEF Begins
<1>7. ~Steps
  BY <1>4, <1>5 DEF Steps
<1>8. ~Halts
  <2>1. ~(notices = <<>> /\ notices' = Send(<<>>, <<Terminated>>))
    BY <1>2, OneSent
  <2> QED
    BY <1>4, <1>5, <2>1 DEF Halts, AnnounceHalt, AnnounceStop
<1>9. PICK reason \in Reasons, bp \in Addr \cup {None} : Stops(reason, bp)
  BY <1>3, <1>6, <1>7, <1>8, StepKinds DEF AnyKind
<1> QED
  BY <1>4, <1>9 DEF Stops

(* A pause is reported only if it was pressed since the last stop the      *)
(* client saw: one that crossed another stop is forgotten.                 *)
THEOREM PausesRequested == Spec => PauseStopsAreRequested
<1>1. Init => PauseInv
  <2> SUFFICES ASSUME Init PROVE PauseInv
    OBVIOUS
  <2>1. client.view = "none"
    BY DEF Init
  <2> QED
    BY <2>1 DEF PauseInv
<1>2. Inv /\ PauseInv /\ [Next]_vars => PauseInv'
  BY PauseStepInv
<1>3. Inv /\ PauseInv /\ [Next]_vars =>
        (notices' = Append(notices, Stop("pause")) => client.asked)
  BY PauseReported DEF PauseInv
<1> QED
  BY <1>1, <1>2, <1>3, InvariantHolds, PTL DEF Spec, PauseStopsAreRequested

-----------------------------------------------------------------------------
(* Halts.                                                                  *)

(* While a notified halt is the last stop the client knows of, the CPU is  *)
(* halted and nothing has executed.  A panel reset that is possible while  *)
(* the session is stopped breaks this: it restarts the CPU and leaves the  *)
(* notified halt standing.                                                 *)
HaltInv ==
  runtime /\ run.haltNotified /\ client.view \in {"running", "stopped"}
    /\ notices # <<Terminated>>
  => cpu.halted /\ told # None /\ told.reason = "halt"

(* Every kind of step keeps a notified halt true, without panel resets.    *)
LEMMA HaltStep ==
  ASSUME "reset" \notin Requests, Inv, ToldInv, HaltInv, [Next]_vars PROVE HaltInv'
<1>1. ASSUME NEW reason \in Reasons, NEW bp \in Addr \cup {None}, Stops(reason, bp)
      PROVE  HaltInv'
  BY <1>1 DEF HaltInv, Stops
<1>2. <<>> # <<Terminated>>
  OBVIOUS
<1>3. CASE Quietly
  BY <1>3 DEF HaltInv, Quietly
<1>4. CASE Without
  BY <1>4 DEF HaltInv, Without
<1>5. CASE Begins
  <2>1. ~run.haltNotified
    BY <1>5, ConstantsAssumption DEF Begins, ToldInv, Reasons
  <2> QED
    BY <1>5, <2>1 DEF HaltInv, Begins
<1>6. CASE Runs
  <2>1. notices = <<>>
    BY <1>6 DEF Runs, Inv, ShapeInv, Idle
  <2> QED
    BY <1>2, <1>6, <2>1 DEF HaltInv, Runs
<1>7. CASE Steps
  BY <1>7 DEF HaltInv, Steps
<1>8. CASE Advances
  BY <1>2, <1>8 DEF HaltInv, Advances
<1>9. CASE Halts
  <2>1. CASE client'.view = "gone"
    BY <2>1 DEF HaltInv
  <2>2. CASE client'.view # "gone" /\ run.haltNotified
    <3>1. notices' = <<>> \o <<Terminated>>
      BY <1>9, <2>2 DEF Halts, AnnounceHalt, Send
    <3>2. <<>> \o <<Terminated>> = <<Terminated>>
      OBVIOUS
    <3> QED
      BY <3>1, <3>2 DEF HaltInv
  <2>3. CASE ~run.haltNotified
    <3>1. told' = [reason |-> "halt", pc |-> cpu'.pc]
      BY <1>9, <2>3 DEF Halts, AnnounceHalt, AnnounceStop
    <3>2. told'.reason = "halt"
      BY <3>1
    <3>3. told' # None
      <4>1. cpu'.pc \in Addr
        BY NextInv DEF Inv, TypeOK, Cpu
      <4>2. told' \in [reason : Reasons, pc : Addr]
        BY <3>1, <4>1 DEF Reasons
      <4> QED
        BY <4>2, ConstantsAssumption
    <3> QED
      BY <1>9, <3>2, <3>3 DEF HaltInv, Halts
  <2> QED
    BY <2>1, <2>2, <2>3
<1>10. CASE Delivers
  <2>1. client'.view = "stopped" => notices # <<Terminated>>
    <3>1. Head(<<Terminated>>) = Terminated
      OBVIOUS
    <3>2. Terminated.event # "stopped"
      BY DEF Terminated
    <3> QED
      BY <1>10, <3>1, <3>2 DEF Delivers
  <2> QED
    BY <1>10, <2>1 DEF HaltInv, Delivers
<1> QED
  BY <1>1, <1>3, <1>4, <1>5, <1>6, <1>7, <1>8, <1>9, <1>10, StepKinds DEF AnyKind

(* The end of a launched session is reported by a second halt only.        *)
LEMMA TerminatedReported ==
  ASSUME Inv, [Next]_vars, notices' = Append(notices, Terminated), launch = "complete"
  PROVE  /\ runtime /\ run.haltNotified /\ notices # <<Terminated>>
         /\ client.view \in {"running", "stopped"}
<1>0. notices \in Seq(Notice) /\ <<>> # <<Terminated>>
  BY DEF Inv, TypeOK
<1>1. notices' # notices /\ notices' # <<>>
  BY <1>0
<1>2. \A reason : Stop(reason) # Terminated
  BY DEF Stop, Terminated
<1>3. ~Quietly /\ ~Without /\ ~Runs /\ ~Advances /\ ~Delivers
  BY <1>1 DEF Quietly, Without, Runs, Advances, Delivers
<1>4. \A reason : ~(notices = <<>> /\ notices' = Send(<<>>, <<Stop(reason)>>))
  BY <1>2, OneSent
<1>5. ~Begins /\ ~Steps
  BY <1>1, <1>4 DEF Begins, Steps
<1>6. \A reason, bp : ~Stops(reason, bp)
  BY <1>4 DEF Stops
<1>7. Halts
  BY <1>3, <1>5, <1>6, StepKinds DEF AnyKind
<1>8. run.haltNotified
  BY <1>4, <1>7 DEF Halts, AnnounceHalt, AnnounceStop
<1>9. client.view # "gone"
  BY <1>7, <1>8, OneSent DEF Halts, AnnounceHalt
<1> QED
  BY <1>0, <1>7, <1>8, <1>9 DEF Halts

(* If the panel's reset is not used, Terminated after a halt means no      *)
(* progress: the client was told of the halt, the CPU is still in it and   *)
(* nothing has executed since.  The run session_reset shows that the       *)
(* hypothesis is needed.                                                   *)
THEOREM HaltTerminates ==
  ASSUME "reset" \notin Requests PROVE Spec => HaltTerminatesWithoutProgress
<1>1. Init => HaltInv
  <2> SUFFICES ASSUME Init PROVE HaltInv
    OBVIOUS
  <2>1. runtime = FALSE
    BY DEF Init
  <2> QED
    BY <2>1 DEF HaltInv
<1>2. Inv /\ ToldInv /\ HaltInv /\ [Next]_vars => HaltInv'
  BY HaltStep
<1>3. Inv /\ HaltInv /\ [Next]_vars =>
        (notices' = Append(notices, Terminated) /\ launch = "complete" =>
           cpu.halted /\ told # None /\ told.reason = "halt")
  BY TerminatedReported DEF HaltInv
<1> QED
  BY <1>1, <1>2, <1>3, InvariantHolds, ToldHolds, PTL DEF Spec, HaltTerminatesWithoutProgress

=============================================================================
