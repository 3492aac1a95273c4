------------------------------- MODULE Z80Machine -------------------------------
(* From source to silicon: AZM assembles a program, the runtime loads the image   *)
(* and steps the processor through it, one call of step() at a time.  A block      *)
(* instruction that repeats is carried through within one call; the platform's     *)
(* tick comes after every iteration and can raise the keypad's interrupt there.    *)
EXTENDS RegisterContracts, Z80Execute

CONSTANT Jobs   \* what to assemble and run: source, entry, processor, interrupts and steps allowed

(* What the parser hands on.                                                        *)
IsItem(i) ==
  /\ i = Item(i.kind, i.name, Expr(i.e.sym, i.e.minus, i.e.off), i.arg, i.ins)
  /\ i.kind \in {"org", "label", "equ", "db", "ds", "align", "instruction", "end", "routine"}
  /\ i.e.off \in Int /\ i.arg \in Nat
  /\ i.kind = "align" => i.e = Num(i.e.off) /\ i.e.off > 0
  /\ i.kind = "instruction" => i.ins \in Instructions /\ (i.arg = 0 \/ TakesExpression(i.ins))
ASSUME JobsAssumption ==
  \A j \in Jobs :
    /\ j.source \in Seq({i \in {j.source[k] : k \in DOMAIN j.source} : IsItem(i)})
    /\ IsCpu(j.cpu)
    /\ j.nmis \in Nat /\ j.steps \in Nat /\ j.contracts \in BOOLEAN

VARIABLES
  job,      \* the job being done
  mode,     \* off, idle (between steps), stepping, halted
  cpu,      \* the processor
  step,     \* the call of step() under way or just made: trace, where it began
  nmis,     \* interrupts the keypad will still raise
  steps     \* calls of step() left

machineVars == <<job, mode, cpu, step, nmis, steps>>
vars == <<assemblyVars, contractVars, machineVars>>

(* ------------------------------- processor --------------------------------- *)
initCpu ==
  [reg |-> [r \in RegisterNames |-> 0], alt |-> [r \in Bytes8 |-> 0],
   f |-> setFlagsFromByte(0), altF |-> setFlagsFromByte(0), sp |-> 57328, pc |-> 0,
   iff1 |-> 0, iff2 |-> 0, im |-> 0, halted |-> FALSE, ei |-> FALSE, di |-> FALSE,
   mem |-> EmptyMap, rom |-> {}, ports |-> EmptyMap, output |-> [port |-> -1, val |-> 0]]

(* What the image leaves out is zero; without an entry in the address space, PC     *)
(* starts at the first byte the HEX file holds.                                    *)
loadProgram(c, entry) ==
  [c EXCEPT !.mem = out.image, !.pc = IF entry \in Addresses THEN entry ELSE ImageStart, !.halted = FALSE]

(* ----------------------------- what a step will do -------------------------- *)
NoTrace == [kind |-> "none", taken |-> FALSE, returnAddress |-> Unset]
StepInfo(kind, taken, returnAddress) == [kind |-> kind, taken |-> taken, returnAddress |-> returnAddress]
(* Mutant: every conditional call and return counts as taken.                      *)
shouldBranchAlways(c, op) == TRUE
shouldBranchOnCondition(c, op) == Holds(c.f, Row(op) + 1)
classifyStepOver(c) ==
  LET op == At(c.mem, c.pc)
      second == At(c.mem, c.pc + 1)
      condition == shouldBranchOnCondition(c, op)
      after(n) == (c.pc + n) % 65536
  IN IF op = 205 THEN StepInfo("call", TRUE, after(3))
     ELSE IF op >= 192 /\ Column(op) = 4 THEN StepInfo("call", condition, after(3))
     ELSE IF op >= 192 /\ Column(op) = 7 THEN StepInfo("rst", TRUE, after(1))
     ELSE IF op = 201 THEN StepInfo("ret", TRUE, Unset)
     ELSE IF op >= 192 /\ Column(op) = 0 THEN StepInfo("ret", condition, Unset)
     ELSE IF op = 237 /\ second >= 64 /\ second < 128 /\ Column(second) = 5 THEN StepInfo("ret", TRUE, Unset)
     ELSE NoTrace
isBlockRepeatInstruction(c, pc) ==
  At(c.mem, pc) = 237 /\ At(c.mem, pc + 1) \in {176, 177, 178, 179, 184, 185, 186, 187}

(* --------------------------------- actions ---------------------------------- *)
(* A bound: programs that stay within the address space are loaded.                *)
FitsMemory == DOMAIN out.image \subseteq Addresses
Load ==
  /\ stage = "assembled" /\ mode = "off" /\ steps > 0
  /\ FitsMemory
  /\ cpu' = loadProgram(cpu, job.entry)
  /\ mode' = "idle"
  /\ UNCHANGED <<assemblyVars, contractVars, job, step, nmis, steps>>

StepRuntime ==
  /\ mode = "idle" /\ steps > 0
  /\ step' = [trace |-> classifyStepOver(cpu), before |-> cpu, interrupted |-> FALSE]
  /\ mode' = "stepping"
  /\ steps' = steps - 1
  /\ UNCHANGED <<assemblyVars, contractVars, job, cpu, nmis>>

(* The loop's body: an instruction, a tick, then whether to go round again.        *)
Ticked(c, pressed) == IF pressed THEN nmi(c) ELSE c
Iterate ==
  /\ mode = "stepping"
  /\ \E pressed \in BOOLEAN :
       /\ pressed => nmis > 0
       /\ cpu' = Ticked(execute(cpu), pressed)
       /\ nmis' = IF pressed THEN nmis - 1 ELSE nmis
       /\ step' = [step EXCEPT !.interrupted = @ \/ pressed]
  /\ mode' = IF cpu'.halted THEN "halted"
             ELSE IF cpu'.pc = step.before.pc /\ isBlockRepeatInstruction(cpu', cpu'.pc) THEN "stepping"
             ELSE "idle"
  /\ UNCHANGED <<assemblyVars, contractVars, job, steps>>

(* The contracts, where asked for, are checked before anything is assembled.       *)
Analyse ==
  /\ ContractsNext
  /\ UNCHANGED <<assemblyVars, job, mode, cpu, step, nmis, steps>>
Assemble ==
  /\ analysis \in {"off", "checked"}
  /\ AssemblyNext
  /\ UNCHANGED <<contractVars, job, mode, cpu, step, nmis, steps>>

Init ==
  /\ job \in Jobs
  /\ AssemblyInit({job.source})
  /\ ContractsInit(job.contracts)
  /\ mode = "off"
  /\ cpu = job.cpu
  /\ step = [trace |-> NoTrace, before |-> job.cpu, interrupted |-> FALSE]
  /\ nmis = job.nmis
  /\ steps = job.steps
Next == Analyse \/ Assemble \/ Load \/ StepRuntime \/ Iterate
Spec == Init /\ [][Next]_vars

(* -------------------------------- properties -------------------------------- *)
(* Registers, flags, addresses and bytes keep their widths whatever is executed     *)
(* (execute and the instruction handlers), and the stages stay as named.            *)
TypeOK ==
  /\ stage \in {"planning", "reporting", "emitting", "assembled", "rejected"}
  /\ analysis \in {"off", "summarising", "liveness", "checked"}
  /\ mode \in {"off", "idle", "stepping", "halted"}
  /\ IsCpu(cpu) /\ IsCpu(step.before)
  /\ IsByteMap(out.image)

(* The last item's segment, an instruction under a code placement, all of it within *)
(* the address space.                                                              *)
RoomFor(size) == 0..(65536 - size)
JustWritten(s) ==
  /\ s.item = out.next - 1 /\ source[s.item].kind = "instruction" /\ out.at.active = "code" /\ ~out.faulty
  /\ s.start \in RoomFor(instructionSize(source[s.item].ins))
FoundAt(image, a, i, size) ==
  IF TwoTransfers(i)
  THEN /\ decodeInstruction(image, a).ins = Ins("ld", R8(HighOf[i.dst.reg]), R8("d"), 0)
       /\ decodeInstruction(image, a + 1).ins = Ins("ld", R8(LowOf[i.dst.reg]), R8("e"), 0)
  ELSE decodeInstruction(image, a) = Decoded(AsDecoded(i), size)

(* The bytes the assembler just wrote for an instruction are the ones the emulator *)
(* decodes as that instruction, operands included, and take up the room the        *)
(* planner gave it (encodeZ80Instruction, emitInstruction, decodeInstruction).     *)
AssembledAsWritten ==
  \A s \in {out.segments[k] : k \in DOMAIN out.segments} :
    JustWritten(s) => FoundAt(out.image, s.start, Written(source[s.item], s.start), instructionSize(source[s.item].ins))

(* The two walks over the source agree: when the second one reaches a label, the    *)
(* address it writes at is the label's (buildAddressState, emitProgramImage).      *)
LabelsPointAtTheirBytes ==
  (stage = "emitting" /\ settled /\ ~out.ended /\ ~out.faulty /\ out.next <= Len(source)
     /\ source[out.next].kind = "label") =>
    known.labels[source[out.next].name] = activePlacementAddress(out.at)

(* What step() tells the debugger of calls and returns is what the processor then   *)
(* did (classifyStepOver, stepRuntime): stepping over and out count on it.  A call  *)
(* that is not taken goes on to the next instruction; one that is taken leaves its  *)
(* return address on the stack, unless the stack lies in ROM; a step said to be     *)
(* neither call nor return leaves the stack alone or goes on to the next.  The     *)
(* exception is a call that pushes over its own opcode, which is then read anew.   *)
StepInfoIsTrue ==
  LET b == step.before
      t == step.trace
      next == (b.pc + decodeInstruction(b.mem, b.pc).len) % 65536
      pushed == {(b.sp - 1) % 65536, (b.sp - 2) % 65536}
      own == {b.pc, (b.pc + 1) % 65536}
  IN (mode \in {"idle", "halted"} /\ steps < job.steps /\ ~step.interrupted) =>
       /\ t.kind = "none" => cpu.sp = b.sp \/ cpu.pc = next
       /\ t.kind # "none" /\ ~t.taken => cpu.sp = b.sp /\ cpu.pc = next
       /\ t.kind \in {"call", "rst"} /\ t.taken =>
            /\ t.returnAddress = next
            /\ pushed \cap own = {} =>
                 /\ cpu.sp = (b.sp - 2) % 65536
                 /\ pushed \cap b.rom = {} => WordAt(cpu.mem, cpu.sp) = next
       /\ t.kind = "ret" /\ t.taken => cpu.sp = (b.sp + 2) % 65536 /\ cpu.pc = WordAt(b.mem, b.sp)

(* DAA after an addition or subtraction of packed decimals gives the packed decimal *)
(* sum or difference, with the decimal carry (do_add, do_sub and daa together).    *)
Decimal(b) == 10 * (b \div 16) + (b % 16)
Packed(n) == 16 * (n \div 10) + (n % 10)
DecimalArithmetic ==
  LET i == source[1].ins
      x == Decimal(job.cpu.reg.a)  y == Decimal(job.cpu.reg.b)
      carry == IF i.mn \in {"adc", "sbc"} THEN job.cpu.f.C ELSE 0
      total == IF i.mn \in {"add", "adc"} THEN x + y + carry ELSE x - y - carry
  IN (job.kind = "decimal" /\ mode = "halted") =>
       cpu.reg.a = Packed(total % 100) /\ cpu.f.C = B01(total \notin 0..99)

(* A block copy moves byte after byte, overlapping or not and however often the     *)
(* keypad interrupts it, and leaves the pointers behind the block (ldir, lddr,     *)
(* stepRuntime's loop, nmi).                                                       *)
CopiedFrom(c, d) ==
  FoldLeft(LAMBDA m, k : Put(m, (Pair(c, "de") + d * k) % 65536, At(m, Pair(c, "hl") + d * k)),
           out.image, [k \in 1..Pair(c, "bc") |-> k - 1])
BlockCopyExact ==
  LET d == BlockStep(source[1].ins.mn)
      moved == CopiedFrom(job.cpu, d)
      stack == {(job.cpu.sp - 1) % 65536, (job.cpu.sp - 2) % 65536}
      count == Pair(job.cpu, "bc")
  IN (job.kind = "copy" /\ mode = "halted") =>
       /\ \A a \in DOMAIN cpu.mem \ stack : cpu.mem[a] = At(moved, a)
       /\ Pair(cpu, "bc") = 0 /\ cpu.sp = job.cpu.sp
       /\ Pair(cpu, "hl") = Pair(job.cpu, "hl") + d * count
       /\ Pair(cpu, "de") = Pair(job.cpu, "de") + d * count

(* ------------------- the contracts against the processor -------------------- *)
FlagOf == [sign |-> "S", zero |-> "Z", halfCarry |-> "H", parity |-> "P", carry |-> "C"]
UnitValue(c, u) ==
  CASE u \in FlagUnits -> c.f[FlagOf[u]]
    [] u = "sph" -> c.sp \div 256
    [] u = "spl" -> c.sp % 256
    [] OTHER -> c.reg[u]
WithUnit(c, u, v) ==
  CASE u \in FlagUnits -> [c EXCEPT !.f[FlagOf[u]] = v]
    [] u = "sph" -> [c EXCEPT !.sp = 256 * v + (@ % 256)]
    [] u = "spl" -> [c EXCEPT !.sp = 256 * (@ \div 256) + v]
    [] OTHER -> [c EXCEPT !.reg[u] = v]
OtherValues(c, u) ==
  IF u \in FlagUnits THEN {1 - UnitValue(c, u)} ELSE {255 - UnitValue(c, u), (UnitValue(c, u) + 1) % 256}

(* What the tables of effects are known to leave out.                              *)
CountsIndex(i) == i.mn \in {"inc", "dec"} /\ i.dst \in {R16("ix"), R16("iy")}
UntoldReads(i) ==
  CASE i.mn \in {"rl", "rr"} -> {"carry"}
    [] CountsIndex(i) -> reg16Units(i.dst.reg) \cup ShortFlags   \* it keeps the flags said to be written
    [] i.mn \in Searches -> {"a"}
    [] i.mn \in {"in", "out"} /\ PortC \in {i.dst, i.src} -> {"b"}
    [] OTHER -> {}
UntoldWrites(i) ==
  CASE CountsIndex(i) -> reg16Units(i.dst.reg)
    [] i.mn \in Searches \cup Inputs \cup Outputs -> {"zero", "sign"}
    [] i.mn = "ld" /\ i.src.kind = "special8" -> ShortFlags
    [] OTHER -> {}

(* The processor left to run for n instructions.                                   *)
RunOn(c, n) == FoldLeft(LAMBDA d, k : execute(d), c, [k \in 1..n |-> k])
ChangesOnlyWrites(after, writes) == \A u \in Units \ writes : UnitValue(after, u) = UnitValue(cpu, u)
DependsOnlyOnReads(after, reads, written, n) ==
  \A u \in Units \ reads : \A v \in OtherValues(cpu, u) :
    \E other \in {RunOn(WithUnit(cpu, u, v), n)} :
      /\ WithUnit(other, u, UnitValue(after, u)) = after
      /\ u \in written => UnitValue(other, u) = UnitValue(after, u)

(* Apart from those, an instruction changes no unit its effect does not write, and  *)
(* what it does depends on no unit its effect does not read (getZ80InstructionEffect *)
(* against execute); what goes through the stack is accounted for by pushes and pops. *)
EffectsCoverExecution ==
  LET i == source[1].ins
      e == getZ80InstructionEffect(i)
      n == IF TwoTransfers(i) THEN 2 ELSE 1
      reads == e.reads \cup UntoldReads(i) \cup (IF e.stack = "none" THEN {} ELSE StackPointer)
      writes == e.writes \cup UntoldWrites(i)
  IN (job.kind = "instruction" /\ mode = "idle" /\ steps = job.steps) =>
       \E after \in {RunOn(cpu, n)} :
         ChangesOnlyWrites(after, writes) /\ DependsOnlyOnReads(after, reads, e.writes, n)

(* Once a called routine has come back, every unit its summary does not list among  *)
(* its writes holds what it held before the call, and a routine said not to return  *)
(* has not (inferRoutineSummariesToFixedPoint against execute).                    *)
PreservedIsPreserved ==
  (job.kind = "call" /\ mode = "halted") =>
    LET s == SummaryByName["f"]
    IN (s.balanced /\ ~s.unknown) =>
         /\ ~s.noreturn
         /\ \A u \in TRACKED_UNITS \ s.mayWrite : UnitValue(cpu, u) = UnitValue(job.cpu, u)

Apart(c, d, u) == [WithUnit(c, u, UnitValue(d, u)) EXCEPT !.f = d.f] # d

(* When a call took a value the caller goes on to use, the analysis reported it:    *)
(* were the value put back, the rest of the caller would come out differently      *)
(* (findRegisterContractsConflicts against execute).                               *)
LossesAreReported ==
  LET lost == {u \in TRACKED_UNITS : UnitValue(cpu, u) # UnitValue(job.cpu, u)}
      kept(u) == WithUnit(cpu, u, UnitValue(job.cpu, u))
  IN (job.kind = "caller" /\ mode = "idle" /\ cpu.pc = known.labels["_back"] /\ steps < job.steps) =>
       \A u \in lost : Apart(RunOn(cpu, steps), RunOn(kept(u), steps), u) =>
         [routine |-> 1, index |-> 1, unit |-> u] \in findRegisterContractsConflicts
=============================================================================
