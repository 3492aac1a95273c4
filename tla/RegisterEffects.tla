----------------------------- MODULE RegisterEffects -----------------------------
(* What AZM's register-contract analysis believes an instruction reads and writes. *)
(* The unit of account is a byte register, a half of IX, IY or SP, or one flag; an *)
(* instruction no handler knows reads and writes every unit.                       *)
EXTENDS Z80Instructions

FlagUnits == {"sign", "zero", "halfCarry", "parity", "carry"}
ShortFlags == FlagUnits \ {"carry"}            \* what INC, DEC, BIT and IN set
StackPointer == {"sph", "spl"}
Units == Bytes8 \cup Halves \cup StackPointer \cup FlagUnits

reg16Units(r) ==
  CASE r = "bc" -> {"b", "c"}     [] r = "de" -> {"d", "e"}     [] r = "hl" -> {"h", "l"}
    [] r = "ix" -> {"ixh", "ixl"} [] r = "iy" -> {"iyh", "iyl"} [] r = "sp" -> StackPointer
    [] r = "af" -> {"a"} \cup FlagUnits
operandReads(o) ==
  CASE o.kind \in {"reg8", "half"} -> {o.reg}
    [] o.kind \in {"reg16", "indirect", "indexed"} -> reg16Units(o.reg)
    [] OTHER -> {}

(* Only a register can be written to; what an operand in memory loses is not told. *)
IsRegister(o) == o.kind \in {"reg8", "half", "reg16"}
operandWrites(o) == operandReads(o)

Effect(reads, writes, stack, control, conditional) ==
  [reads |-> reads, writes |-> writes, stack |-> stack, control |-> control, conditional |-> conditional]
Plain(reads, writes) == Effect(reads, writes, "none", "fallthrough", FALSE)
baseEffect == Plain({}, {})
unknownEffect == Effect(Units, Units, "unknown", "unknown", FALSE)
controlEffect(control, conditional, reads) == Effect(reads, {}, "none", control, conditional)
stackControlEffect(control, conditional, reads) ==
  Effect(reads, StackPointer, "unknown", control, conditional)

conditionFlagRead(k) ==
  CASE k = 0 -> {}  [] k \in {1, 2} -> {"zero"}  [] k \in {3, 4} -> {"carry"}
    [] k \in {5, 6} -> {"parity"}  [] k \in {7, 8} -> {"sign"}

ldEffect(t, s) ==
  CASE IsRegister(t) -> Plain(operandReads(s), operandWrites(t))
    [] t.kind \in {"indirect", "indexed"} -> Plain(operandReads(t) \cup operandReads(s), {})
    [] t.kind = "abs" -> Plain(operandReads(s), {})
    [] OTHER -> unknownEffect

(* A pair that is an index register is taken for an operand in memory.            *)
incDecEffect(o) ==
  CASE o.kind \in {"reg8", "half"} -> Plain({o.reg}, {o.reg} \cup ShortFlags)
    [] o.kind = "reg16" /\ o.reg \notin Index -> Plain(reg16Units(o.reg), reg16Units(o.reg))
    [] OTHER -> Plain(operandReads(o), ShortFlags)

wideAluEffect(i, extraReads, flags) ==
  Plain(operandReads(i.dst) \cup operandReads(i.src) \cup extraReads, operandWrites(i.dst) \cup flags)
aluEffect(i) ==
  LET reads == IF i.mn = "xor" /\ i.src = R8("a") THEN {} ELSE {"a"} \cup operandReads(i.src)
      carryReads == IF i.mn \in {"adc", "sbc"} THEN {"carry"} ELSE {}
  IN CASE i.mn = "add" /\ i.dst.kind = "reg16" -> wideAluEffect(i, {}, {"halfCarry", "carry"})
       [] i.dst.kind = "reg16" -> wideAluEffect(i, {"carry"}, FlagUnits)
       [] i.mn = "cp" -> Plain(reads, FlagUnits)
       [] OTHER -> Plain(reads \cup carryReads, {"a"} \cup FlagUnits)

pushEffect(r) == Effect(reg16Units(r), StackPointer, "push", "fallthrough", FALSE)
popEffect(r) == Effect({}, reg16Units(r) \cup StackPointer, "pop", "fallthrough", FALSE)

rotateShiftEffect(o) ==
  IF IsRegister(o) THEN Plain(operandReads(o), operandWrites(o) \cup FlagUnits) ELSE unknownEffect
bitEffect(mn, o) ==
  CASE mn = "bit" -> Plain(operandReads(o), ShortFlags)
    [] IsRegister(o) -> Plain(operandReads(o), operandWrites(o))
    [] OTHER -> unknownEffect

inEffect(i) ==
  LET written == IF i.dst = None THEN {} ELSE {i.dst.reg}
  IN IF i.src # PortC THEN Plain({"a"}, written) ELSE Plain({"c"}, written \cup ShortFlags)
outEffect(i) ==
  LET value == IF i.src.kind = "reg8" THEN {i.src.reg} ELSE {}
  IN IF i.dst = PortC THEN Plain({"c"} \cup value, {}) ELSE Plain(value, {})

Counters == {"h", "l", "d", "e", "b", "c"}
blockTransferEffect == Plain(Counters, Counters \cup {"halfCarry", "parity"})
exEffect(i) == IF i.dst = R16("de") THEN Plain({"d", "e", "h", "l"}, {"d", "e", "h", "l"}) ELSE unknownEffect
(* Mutant: RLA and RRA are not told apart from RLCA and RRCA.                      *)
accumulatorRotateNoCarry(mn) == Plain({"a"}, {"a", "carry", "halfCarry"})
accumulatorRotateEffect(mn) ==
  Plain(IF mn \in {"rla", "rra"} THEN {"a", "carry"} ELSE {"a"}, {"a", "carry", "halfCarry"})

BlockMnemonics ==
  {"ldi", "ldir", "ldd", "lddr", "cpi", "cpir", "cpd", "cpdr",
   "ini", "inir", "ind", "indr", "outi", "otir", "outd", "otdr"}

controlFlowEffect(i) ==
  CASE i.mn = "call" -> stackControlEffect("call", i.arg > 0, conditionFlagRead(i.arg))
    [] i.mn = "rst" -> stackControlEffect("rst", FALSE, {})
    [] i.mn = "ret" -> stackControlEffect("return", i.arg > 0, conditionFlagRead(i.arg))
    [] i.mn \in {"reti", "retn"} -> stackControlEffect("return", FALSE, {})
    [] i.mn = "jp" /\ i.src.kind = "reg16" -> controlEffect("jump", FALSE, reg16Units(i.src.reg))
    [] i.mn \in {"jp", "jr"} -> controlEffect("jump", i.arg > 0, conditionFlagRead(i.arg))
    [] i.mn = "djnz" -> Effect({"b"}, {"b"}, "none", "jump", TRUE)

getZ80InstructionEffect(i) ==
  CASE i.mn = "ld" -> ldEffect(i.dst, i.src)
    [] i.mn \in {"inc", "dec"} -> incDecEffect(i.dst)
    [] i.mn = "push" -> pushEffect(i.dst.reg)
    [] i.mn = "pop" -> popEffect(i.dst.reg)
    [] i.mn \in {"call", "rst", "ret", "reti", "retn", "jp", "jr", "djnz"} -> controlFlowEffect(i)
    [] i.mn \in {"nop", "halt", "di", "ei", "im"} -> baseEffect
    [] i.mn \in AluMnemonics -> aluEffect(i)
    [] i.mn \in RotateMnemonics -> rotateShiftEffect(i.src)
    [] i.mn \in {"rlca", "rrca", "rla", "rra"} -> accumulatorRotateEffect(i.mn)
    [] i.mn \in {"bit", "res", "set"} -> bitEffect(i.mn, i.src)
    [] i.mn \in BlockMnemonics -> blockTransferEffect
    [] i.mn = "scf" -> Plain({}, {"carry", "halfCarry"})
    [] i.mn = "ccf" -> Plain({"carry"}, {"carry", "halfCarry"})
    [] i.mn = "cpl" -> Plain({"a"}, {"a", "halfCarry"})
    [] i.mn = "neg" -> Plain({"a"}, {"a"} \cup FlagUnits)
    [] i.mn = "in" -> inEffect(i)
    [] i.mn = "out" -> outEffect(i)
    [] i.mn = "ex" -> exEffect(i)
    [] OTHER -> unknownEffect
=============================================================================
