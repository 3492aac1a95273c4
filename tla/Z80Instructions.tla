---------------------------- MODULE Z80Instructions ----------------------------
(* The instructions an AZM source line can say, as the assembler's parser hands  *)
(* them to the encoder: a mnemonic and its operands.  Every operand is a record  *)
(* of one shape, so that two of them can always be compared.                     *)
EXTENDS Integers, FiniteSets

CONSTANTS Imm8, Imm16, Disp     \* the immediates, addresses and displacements written

ASSUME ImmediatesAssumption ==
  /\ Imm8 \subseteq 0..255
  /\ Imm16 \subseteq 0..65535
  /\ Disp \subseteq (-128)..127

(* A map with one entry put in, or replaced.                                     *)
Put(f, x, v) == [y \in DOMAIN f \cup {x} |-> IF y = x THEN v ELSE f[y]]

Operand(kind, reg, val) == [kind |-> kind, reg |-> reg, val |-> val]
None        == Operand("none", "", 0)
R8(r)       == Operand("reg8", r, 0)
R16(r)      == Operand("reg16", r, 0)           \* bc de hl sp, ix iy, and af for the stack
Half(r)     == Operand("half", r, 0)            \* ixh ixl iyh iyl
Special(r)  == Operand("special8", r, 0)        \* i, r
Indirect(r) == Operand("indirect", r, 0)        \* (bc) (de) (hl)
Abs(n)      == Operand("abs", "", n)            \* (nn)
Indexed(r, d) == Operand("indexed", r, d)       \* (ix+d) (iy+d)
Imm(n)      == Operand("imm", "", n)
PortC       == Operand("port", "c", 0)
PortN(n)    == Operand("port", "", n)

Ins(mn, dst, src, arg) == [mn |-> mn, dst |-> dst, src |-> src, arg |-> arg]

Bytes8  == {"a", "b", "c", "d", "e", "h", "l"}
Pairs   == {"bc", "de", "hl", "sp"}
Index   == {"ix", "iy"}
Halves  == {"ixh", "ixl", "iyh", "iyl"}
Conditions == <<   \* a relative jump takes only the first four
  "nz", "z", "nc", "c", "po", "pe", "p", "m">>
Vectors == {8 * k : k \in 0..7}

IndexOf == [ixh |-> "ix", ixl |-> "ix", iyh |-> "iy", iyl |-> "iy"]

(* One-byte and two-byte mnemonics without operands. *)
CoreMnemonics ==
  {"di", "ei", "scf", "ccf", "cpl", "daa", "exx", "halt", "rlca", "rrca", "rla", "rra", "neg",
   "rrd", "rld", "ldi", "ldir", "ldd", "lddr", "cpi", "cpir", "cpd", "cpdr", "ini", "inir",
   "ind", "indr", "outi", "otir", "outd", "otdr", "reti", "retn"}
AluMnemonics == {"add", "adc", "sub", "sbc", "and", "or", "xor", "cp"}
RotateMnemonics == {"rlc", "rrc", "rl", "rr", "sla", "sra", "sll", "sls", "srl"}

Operands8 ==
  {R8(r) : r \in Bytes8} \cup {Half(r) : r \in Halves} \cup {Special(r) : r \in {"i", "r"}}
  \cup {Indirect(r) : r \in {"bc", "de", "hl"}} \cup {Abs(n) : n \in Imm16}
  \cup {Indexed(r, d) : r \in Index, d \in Disp} \cup {Imm(n) : n \in Imm8}
Operands16 ==
  {R16(r) : r \in Pairs \cup Index} \cup {Abs(n) : n \in Imm16} \cup {Imm(n) : n \in Imm16}

(* A byte register that can be named beside a half of IX or IY: not H or L. *)
HalfCompatible(o) == o.kind = "half" \/ (o.kind = "reg8" /\ o.reg \notin {"h", "l"})

SupportedHalfLd(t, s) ==
  /\ "half" \in {t.kind, s.kind}
  /\ HalfCompatible(t) /\ HalfCompatible(s)
  /\ (t.kind = "half" /\ s.kind = "half") => IndexOf[t.reg] = IndexOf[s.reg]

(* The transfers the parser accepts for LD; every other pair is an error there.  *)
SupportedLd(t, s) ==
  \/ {t, s} \in {{Special(r), R8("a")} : r \in {"i", "r"}}
  \/ SupportedHalfLd(t, s)
  \/ t.kind = "reg8" /\ s.kind \in {"reg8", "imm", "indexed"}
  \/ t.kind = "indexed" /\ s.kind \in {"reg8", "imm"}
  \/ t.kind = "reg16" /\ s.kind = "imm"
  \/ t \in {R16("hl"), R16("bc")} /\ s = R16("de")
  \/ t = R16("sp") /\ s \in {R16("hl"), R16("ix"), R16("iy")}
  \/ (t = R8("a") \/ t.kind = "reg16") /\ s.kind = "abs"
  \/ t.kind = "abs" /\ (s = R8("a") \/ s.kind = "reg16")
  \/ t = R8("a") /\ s.kind = "indirect"
  \/ t.kind = "indirect" /\ s = R8("a")
  \/ t = Indirect("hl") /\ s.kind \in {"reg8", "imm"}
  \/ t.kind = "reg8" /\ s = Indirect("hl")

(* A word operand is an LD's only together with a word or an address, a byte     *)
(* immediate only together with a byte.                                          *)
LdInstructions ==
  {Ins("ld", p[1], p[2], 0) : p \in
     {p \in (Operands8 \X Operands8) : SupportedLd(p[1], p[2])}
     \cup {p \in (Operands16 \X Operands16) : SupportedLd(p[1], p[2])}}

IncDecOperands ==
  {R8(r) : r \in Bytes8} \cup {R16(r) : r \in Pairs \cup Index} \cup {Half(r) : r \in Halves}
  \cup {Indirect("hl")} \cup {Indexed(r, d) : r \in Index, d \in Disp}

AluSources ==
  {R8(r) : r \in Bytes8} \cup {Half(r) : r \in Halves} \cup {Indirect("hl")}
  \cup {Indexed(r, d) : r \in Index, d \in Disp} \cup {Imm(n) : n \in Imm8}

CbOperands == {R8(r) : r \in Bytes8} \cup {Indirect("hl")}
IndexedOperands == {Indexed(r, d) : r \in Index, d \in Disp}

(* BIT, RES, SET, the rotates and shifts; on (ix+d) all but BIT can also name a   *)
(* register that receives the result.                                            *)
BitInstructions ==
  {Ins(m, None, o, k) : m \in {"bit", "res", "set"}, o \in CbOperands \cup IndexedOperands, k \in 0..7}
  \cup {Ins(m, R8(r), o, k) : m \in {"res", "set"}, r \in Bytes8, o \in IndexedOperands, k \in 0..7}
RotateInstructions ==
  {Ins(m, None, o, 0) : m \in RotateMnemonics, o \in CbOperands \cup IndexedOperands}
  \cup {Ins(m, R8(r), o, 0) : m \in RotateMnemonics, r \in Bytes8, o \in IndexedOperands}

AluInstructions ==
  {Ins(m, R8("a"), s, 0) : m \in AluMnemonics, s \in AluSources}
  \cup {Ins(m, R16("hl"), R16(p), 0) : m \in {"add", "adc", "sbc"}, p \in Pairs}
  \cup {Ins("add", R16(x), R16(p), 0) : x \in Index, p \in {"bc", "de", "sp"}}
  \cup {Ins("add", R16(x), R16(x), 0) : x \in Index}

TransferInstructions ==
  LdInstructions
  \cup {Ins(m, R16(p), None, 0) : m \in {"push", "pop"}, p \in {"bc", "de", "hl", "af", "ix", "iy"}}
  \cup {Ins("ex", R16(p[1]), R16(p[2]), 0) : p \in {<<"af", "af">>, <<"de", "hl">>}}
  \cup {Ins("ex", Indirect("sp"), R16(p), 0) : p \in {"hl", "ix", "iy"}}
  \cup {Ins("in", R8(r), PortC, 0) : r \in Bytes8} \cup {Ins("in", None, PortC, 0)}
  \cup {Ins("in", R8("a"), PortN(n), 0) : n \in Imm8}
  \cup {Ins("out", PortC, R8(r), 0) : r \in Bytes8} \cup {Ins("out", PortC, Imm(0), 0)}
  \cup {Ins("out", PortN(n), R8("a"), 0) : n \in Imm8}

(* The jumps, calls and returns, to the addresses of a set; the argument is the  *)
(* condition's place in Conditions, 0 for none.                                  *)
Branches(targets) ==
  {Ins(m, None, Imm(n), k) : m \in {"jp", "call"}, n \in targets, k \in 0..8}
  \cup {Ins("jr", None, Imm(n), k) : n \in targets, k \in 0..4}
  \cup {Ins("djnz", None, Imm(n), 0) : n \in targets}
OtherControl ==
  {Ins("jp", None, R16(p), 0) : p \in {"hl", "ix", "iy"}}
  \cup {Ins("ret", None, None, k) : k \in 0..8}
  \cup {Ins("rst", None, Imm(v), 0) : v \in Vectors}

StraightInstructions ==
  {Ins(m, None, None, 0) : m \in CoreMnemonics \cup {"nop"}}
  \cup {Ins("im", None, None, k) : k \in 0..2}
  \cup {Ins(m, o, None, 0) : m \in {"inc", "dec"}, o \in IncDecOperands}
  \cup AluInstructions \cup BitInstructions \cup RotateInstructions \cup TransferInstructions

(* What the parser hands on: instructions it accepts, the operand an expression     *)
(* replaces being an immediate, an address or a displacement.                      *)
Instructions == StraightInstructions \cup OtherControl \cup Branches(Imm16)
TakesExpression(i) ==
  /\ i.src.kind \in {"imm", "abs", "indexed"}
  /\ i.mn \in {"ld", "jp", "call", "jr", "djnz"} \cup AluMnemonics \cup RotateMnemonics \cup {"bit", "res", "set"}
=============================================================================
