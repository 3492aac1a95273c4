------------------------------ MODULE Z80Decoder ------------------------------
(* Which handler the emulator runs for the bytes at PC: the primary opcode table, *)
(* and the CB, DD, ED, FD and DDCB tables behind the prefixes.  A handler is       *)
(* named by the instruction it carries out; branch targets are absolute.  The      *)
(* slots of the ED and DD tables that no handler fills run noop.                   *)
EXTENDS Z80Instructions, Sequences

Decoded(ins, len) == [ins |-> ins, len |-> len]
Nop == Ins("nop", None, None, 0)
Bare(mn) == Ins(mn, None, None, 0)
Signed(b) == IF b >= 128 THEN b - 256 ELSE b
Word(lo, hi) == lo + 256 * hi

(* Bits 0-2 (or 3-5) of an opcode name a byte operand.                           *)
RegisterOrder == <<"b", "c", "d", "e", "h", "l", "(hl)", "a">>
ByteOperand(n) == IF n = 6 THEN Indirect("hl") ELSE R8(RegisterOrder[n + 1])
PairOrder == <<"bc", "de", "hl", "sp">>
AluOrder == <<"add", "adc", "sub", "sbc", "and", "xor", "or", "cp">>
RotateOrder == <<"rlc", "rrc", "rl", "rr", "sla", "sra", "sll", "srl">>
Column(op) == op % 8
Row(op) == (op \div 8) % 8
PairOf(op) == PairOrder[((op \div 16) % 4) + 1]

(* m is the memory the handlers read through; an address it does not list holds 0. *)
Byte == 0..255
Addresses == 0..65535
At(m, a) == IF a % 65536 \in DOMAIN m THEN m[a % 65536] ELSE 0
WordAt(m, a) == Word(At(m, a), At(m, a + 1))
Target(m, pc) == Imm((pc + 2 + Signed(At(m, pc + 1))) % 65536)

(* 0x00-0x3F: loads, exchanges, rotates of A, relative jumps.                    *)
LowPrimary(m, pc, op) ==
  LET p == R16(PairOf(op))
      r == ByteOperand(Row(op))
      oddRow == Row(op) % 2 = 1
      rotates == <<"rlca", "rrca", "rla", "rra", "daa", "cpl", "scf", "ccf">>
  IN IF op = 0 THEN Decoded(Nop, 1)
     ELSE IF op = 8 THEN Decoded(Ins("ex", R16("af"), R16("af"), 0), 1)
     ELSE IF op = 16 THEN Decoded(Ins("djnz", None, Target(m, pc), 0), 2)
     ELSE IF op = 24 THEN Decoded(Ins("jr", None, Target(m, pc), 0), 2)
     ELSE IF Column(op) = 0 /\ op >= 32 THEN Decoded(Ins("jr", None, Target(m, pc), Row(op) - 3), 2)
     ELSE IF Column(op) = 1 /\ ~oddRow THEN Decoded(Ins("ld", p, Imm(WordAt(m, pc + 1)), 0), 3)
     ELSE IF Column(op) = 1 THEN Decoded(Ins("add", R16("hl"), p, 0), 1)
     ELSE IF op \in {2, 18} THEN Decoded(Ins("ld", Indirect(p.reg), R8("a"), 0), 1)
     ELSE IF op \in {10, 26} THEN Decoded(Ins("ld", R8("a"), Indirect(p.reg), 0), 1)
     ELSE IF op = 34 THEN Decoded(Ins("ld", Abs(WordAt(m, pc + 1)), R16("hl"), 0), 3)
     ELSE IF op = 42 THEN Decoded(Ins("ld", R16("hl"), Abs(WordAt(m, pc + 1)), 0), 3)
     ELSE IF op = 50 THEN Decoded(Ins("ld", Abs(WordAt(m, pc + 1)), R8("a"), 0), 3)
     ELSE IF op = 58 THEN Decoded(Ins("ld", R8("a"), Abs(WordAt(m, pc + 1)), 0), 3)
     ELSE IF Column(op) = 3 THEN Decoded(Ins(IF oddRow THEN "dec" ELSE "inc", p, None, 0), 1)
     ELSE IF Column(op) = 4 THEN Decoded(Ins("inc", r, None, 0), 1)
     ELSE IF Column(op) = 5 THEN Decoded(Ins("dec", r, None, 0), 1)
     ELSE IF Column(op) = 6 THEN Decoded(Ins("ld", r, Imm(At(m, pc + 1)), 0), 2)
     ELSE Decoded(Bare(rotates[Row(op) + 1]), 1)

(* 0x40-0xBF: the register-to-register matrix and the ALU matrix.                *)
MatrixPrimary(op) ==
  IF op = 118 THEN Decoded(Bare("halt"), 1)
  ELSE IF op < 128 THEN Decoded(Ins("ld", ByteOperand(Row(op)), ByteOperand(Column(op)), 0), 1)
  ELSE Decoded(Ins(AluOrder[Row(op) + 1], R8("a"), ByteOperand(Column(op)), 0), 1)

(* 0xC0-0xFF: control flow, stack, immediates.                                   *)
HighPrimary(m, pc, op) ==
  LET stacked == R16(<<"bc", "de", "hl", "af">>[((op \div 16) % 4) + 1])
      nn == Imm(WordAt(m, pc + 1))
      n == At(m, pc + 1)
      cc == Row(op) + 1
  IN IF Column(op) = 0 THEN Decoded(Ins("ret", None, None, cc), 1)
     ELSE IF op = 201 THEN Decoded(Bare("ret"), 1)
     ELSE IF op = 217 THEN Decoded(Bare("exx"), 1)
     ELSE IF op = 233 THEN Decoded(Ins("jp", None, R16("hl"), 0), 1)
     ELSE IF op = 249 THEN Decoded(Ins("ld", R16("sp"), R16("hl"), 0), 1)
     ELSE IF Column(op) = 1 THEN Decoded(Ins("pop", stacked, None, 0), 1)
     ELSE IF Column(op) = 2 THEN Decoded(Ins("jp", None, nn, cc), 3)
     ELSE IF op = 195 THEN Decoded(Ins("jp", None, nn, 0), 3)
     ELSE IF op = 211 THEN Decoded(Ins("out", PortN(n), R8("a"), 0), 2)
     ELSE IF op = 219 THEN Decoded(Ins("in", R8("a"), PortN(n), 0), 2)
     ELSE IF op = 227 THEN Decoded(Ins("ex", Indirect("sp"), R16("hl"), 0), 1)
     ELSE IF op = 235 THEN Decoded(Ins("ex", R16("de"), R16("hl"), 0), 1)
     ELSE IF op = 243 THEN Decoded(Bare("di"), 1)
     ELSE IF op = 251 THEN Decoded(Bare("ei"), 1)
     ELSE IF Column(op) = 4 THEN Decoded(Ins("call", None, nn, cc), 3)
     ELSE IF op = 205 THEN Decoded(Ins("call", None, nn, 0), 3)
     ELSE IF Column(op) = 5 THEN Decoded(Ins("push", stacked, None, 0), 1)
     ELSE IF Column(op) = 6 THEN Decoded(Ins(AluOrder[Row(op) + 1], R8("a"), Imm(n), 0), 2)
     ELSE Decoded(Ins("rst", None, Imm(8 * Row(op)), 0), 1)

(* The CB table on an operand, and the DDCB table on a displaced one, which also  *)
(* puts the result in the register the opcode names.                             *)
CbInstruction(op, o, dst) ==
  IF op < 64 THEN Ins(RotateOrder[Row(op) + 1], dst, o, 0)
  ELSE IF op < 128 THEN Ins("bit", None, o, Row(op))
  ELSE IF op < 192 THEN Ins("res", dst, o, Row(op))
  ELSE Ins("set", dst, o, Row(op))
CbTable(m, pc) == Decoded(CbInstruction(At(m, pc + 1), ByteOperand(Column(At(m, pc + 1))), None), 2)
DdcbTable(m, pc, x) ==
  LET op == At(m, pc + 3)
      o == Indexed(x, Signed(At(m, pc + 2)))
  IN Decoded(CbInstruction(op, o, IF Column(op) = 6 THEN None ELSE ByteOperand(Column(op))), 4)

(* The ED table.                                                                 *)
EdBlock(op) ==
  LET names == <<<<"ldi", "cpi", "ini", "outi">>, <<"ldd", "cpd", "ind", "outd">>,
                 <<"ldir", "cpir", "inir", "otir">>, <<"lddr", "cpdr", "indr", "otdr">>>>
  IN Bare(names[Row(op) - 3][Column(op) + 1])
EdPort(op) ==
  LET r == IF Row(op) = 6 THEN None ELSE ByteOperand(Row(op))
  IN IF Column(op) = 0 THEN Ins("in", r, PortC, 0) ELSE Ins("out", PortC, IF r = None THEN Imm(0) ELSE r, 0)
EdTable(m, pc) ==
  LET op == At(m, pc + 1)
      p == R16(PairOf(op))
      nn == Abs(WordAt(m, pc + 2))
      oddRow == Row(op) % 2 = 1
      modes == <<0, 0, 1, 2, 0, 0, 1, 2>>
      specials == <<Ins("ld", Special("i"), R8("a"), 0), Ins("ld", Special("r"), R8("a"), 0),
                    Ins("ld", R8("a"), Special("i"), 0), Ins("ld", R8("a"), Special("r"), 0),
                    Bare("rrd"), Bare("rld")>>
  IN IF op >= 64 /\ op < 128 /\ Column(op) \in {0, 1} THEN Decoded(EdPort(op), 2)
     ELSE IF op >= 64 /\ op < 128 /\ Column(op) = 2 THEN
            Decoded(Ins(IF oddRow THEN "adc" ELSE "sbc", R16("hl"), p, 0), 2)
     ELSE IF op >= 64 /\ op < 128 /\ Column(op) = 3 THEN
            Decoded(IF oddRow THEN Ins("ld", p, nn, 0) ELSE Ins("ld", nn, p, 0), 4)
     ELSE IF op >= 64 /\ op < 128 /\ Column(op) = 4 THEN Decoded(Bare("neg"), 2)
     ELSE IF op = 77 THEN Decoded(Bare("reti"), 2)
     ELSE IF op >= 64 /\ op < 128 /\ Column(op) = 5 THEN Decoded(Bare("retn"), 2)
     ELSE IF op >= 64 /\ op < 128 /\ Column(op) = 6 THEN Decoded(Ins("im", None, None, modes[Row(op) + 1]), 2)
     ELSE IF op >= 64 /\ op < 112 /\ Column(op) = 7 THEN Decoded(specials[Row(op) + 1], 2)
     ELSE IF op >= 160 /\ op < 192 /\ Column(op) < 4 THEN Decoded(EdBlock(op), 2)
     ELSE Decoded(Nop, 2)

(* The DD table for x = ix.  The FD handler swaps the two index registers around  *)
(* a call of the same table, which is the table for x = iy.                      *)
HalfOperand(n, x) ==
  IF n = 4 THEN Half(IF x = "ix" THEN "ixh" ELSE "iyh")
  ELSE IF n = 5 THEN Half(IF x = "ix" THEN "ixl" ELSE "iyl")
  ELSE ByteOperand(n)
DdLow(m, pc, op, x) ==
  LET h == HalfOperand(Row(op), x)
      xd == Indexed(x, Signed(At(m, pc + 2)))
      nn == WordAt(m, pc + 2)
      p == PairOf(op)
  IN IF op \in {9, 25, 41, 57} THEN Decoded(Ins("add", R16(x), R16(IF p = "hl" THEN x ELSE p), 0), 2)
     ELSE IF op = 33 THEN Decoded(Ins("ld", R16(x), Imm(nn), 0), 4)
     ELSE IF op = 34 THEN Decoded(Ins("ld", Abs(nn), R16(x), 0), 4)
     ELSE IF op = 42 THEN Decoded(Ins("ld", R16(x), Abs(nn), 0), 4)
     ELSE IF op \in {35, 43} THEN Decoded(Ins(IF op = 35 THEN "inc" ELSE "dec", R16(x), None, 0), 2)
     ELSE IF op \in {36, 44} THEN Decoded(Ins("inc", h, None, 0), 2)
     ELSE IF op \in {37, 45} THEN Decoded(Ins("dec", h, None, 0), 2)
     ELSE IF op \in {38, 46} THEN Decoded(Ins("ld", h, Imm(At(m, pc + 2)), 0), 3)
     ELSE IF op = 52 THEN Decoded(Ins("inc", xd, None, 0), 3)
     ELSE IF op = 53 THEN Decoded(Ins("dec", xd, None, 0), 3)
     ELSE IF op = 54 THEN Decoded(Ins("ld", xd, Imm(At(m, pc + 3)), 0), 4)
     ELSE Decoded(Nop, 2)
DdMatrix(m, pc, op, x) ==
  LET d == Row(op)  s == Column(op)
      xd == Indexed(x, Signed(At(m, pc + 2)))
  IN IF op = 118 THEN Decoded(Nop, 2)
     ELSE IF op < 128 /\ s = 6 THEN Decoded(Ins("ld", ByteOperand(d), xd, 0), 3)
     ELSE IF op < 128 /\ d = 6 THEN Decoded(Ins("ld", xd, ByteOperand(s), 0), 3)
     ELSE IF op < 128 /\ (d \in {4, 5} \/ s \in {4, 5}) THEN
            Decoded(Ins("ld", HalfOperand(d, x), HalfOperand(s, x), 0), 2)
     ELSE IF op >= 128 /\ s = 6 THEN Decoded(Ins(AluOrder[d + 1], R8("a"), xd, 0), 3)
     ELSE IF op >= 128 /\ s \in {4, 5} THEN Decoded(Ins(AluOrder[d + 1], R8("a"), HalfOperand(s, x), 0), 2)
     ELSE Decoded(Nop, 2)
DdHigh(m, pc, op, x) ==
  IF op = 203 THEN DdcbTable(m, pc, x)
  ELSE IF op = 225 THEN Decoded(Ins("pop", R16(x), None, 0), 2)
  ELSE IF op = 227 THEN Decoded(Ins("ex", Indirect("sp"), R16(x), 0), 2)
  ELSE IF op = 229 THEN Decoded(Ins("push", R16(x), None, 0), 2)
  ELSE IF op = 233 THEN Decoded(Ins("jp", None, R16(x), 0), 2)
  ELSE IF op = 249 THEN Decoded(Ins("ld", R16("sp"), R16(x), 0), 2)
  ELSE Decoded(Nop, 2)
DdTable(m, pc, x) ==
  LET op == At(m, pc + 1)
  IN IF op < 64 THEN DdLow(m, pc, op, x)
     ELSE IF op < 192 THEN DdMatrix(m, pc, op, x)
     ELSE DdHigh(m, pc, op, x)

decodeInstruction(m, pc) ==
  LET op == At(m, pc)
  IN IF op = 203 THEN CbTable(m, pc)
     ELSE IF op = 221 THEN DdTable(m, pc, "ix")
     ELSE IF op = 237 THEN EdTable(m, pc)
     ELSE IF op = 253 THEN DdTable(m, pc, "iy")
     ELSE IF op < 64 THEN LowPrimary(m, pc, op)
     ELSE IF op < 192 THEN MatrixPrimary(op)
     ELSE HighPrimary(m, pc, op)

(* What the processor must find where an instruction was written: the synonym's    *)
(* other name, and values as many bits wide as the encoding holds.                 *)
Narrowed(i, o) ==
  IF o.kind = "imm" /\ i.dst.kind # "reg16" /\ i.mn \notin {"jp", "call", "jr", "djnz"} THEN [o EXCEPT !.val = @ % 256]
  ELSE IF o.kind \in {"imm", "abs"} THEN [o EXCEPT !.val = @ % 65536]
  ELSE IF o.kind = "port" THEN [o EXCEPT !.val = @ % 256]
  ELSE o
AsDecoded(i) ==
  [i EXCEPT !.mn = IF @ = "sls" THEN "sll" ELSE @, !.src = Narrowed(i, @), !.dst = Narrowed(i, @)]
TwoTransfers(i) == i.mn = "ld" /\ i.src = R16("de") /\ i.dst \in {R16("hl"), R16("bc")}
=============================================================================
