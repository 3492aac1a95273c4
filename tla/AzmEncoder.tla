------------------------------ MODULE AzmEncoder ------------------------------
(* AZM's instruction encoder and the emission of what it returns.  An encoding is *)
(* a size, which the address planner adds up before any byte exists, and a list   *)
(* of fragments, which the emitter later turns into bytes: the two are written    *)
(* separately for every form.                                                     *)
EXTENDS Z80Instructions, Sequences, SequencesExt

(* ------------------------------ the fragments ------------------------------- *)
Fragment(kind, val) == [kind |-> kind, val |-> val]
Op(b)  == Fragment("byte", b)
I8(n)  == Fragment("imm8", n)
D8(n)  == Fragment("disp8", n)
A16(n) == Fragment("abs16", n)
Rel(n) == Fragment("rel8", n)
Encoding(size, fragments) == [size |-> size, fragments |-> fragments]
Unencodable == Encoding(0, <<>>)

(* ------------------------------ register codes ------------------------------ *)
register8Code == [b |-> 0, c |-> 1, d |-> 2, e |-> 3, h |-> 4, l |-> 5, a |-> 7]
register16Code == [bc |-> 0, de |-> 1, hl |-> 2, sp |-> 3]
halfIndexRegisterCode == [ixh |-> 4, ixl |-> 5, iyh |-> 4, iyl |-> 5]
indexPrefix == [ix |-> 221, iy |-> 253]
byteRegisterCode(o) == IF o.kind = "half" THEN halfIndexRegisterCode[o.reg] ELSE register8Code[o.reg]
HalfOf(t, s) == IF t.kind = "half" THEN t.reg ELSE s.reg
halfIndexPrefix(t, s) == indexPrefix[IndexOf[HalfOf(t, s)]]
IsIndex(o) == o.kind = "reg16" /\ o.reg \in Index

(* ---------------------------------- LD -------------------------------------- *)
legacyReg16ByteTransfer(t) == Encoding(2, IF t.reg = "hl" THEN <<Op(98), Op(107)>> ELSE <<Op(66), Op(75)>>)
specialRegisterLd(t, s) ==
  Encoding(2, <<Op(237), Op(IF t.kind = "special8" THEN (IF t.reg = "i" THEN 71 ELSE 79)
                                                 ELSE (IF s.reg = "i" THEN 87 ELSE 95))>>)

encodeByteLd(t, s) ==
  IF t.kind = "reg8" /\ s.kind = "imm" THEN Encoding(2, <<Op(6 + register8Code[t.reg] * 8), I8(s.val)>>)
  ELSE IF t.kind = "reg8" /\ s.kind = "reg8" THEN
         Encoding(1, <<Op(64 + register8Code[t.reg] * 8 + register8Code[s.reg])>>)
  ELSE IF t = R8("a") /\ s.kind = "abs" THEN Encoding(3, <<Op(58), A16(s.val)>>)
  ELSE IF t.kind = "abs" /\ s = R8("a") THEN Encoding(3, <<Op(50), A16(t.val)>>)
  ELSE IF SupportedHalfLd(t, s) THEN
         Encoding(2, <<Op(halfIndexPrefix(t, s)), Op(64 + byteRegisterCode(t) * 8 + byteRegisterCode(s))>>)
  ELSE Unencodable

encodeWordLd(t, s) ==
  IF IsIndex(t) /\ s.kind = "imm" THEN Encoding(4, <<Op(indexPrefix[t.reg]), Op(33), A16(s.val)>>)
  ELSE IF t.kind = "reg16" /\ s.kind = "imm" THEN Encoding(3, <<Op(1 + register16Code[t.reg] * 16), A16(s.val)>>)
  ELSE IF t = R16("sp") /\ s = R16("hl") THEN Encoding(1, <<Op(249)>>)
  ELSE IF t = R16("sp") /\ IsIndex(s) THEN Encoding(2, <<Op(indexPrefix[s.reg]), Op(249)>>)
  ELSE IF t = R16("hl") /\ s.kind = "abs" THEN Encoding(3, <<Op(42), A16(s.val)>>)
  ELSE IF IsIndex(t) /\ s.kind = "abs" THEN Encoding(4, <<Op(indexPrefix[t.reg]), Op(42), A16(s.val)>>)
  ELSE IF t.kind = "reg16" /\ s.kind = "abs" THEN
         Encoding(4, <<Op(237), Op(75 + register16Code[t.reg] * 16), A16(s.val)>>)
  ELSE IF t.kind = "abs" /\ s = R16("hl") THEN Encoding(3, <<Op(34), A16(t.val)>>)
  ELSE IF t.kind = "abs" /\ IsIndex(s) THEN Encoding(4, <<Op(indexPrefix[s.reg]), Op(34), A16(t.val)>>)
  ELSE IF t.kind = "abs" /\ s.kind = "reg16" THEN
         Encoding(4, <<Op(237), Op(67 + register16Code[s.reg] * 16), A16(t.val)>>)
  ELSE Unencodable

loadAFromIndirectOpcode == [bc |-> 10, de |-> 26, hl |-> 126]
storeAToIndirectOpcode == [bc |-> 2, de |-> 18, hl |-> 119]
encodeAccumulatorIndirectLd(t, s) ==
  IF t = R8("a") /\ s.kind = "indirect" THEN Encoding(1, <<Op(loadAFromIndirectOpcode[s.reg])>>)
  ELSE IF t.kind = "indirect" /\ s = R8("a") THEN Encoding(1, <<Op(storeAToIndirectOpcode[t.reg])>>)
  ELSE Unencodable

encodeHlIndirectLd(t, s) ==
  IF t = Indirect("hl") /\ s.kind = "reg8" THEN Encoding(1, <<Op(112 + register8Code[s.reg])>>)
  ELSE IF t = Indirect("hl") /\ s.kind = "imm" THEN Encoding(2, <<Op(54), I8(s.val)>>)
  ELSE IF t.kind = "reg8" /\ s = Indirect("hl") THEN Encoding(1, <<Op(70 + register8Code[t.reg] * 8)>>)
  ELSE Unencodable

encodeIndexedLd(t, s) ==
  IF t.kind = "reg8" /\ s.kind = "indexed" THEN
         Encoding(3, <<Op(indexPrefix[s.reg]), Op(70 + register8Code[t.reg] * 8), D8(s.val)>>)
  ELSE IF t.kind = "indexed" /\ s.kind = "reg8" THEN
         Encoding(3, <<Op(indexPrefix[t.reg]), Op(112 + register8Code[s.reg]), D8(t.val)>>)
  ELSE IF t.kind = "indexed" /\ s.kind = "imm" THEN
         Encoding(4, <<Op(indexPrefix[t.reg]), Op(54), D8(t.val), I8(s.val)>>)
  ELSE Unencodable

(* The first encoder that accepts the pair wins.                                 *)
OrElse(e, other) == IF e.size > 0 THEN e ELSE other
encodeLd(t, s) ==
  IF t.kind = "reg16" /\ s = R16("de") THEN legacyReg16ByteTransfer(t)
  ELSE IF "special8" \in {t.kind, s.kind} THEN specialRegisterLd(t, s)
  ELSE OrElse(encodeByteLd(t, s),
         OrElse(encodeWordLd(t, s),
           OrElse(encodeAccumulatorIndirectLd(t, s),
             OrElse(encodeHlIndirectLd(t, s), encodeIndexedLd(t, s)))))

(* --------------------------- increments and stack --------------------------- *)
incDecBase(mn) == IF mn = "inc" THEN 4 ELSE 5
encodeIncDec(mn, o) ==
  LET base == incDecBase(mn)
      base16 == IF mn = "inc" THEN 3 ELSE 11
  IN IF o.kind = "reg8" THEN Encoding(1, <<Op(base + register8Code[o.reg] * 8)>>)
     ELSE IF IsIndex(o) THEN Encoding(2, <<Op(indexPrefix[o.reg]), Op(base16 + 32)>>)
     ELSE IF o.kind = "reg16" THEN Encoding(1, <<Op(base16 + register16Code[o.reg] * 16)>>)
     ELSE IF o.kind = "half" THEN
            Encoding(2, <<Op(indexPrefix[IndexOf[o.reg]]), Op(base + halfIndexRegisterCode[o.reg] * 8)>>)
     ELSE IF o.kind = "indexed" THEN Encoding(3, <<Op(indexPrefix[o.reg]), Op(base + 48), D8(o.val)>>)
     ELSE Encoding(1, <<Op(base + 48)>>)

encodeStack(mn, r) ==
  LET base == IF mn = "push" THEN 197 ELSE 193
      code == [bc |-> 0, de |-> 16, hl |-> 32, af |-> 48]
  IN IF r \in Index THEN Encoding(2, <<Op(indexPrefix[r]), Op(base + 32)>>)
                    ELSE Encoding(1, <<Op(base + code[r])>>)

encodeExchange(t, s) ==
  IF s = R16("af") THEN Encoding(1, <<Op(8)>>)
  ELSE IF t = R16("de") THEN Encoding(1, <<Op(235)>>)
  ELSE IF IsIndex(s) THEN Encoding(2, <<Op(indexPrefix[s.reg]), Op(227)>>)
  ELSE Encoding(1, <<Op(227)>>)

(* ------------------------------- input, output ------------------------------ *)
encodeIn(t, port) ==
  IF port = PortC
  THEN Encoding(2, <<Op(237), Op(IF t = None THEN 112 ELSE 64 + register8Code[t.reg] * 8)>>)
  ELSE Encoding(2, <<Op(219), I8(port.val)>>)
encodeOut(port, s) ==
  IF port = PortC
  THEN Encoding(2, <<Op(237), Op(IF s.kind = "imm" THEN 113 ELSE 65 + register8Code[s.reg] * 8)>>)
  ELSE Encoding(2, <<Op(211), I8(port.val)>>)

(* --------------------------- bits, rotates, shifts -------------------------- *)
rotateShiftOpcodeBase == [rlc |-> 0, rrc |-> 8, rl |-> 16, rr |-> 24, sla |-> 32, sra |-> 40,
                          sll |-> 48, sls |-> 48, srl |-> 56]
bitLikeOpcodeBase == [bit |-> 64, res |-> 128, set |-> 192]
cbOperandCode(t, o) ==
  IF t # None THEN register8Code[t.reg] ELSE IF o.kind = "reg8" THEN register8Code[o.reg] ELSE 6
cbInstruction(o, opcode) ==
  IF o.kind = "indexed"
  THEN Encoding(4, <<Op(indexPrefix[o.reg]), Op(203), D8(o.val), Op(opcode)>>)
  ELSE Encoding(2, <<Op(203), Op(opcode)>>)
encodeBitLike(i) == cbInstruction(i.src, bitLikeOpcodeBase[i.mn] + i.arg * 8 + cbOperandCode(i.dst, i.src))
encodeRotateShift(i) == cbInstruction(i.src, rotateShiftOpcodeBase[i.mn] + cbOperandCode(i.dst, i.src))

(* -------------------------------- arithmetic -------------------------------- *)
aluRegisterBase == [add |-> 128, adc |-> 136, sub |-> 144, sbc |-> 152,
                    and |-> 160, xor |-> 168, or |-> 176, cp |-> 184]
encodeAlu(mn, s) ==
  LET base == aluRegisterBase[mn]
  IN CASE s.kind = "reg8" -> Encoding(1, <<Op(base + register8Code[s.reg])>>)
       [] s.kind = "half" ->
            Encoding(2, <<Op(indexPrefix[IndexOf[s.reg]]), Op(base + halfIndexRegisterCode[s.reg])>>)
       [] s.kind = "indirect" -> Encoding(1, <<Op(base + 6)>>)
       [] s.kind = "indexed" -> Encoding(3, <<Op(indexPrefix[s.reg]), Op(base + 6), D8(s.val)>>)
       [] s.kind = "imm" -> Encoding(2, <<Op(base + 70), I8(s.val)>>)

indexedAddOpcode(t, s) ==
  <<Op(indexPrefix[t]), Op(CASE s = "bc" -> 9 [] s = "de" -> 25 [] s = "sp" -> 57 [] s = t -> 41)>>
encode16BitAlu(mn, t, s) ==
  IF t \in Index THEN Encoding(2, indexedAddOpcode(t, s))
  ELSE IF mn = "add" THEN Encoding(1, <<Op(9 + register16Code[s] * 16)>>)
  ELSE IF mn = "adc" THEN Encoding(2, <<Op(237), Op(74 + register16Code[s] * 16)>>)
  ELSE Encoding(2, <<Op(237), Op(66 + register16Code[s] * 16)>>)

(* --------------------------------- control ---------------------------------- *)
(* Mutant: the conditions start one row too late.                                 *)
jumpOpcodeShifted(unconditional, base, cc) == IF cc = 0 THEN unconditional ELSE base + cc * 8
(* The unconditional opcode, or the conditional one for a condition's place.     *)
jumpOpcode(unconditional, base, cc) == IF cc = 0 THEN unconditional ELSE base + (cc - 1) * 8
encodeBranch(i) ==
  IF i.mn = "jp" /\ i.src.kind = "reg16" THEN
         IF IsIndex(i.src) THEN Encoding(2, <<Op(indexPrefix[i.src.reg]), Op(233)>>) ELSE Encoding(1, <<Op(233)>>)
  ELSE IF i.mn = "jp" THEN Encoding(3, <<Op(jumpOpcode(195, 194, i.arg)), A16(i.src.val)>>)
  ELSE IF i.mn = "call" THEN Encoding(3, <<Op(jumpOpcode(205, 196, i.arg)), A16(i.src.val)>>)
  ELSE IF i.mn = "jr" THEN Encoding(2, <<Op(jumpOpcode(24, 32, i.arg)), Rel(i.src.val)>>)
  ELSE IF i.mn = "djnz" THEN Encoding(2, <<Op(16), Rel(i.src.val)>>)
  ELSE IF i.mn = "ret" THEN Encoding(1, <<Op(jumpOpcode(201, 192, i.arg))>>)
  ELSE Encoding(1, <<Op(199 + i.src.val)>>)

CORE_OPCODES ==
  [nop |-> <<0>>, di |-> <<243>>, ei |-> <<251>>, scf |-> <<55>>, ccf |-> <<63>>, cpl |-> <<47>>,
   daa |-> <<39>>, exx |-> <<217>>, halt |-> <<118>>, rlca |-> <<7>>, rrca |-> <<15>>,
   rla |-> <<23>>, rra |-> <<31>>, neg |-> <<237, 68>>, rrd |-> <<237, 103>>, rld |-> <<237, 111>>,
   ldi |-> <<237, 160>>, ldir |-> <<237, 176>>, ldd |-> <<237, 168>>, lddr |-> <<237, 184>>,
   cpi |-> <<237, 161>>, cpir |-> <<237, 177>>, cpd |-> <<237, 169>>, cpdr |-> <<237, 185>>,
   ini |-> <<237, 162>>, inir |-> <<237, 178>>, ind |-> <<237, 170>>, indr |-> <<237, 186>>,
   outi |-> <<237, 163>>, otir |-> <<237, 179>>, outd |-> <<237, 171>>, otdr |-> <<237, 187>>,
   reti |-> <<237, 77>>, retn |-> <<237, 69>>]
encodeCore(mn) == Encoding(Len(CORE_OPCODES[mn]), [k \in 1..Len(CORE_OPCODES[mn]) |-> Op(CORE_OPCODES[mn][k])])
imOpcode == <<70, 86, 94>>

encodeZ80Instruction(i) ==
  IF i.mn = "ld" THEN encodeLd(i.dst, i.src)
  ELSE IF i.mn \in {"inc", "dec"} THEN encodeIncDec(i.mn, i.dst)
  ELSE IF i.mn \in {"push", "pop"} THEN encodeStack(i.mn, i.dst.reg)
  ELSE IF i.mn = "ex" THEN encodeExchange(i.dst, i.src)
  ELSE IF i.mn = "in" THEN encodeIn(i.dst, i.src)
  ELSE IF i.mn = "out" THEN encodeOut(i.dst, i.src)
  ELSE IF i.mn \in DOMAIN bitLikeOpcodeBase THEN encodeBitLike(i)
  ELSE IF i.mn \in RotateMnemonics THEN encodeRotateShift(i)
  ELSE IF i.mn \in AluMnemonics /\ i.dst.kind = "reg16" THEN encode16BitAlu(i.mn, i.dst.reg, i.src.reg)
  ELSE IF i.mn \in AluMnemonics THEN encodeAlu(i.mn, i.src)
  ELSE IF i.mn = "im" THEN Encoding(2, <<Op(237), Op(imOpcode[i.arg + 1])>>)
  ELSE IF i.mn \in DOMAIN CORE_OPCODES THEN encodeCore(i.mn)
  ELSE encodeBranch(i)

instructionSize(i) == encodeZ80Instruction(i).size

(* --------------------------------- emission --------------------------------- *)
LowByte(n) == n % 256
HighByte(n) == (n \div 256) % 256
SignedByte(d) == d \in -128..127

(* A value that does not fit is a diagnostic; the program is then not written out. *)
FragmentFits(f, origin) ==
  CASE f.kind = "rel8" -> SignedByte(f.val - origin)
    [] f.kind = "disp8" -> SignedByte(f.val)
    [] f.kind = "imm8" -> f.val \in -128..255
    [] f.kind = "abs16" -> f.val \in -32768..65535
    [] f.kind = "byte" -> TRUE

emitZ80Fragment(f, origin) ==
  CASE f.kind = "byte" -> <<f.val>>
    [] f.kind \in {"imm8", "disp8"} -> <<LowByte(f.val)>>
    [] f.kind = "abs16" -> <<LowByte(f.val), HighByte(f.val)>>
    [] f.kind = "rel8" -> <<LowByte(f.val - origin)>>

(* The displacement of a branch counts from the address after the instruction.   *)
Emitted(i, address) ==
  LET e == encodeZ80Instruction(i)
  IN FlattenSeq([k \in 1..Len(e.fragments) |-> emitZ80Fragment(e.fragments[k], address + e.size)])
Assembles(i, address) ==
  LET e == encodeZ80Instruction(i)
  IN \A k \in 1..Len(e.fragments) : FragmentFits(e.fragments[k], address + e.size)
=============================================================================
