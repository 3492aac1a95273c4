------------------------------ MODULE Z80Execute ------------------------------
(* What each handler of the emulator does to the processor: registers, the        *)
(* documented flags, memory, ports and PC.  A processor is a record; bits 3 and 5  *)
(* of F and the cycle counter are left out.                                       *)
EXTENDS Z80Decoder

FlagNames == {"S", "Z", "H", "P", "N", "C"}
RegisterNames == Bytes8 \cup Halves \cup {"i", "r"}
IsByteMap(m) == m \in [DOMAIN m -> Byte]
CpuFields == {"reg", "alt", "f", "altF", "sp", "pc", "iff1", "iff2", "im", "halted", "ei", "di",
              "mem", "rom", "ports", "output"}
IsCpu(c) ==
  /\ c = [x \in CpuFields |-> c[x]]
  /\ c.reg \in [RegisterNames -> Byte] /\ c.alt \in [Bytes8 -> Byte]
  /\ c.f \in [FlagNames -> {0, 1}] /\ c.altF \in [FlagNames -> {0, 1}]
  /\ c.sp \in Addresses /\ c.pc \in Addresses
  /\ c.iff1 \in {0, 1} /\ c.iff2 \in {0, 1} /\ c.im \in 0..2
  /\ c.halted \in BOOLEAN /\ c.ei \in BOOLEAN /\ c.di \in BOOLEAN
  /\ IsByteMap(c.mem) /\ DOMAIN c.mem \subseteq Addresses /\ IsByteMap(c.ports)
Bit(v, k) == (v \div 2^k) % 2
B01(p) == IF p THEN 1 ELSE 0
FromBits(b) ==
  b[0] + 2 * b[1] + 4 * b[2] + 8 * b[3] + 16 * b[4] + 32 * b[5] + 64 * b[6] + 128 * b[7]
BitAnd(a, x) == FromBits([k \in 0..7 |-> Bit(a, k) * Bit(x, k)])
BitOr(a, x)  == FromBits([k \in 0..7 |-> IF Bit(a, k) + Bit(x, k) > 0 THEN 1 ELSE 0])
BitXor(a, x) == FromBits([k \in 0..7 |-> (Bit(a, k) + Bit(x, k)) % 2])
parity_bits(v) == B01(Cardinality({k \in 0..7 : Bit(v, k) = 1}) % 2 = 0)

(* --------------------------- operands and memory ---------------------------- *)
HighOf == [bc |-> "b", de |-> "d", hl |-> "h", ix |-> "ixh", iy |-> "iyh", af |-> "a"]
LowOf  == [bc |-> "c", de |-> "e", hl |-> "l", ix |-> "ixl", iy |-> "iyl"]

flagsToByte(f) == f.S * 128 + f.Z * 64 + f.H * 16 + f.P * 4 + f.N * 2 + f.C
setFlagsFromByte(v) ==
  [S |-> Bit(v, 7), Z |-> Bit(v, 6), H |-> Bit(v, 4), P |-> Bit(v, 2), N |-> Bit(v, 1), C |-> Bit(v, 0)]

Pair(c, p) ==
  IF p = "sp" THEN c.sp
  ELSE IF p = "af" THEN Word(flagsToByte(c.f), c.reg.a)
  ELSE Word(c.reg[LowOf[p]], c.reg[HighOf[p]])
SetPair(c, p, v) ==
  IF p = "sp" THEN [c EXCEPT !.sp = v % 65536]
  ELSE IF p = "af" THEN [c EXCEPT !.reg.a = (v \div 256) % 256, !.f = setFlagsFromByte(v % 256)]
  ELSE [c EXCEPT !.reg[LowOf[p]] = v % 256, !.reg[HighOf[p]] = (v \div 256) % 256]

(* A write to an address the platform declared read-only is dropped.             *)
mem_write(c, a, v) == IF a % 65536 \in c.rom THEN c ELSE [c EXCEPT !.mem = Put(@, a % 65536, v % 256)]
Address(c, o) ==
  CASE o.kind = "indirect" -> Pair(c, o.reg)
    [] o.kind = "indexed" -> (Pair(c, o.reg) + o.val) % 65536
    [] o.kind = "abs" -> o.val
Value8(c, o) ==
  IF o.kind \in {"reg8", "half", "special8"} THEN c.reg[o.reg]
  ELSE IF o.kind = "imm" THEN o.val
  ELSE At(c.mem, Address(c, o))
Store8(c, o, v) ==
  IF o.kind \in {"reg8", "half", "special8"} THEN [c EXCEPT !.reg[o.reg] = v]
                                             ELSE mem_write(c, Address(c, o), v)
pushWord(c, v) == mem_write(mem_write([c EXCEPT !.sp = (@ - 2) % 65536], c.sp - 1, v \div 256), c.sp - 2, v)
popped(c) == WordAt(c.mem, c.sp)
afterPop(c) == [c EXCEPT !.sp = (@ + 2) % 65536]

(* ------------------------------- arithmetic --------------------------------- *)
SameSign(x, y) == Bit(x, 7) = Bit(y, 7)
Flags(v, h, p, n, cy) ==
  [S |-> Bit(v, 7), Z |-> B01(v = 0), H |-> B01(h), P |-> p, N |-> n, C |-> cy]

(* Mutant: the half carry is taken without the carry in.                           *)
do_adcHalfBare(a, x, carry) ==
  LET sum == a + x + carry  v == sum % 256
  IN [val |-> v, f |-> Flags(v, (a % 16) + (x % 16) >= 16,
                             B01(SameSign(a, x) /\ ~SameSign(a, v)), 0, B01(sum >= 256))]
do_adc(a, x, carry) ==
  LET sum == a + x + carry  v == sum % 256
  IN [val |-> v, f |-> Flags(v, (a % 16) + (x % 16) + carry >= 16,
                             B01(SameSign(a, x) /\ ~SameSign(a, v)), 0, B01(sum >= 256))]
do_sbc(a, x, carry) ==
  LET dif == a - x - carry  v == dif % 256
  IN [val |-> v, f |-> Flags(v, (a % 16) - (x % 16) - carry < 0,
                             B01(~SameSign(a, x) /\ ~SameSign(a, v)), 1, B01(dif < 0))]
Logic(v, half) == [val |-> v, f |-> Flags(v, half, parity_bits(v), 0, 0)]

do_alu(mn, a, x, carry) ==
  CASE mn = "add" -> do_adc(a, x, 0)
    [] mn = "adc" -> do_adc(a, x, carry)
    [] mn = "sub" -> do_sbc(a, x, 0)
    [] mn = "sbc" -> do_sbc(a, x, carry)
    [] mn = "cp" -> [do_sbc(a, x, 0) EXCEPT !.val = a]
    [] mn = "and" -> Logic(BitAnd(a, x), TRUE)
    [] mn = "or" -> Logic(BitOr(a, x), FALSE)
    [] mn = "xor" -> Logic(BitXor(a, x), FALSE)

do_inc(f, x) ==
  LET v == (x + 1) % 256
  IN [val |-> v, f |-> [Flags(v, x % 16 = 15, B01(x = 127), 0, 0) EXCEPT !.C = f.C]]
(* Mutant: a decrement does not wrap around.                                       *)
do_decUnwrapped(f, x) ==
  [val |-> x - 1, f |-> [Flags(x - 1, x % 16 = 0, B01(x = 128), 1, 0) EXCEPT !.C = f.C]]
do_dec(f, x) ==
  LET v == (x - 1) % 256
  IN [val |-> v, f |-> [Flags(v, x % 16 = 0, B01(x = 128), 1, 0) EXCEPT !.C = f.C]]

(* ADD leaves S, Z and P; ADC and SBC fold the carry into the operand first.      *)
do_wide_add(f, w, x) ==
  LET sum == w + x
  IN [val |-> sum % 65536, f |-> [f EXCEPT !.H = B01((w % 4096) + (x % 4096) >= 4096), !.N = 0,
                                           !.C = B01(sum >= 65536)]]
do_hl_adc(f, w, x) ==
  LET op == x + f.C  sum == w + op
  IN [val |-> sum % 65536,
      f |-> [S |-> Bit(sum, 15), Z |-> B01(sum % 65536 = 0), H |-> Bit((w % 4096) + (op % 4096), 12),
             P |-> B01(Bit(w, 15) = Bit(op, 15) /\ Bit(sum, 15) # Bit(w, 15)), N |-> 0, C |-> Bit(sum, 16)]]
do_hl_sbc(f, w, x) ==
  LET op == x + f.C  dif == w - op
  IN [val |-> dif % 65536,
      f |-> [S |-> Bit(dif, 15), Z |-> B01(dif % 65536 = 0), H |-> B01(w % 4096 < op % 4096),
             P |-> B01(Bit(w, 15) # Bit(op, 15) /\ Bit(dif, 15) # Bit(w, 15)), N |-> 1, C |-> B01(dif < 0)]]

do_rotate(mn, v, carry) ==
  CASE mn = "rlc" -> [val |-> ((v * 2) % 256) + Bit(v, 7), out |-> Bit(v, 7)]
    [] mn = "rrc" -> [val |-> (v \div 2) + 128 * Bit(v, 0), out |-> Bit(v, 0)]
    [] mn = "rl" -> [val |-> ((v * 2) % 256) + carry, out |-> Bit(v, 7)]
    [] mn = "rr" -> [val |-> (v \div 2) + 128 * carry, out |-> Bit(v, 0)]
    [] mn = "sla" -> [val |-> (v * 2) % 256, out |-> Bit(v, 7)]
    [] mn = "sra" -> [val |-> (v \div 2) + 128 * Bit(v, 7), out |-> Bit(v, 0)]
    [] mn \in {"sll", "sls"} -> [val |-> ((v * 2) % 256) + 1, out |-> Bit(v, 7)]
    [] mn = "srl" -> [val |-> v \div 2, out |-> Bit(v, 0)]
setRotateFlags(v, out) == Flags(v, FALSE, parity_bits(v), 0, out)

(* DAA corrects by 06 and 60 from H, C and the digits of A; after a subtraction   *)
(* the correction is taken away.                                                  *)
daa(c) ==
  LET a == c.reg.a
      low == IF c.f.H = 1 \/ a % 16 > 9 THEN 6 ELSE 0
      high == IF c.f.C = 1 \/ a > 153 THEN 96 ELSE 0
      v == (IF c.f.N = 0 THEN a + low + high ELSE a - low - high) % 256
      carry == B01(c.f.C = 1 \/ a > 153)
  IN [c EXCEPT !.reg.a = v, !.f = Flags(v, Bit(a, 4) # Bit(v, 4), parity_bits(v), c.f.N, carry)]

do_neg(c) ==
  LET v == (0 - c.reg.a) % 256
  IN [c EXCEPT !.reg.a = v, !.f = Flags(v, (0 - v) % 16 > 0, B01(v = 128), 1, B01(v # 0))]

do_in(f, v) == [Flags(v, FALSE, parity_bits(v), 0, 0) EXCEPT !.C = f.C]

(* ------------------------------ simple handlers ----------------------------- *)
executeAlu(c, i) ==
  LET r == do_alu(i.mn, c.reg.a, Value8(c, i.src), c.f.C)
  IN [c EXCEPT !.reg.a = r.val, !.f = r.f]
executeWide(c, i) ==
  LET w == Pair(c, i.dst.reg)  x == Pair(c, i.src.reg)
      r == CASE i.mn = "add" -> do_wide_add(c.f, w, x)
             [] i.mn = "adc" -> do_hl_adc(c.f, w, x)
             [] i.mn = "sbc" -> do_hl_sbc(c.f, w, x)
  IN [SetPair(c, i.dst.reg, r.val) EXCEPT !.f = r.f]
executeIncDec(c, i) ==
  IF i.dst.kind = "reg16"
  THEN SetPair(c, i.dst.reg, Pair(c, i.dst.reg) + (IF i.mn = "inc" THEN 1 ELSE -1))
  ELSE LET r == IF i.mn = "inc" THEN do_inc(c.f, Value8(c, i.dst)) ELSE do_dec(c.f, Value8(c, i.dst))
       IN [Store8(c, i.dst, r.val) EXCEPT !.f = r.f]

(* A word goes to and from memory low byte first.                                *)
executeLd(c, i) ==
  IF i.dst.kind = "abs" /\ i.src.kind = "reg16" THEN
         mem_write(mem_write(c, i.dst.val, Pair(c, i.src.reg)), i.dst.val + 1, Pair(c, i.src.reg) \div 256)
  ELSE IF i.dst.kind = "reg16" /\ i.src.kind = "abs" THEN SetPair(c, i.dst.reg, WordAt(c.mem, i.src.val))
  ELSE IF i.dst.kind = "reg16" /\ i.src.kind = "imm" THEN SetPair(c, i.dst.reg, i.src.val)
  ELSE IF i.dst.kind = "reg16" /\ i.src.kind = "reg16" THEN SetPair(c, i.dst.reg, Pair(c, i.src.reg))
  ELSE IF i.src = Special("i") THEN
         [c EXCEPT !.reg.a = c.reg.i, !.f.S = Bit(c.reg.i, 7), !.f.Z = B01(c.reg.i = 0), !.f.H = 0,
                   !.f.P = c.iff2, !.f.N = 0]
  ELSE IF i.src = Special("r") THEN [c EXCEPT !.reg.a = c.reg.r, !.f.P = c.iff2]
  ELSE Store8(c, i.dst, Value8(c, i.src))

exchangeWithStack(c, p) ==
  SetPair(mem_write(mem_write(c, c.sp, Pair(c, p)), c.sp + 1, Pair(c, p) \div 256), p, popped(c))
executeEx(c, i) ==
  IF i.src.reg = "af" THEN [c EXCEPT !.reg.a = c.alt.a, !.alt.a = c.reg.a, !.f = c.altF, !.altF = c.f]
  ELSE IF i.dst = R16("de") THEN SetPair(SetPair(c, "de", Pair(c, "hl")), "hl", Pair(c, "de"))
  ELSE exchangeWithStack(c, i.src.reg)
exx(c) ==
  LET set == Bytes8 \ {"a"}
  IN [c EXCEPT !.reg = [n \in DOMAIN @ |-> IF n \in set THEN c.alt[n] ELSE @[n]],
               !.alt = [n \in DOMAIN @ |-> IF n \in set THEN c.reg[n] ELSE @[n]]]

executeCb(c, i) ==
  LET v == Value8(c, i.src)
      turned == do_rotate(i.mn, v, c.f.C)
      stored(w) == LET s == Store8(c, i.src, w) IN IF i.dst = None THEN s ELSE Store8(s, i.dst, w)
      zero == B01(Bit(v, i.arg) = 0)
  IN IF i.mn = "bit" THEN [c EXCEPT !.f.Z = zero, !.f.P = zero, !.f.H = 1, !.f.N = 0,
                                    !.f.S = B01(i.arg = 7 /\ zero = 0)]
     ELSE IF i.mn = "res" THEN stored(v - Bit(v, i.arg) * 2^i.arg)
     ELSE IF i.mn = "set" THEN stored(v + (1 - Bit(v, i.arg)) * 2^i.arg)
     ELSE [stored(turned.val) EXCEPT !.f = setRotateFlags(turned.val, turned.out)]

(* RLCA and its kin rotate A and leave S, Z and P as they were.                  *)
rotateA(c, mn) ==
  LET r == do_rotate(mn, c.reg.a, c.f.C)
  IN [c EXCEPT !.reg.a = r.val, !.f.H = 0, !.f.N = 0, !.f.C = r.out]

rotateDigits(c, mn) ==
  LET hl == Pair(c, "hl")  m == At(c.mem, hl)  a == c.reg.a
      digit == IF mn = "rrd" THEN m % 16 ELSE m \div 16
      left == IF mn = "rrd" THEN (m \div 16) + 16 * (a % 16) ELSE 16 * (m % 16) + (a % 16)
      v == 16 * (a \div 16) + digit
  IN [mem_write(c, hl, left) EXCEPT !.reg.a = v, !.f = do_in(c.f, v)]

PortOf(c, o) == IF o = PortC THEN Pair(c, "bc") ELSE Word(o.val, c.reg.a)
io_read(c, port) == IF port \in DOMAIN c.ports THEN c.ports[port] ELSE 0
executeIn(c, i) ==
  LET v == io_read(c, PortOf(c, i.src))
  IN IF i.src # PortC THEN [c EXCEPT !.reg.a = v]
     ELSE IF i.dst = None THEN [c EXCEPT !.f = do_in(c.f, v)]
     ELSE [c EXCEPT !.f = do_in(c.f, v), !.reg[i.dst.reg] = v]
io_write(c, port, v) == [c EXCEPT !.output = [port |-> port, val |-> v]]

(* ------------------------------ block transfers ----------------------------- *)
(* The direction and the kind of a block instruction; the repeating ones set PC    *)
(* back on themselves until the count, or the search, is over.                     *)
BlockStep(mn) == IF mn \in {"ldi", "ldir", "cpi", "cpir", "ini", "inir", "outi", "otir"} THEN 1 ELSE -1
Copies == {"ldi", "ldir", "ldd", "lddr"}
Searches == {"cpi", "cpir", "cpd", "cpdr"}
Inputs == {"ini", "inir", "ind", "indr"}
Outputs == {"outi", "otir", "outd", "otdr"}
Repeating == {"ldir", "lddr", "cpir", "cpdr", "inir", "indr", "otir", "otdr"}

do_copy(c, d) ==
  LET moved == mem_write(c, Pair(c, "de"), At(c.mem, Pair(c, "hl")))
      next == SetPair(SetPair(SetPair(moved, "de", Pair(c, "de") + d), "hl", Pair(c, "hl") + d),
                      "bc", Pair(c, "bc") - 1)
  IN [next EXCEPT !.f.H = 0, !.f.N = 0, !.f.P = B01(Pair(next, "bc") # 0)]
do_search(c, d) ==
  LET compared == do_sbc(c.reg.a, At(c.mem, Pair(c, "hl")), 0)
      next == SetPair(SetPair(c, "hl", Pair(c, "hl") + d), "bc", Pair(c, "bc") - 1)
  IN [next EXCEPT !.f = [compared.f EXCEPT !.C = c.f.C, !.P = B01(Pair(c, "bc") # 1)]]
do_block_in(c, d) ==
  LET r == do_dec(c.f, c.reg.b)
      counted == [c EXCEPT !.reg.b = r.val, !.f = r.f]
  IN SetPair(mem_write(counted, Pair(c, "hl"), io_read(counted, Pair(counted, "bc"))), "hl", Pair(c, "hl") + d)
do_block_out(c, d) ==
  LET r == do_dec(c.f, c.reg.b)
  IN [SetPair(io_write(c, Pair(c, "bc"), At(c.mem, Pair(c, "hl"))), "hl", Pair(c, "hl") + d)
        EXCEPT !.reg.b = r.val, !.f = r.f]

(* Mutant: a copy stops with one byte left to go.                                  *)
ContinuesShort(c, mn) ==
  IF mn \in Copies THEN Pair(c, "bc") > 1 ELSE mn \in Repeating /\ c.reg.b # 0
Continues(c, mn) ==
  IF mn \in Copies THEN Pair(c, "bc") # 0
  ELSE IF mn \in Searches THEN c.f.Z = 0 /\ Pair(c, "bc") # 0
  ELSE c.reg.b # 0
executeBlock(c, mn) ==
  LET d == BlockStep(mn)
      done == CASE mn \in Copies -> do_copy(c, d)
                [] mn \in Searches -> do_search(c, d)
                [] mn \in Inputs -> do_block_in(c, d)
                [] mn \in Outputs -> do_block_out(c, d)
  IN IF mn \in Repeating /\ Continues(done, mn) THEN [done EXCEPT !.pc = (@ - 2) % 65536] ELSE done

(* ----------------------------------- control -------------------------------- *)
(* PC is already past the instruction.                                           *)
Holds(f, k) ==
  CASE k = 0 -> TRUE
    [] k = 1 -> f.Z = 0  [] k = 2 -> f.Z = 1
    [] k = 3 -> f.C = 0  [] k = 4 -> f.C = 1
    [] k = 5 -> f.P = 0  [] k = 6 -> f.P = 1
    [] k = 7 -> f.S = 0  [] k = 8 -> f.S = 1
Jump(c, a) == [c EXCEPT !.pc = a]
Return(c) == Jump(afterPop(c), popped(c))
(* A call that is taken pushes before it reads its target, the last two bytes of   *)
(* the instruction: where the push lands on them it goes elsewhere than decoded.   *)
do_call(c) ==
  LET pushed == pushWord(c, c.pc) IN Jump(pushed, WordAt(pushed.mem, c.pc - 2))
executeControl(c, i) ==
  LET target == IF i.src.kind = "reg16" THEN Pair(c, i.src.reg) ELSE i.src.val
      counted == [c EXCEPT !.reg.b = (@ - 1) % 256]
  IN IF i.mn = "djnz" THEN IF counted.reg.b = 0 THEN counted ELSE Jump(counted, target)
     ELSE IF i.mn = "rst" THEN Jump(pushWord(c, c.pc), target)
     ELSE IF ~Holds(c.f, i.arg) THEN c
     ELSE IF i.mn \in {"jp", "jr"} THEN Jump(c, target)
     ELSE IF i.mn = "call" THEN do_call(c)
     ELSE IF i.mn = "ret" THEN Return(c)
     ELSE IF i.mn = "reti" THEN Return(c)
     ELSE [Return(c) EXCEPT !.iff1 = c.iff2]

executeCore(c, mn) ==
  CASE mn = "nop" -> c
    [] mn = "halt" -> [c EXCEPT !.halted = TRUE]
    [] mn = "di" -> [c EXCEPT !.di = TRUE]
    [] mn = "ei" -> [c EXCEPT !.ei = TRUE]
    [] mn = "scf" -> [c EXCEPT !.f.C = 1, !.f.H = 0, !.f.N = 0]
    [] mn = "ccf" -> [c EXCEPT !.f.C = 1 - c.f.C, !.f.H = c.f.C, !.f.N = 0]
    [] mn = "cpl" -> [c EXCEPT !.reg.a = 255 - @, !.f.H = 1, !.f.N = 1]
    [] mn = "daa" -> daa(c)
    [] mn = "neg" -> do_neg(c)
    [] mn = "exx" -> exx(c)
    [] mn \in {"rrd", "rld"} -> rotateDigits(c, mn)
    [] mn = "rlca" -> rotateA(c, "rlc")
    [] mn = "rrca" -> rotateA(c, "rrc")
    [] mn = "rla" -> rotateA(c, "rl")
    [] mn = "rra" -> rotateA(c, "rr")

Execute(c, i) ==
  IF i.mn = "ld" THEN executeLd(c, i)
  ELSE IF i.mn \in AluMnemonics /\ i.dst.kind = "reg16" THEN executeWide(c, i)
  ELSE IF i.mn \in AluMnemonics THEN executeAlu(c, i)
  ELSE IF i.mn \in {"inc", "dec"} THEN executeIncDec(c, i)
  ELSE IF i.mn \in RotateMnemonics \cup {"bit", "res", "set"} THEN executeCb(c, i)
  ELSE IF i.mn = "push" THEN pushWord(c, Pair(c, i.dst.reg))
  ELSE IF i.mn = "pop" THEN SetPair(afterPop(c), i.dst.reg, popped(c))
  ELSE IF i.mn = "ex" THEN executeEx(c, i)
  ELSE IF i.mn = "in" THEN executeIn(c, i)
  ELSE IF i.mn = "out" THEN io_write(c, PortOf(c, i.dst), Value8(c, i.src))
  ELSE IF i.mn \in Copies \cup Searches \cup Inputs \cup Outputs THEN executeBlock(c, i.mn)
  ELSE IF i.mn \in {"jp", "jr", "call", "ret", "reti", "retn", "rst", "djnz"} THEN executeControl(c, i)
  ELSE IF i.mn = "im" THEN [c EXCEPT !.im = i.arg]
  ELSE executeCore(c, i.mn)

(* ------------------------------ the CPU's two calls ------------------------- *)
OpcodePrefixes == {203, 221, 237, 253}
RefreshBy(r, n) == 128 * (r \div 128) + ((r + n) % 128)

(* One instruction: EI and DI of the instruction before take effect after it.     *)
Delayed(c, done) ==
  IF c.di THEN [done EXCEPT !.iff1 = 0, !.iff2 = 0]
  ELSE IF c.ei THEN [done EXCEPT !.iff1 = 1, !.iff2 = 1]
  ELSE done
executeDecoded(c, d) ==
  LET fetches == IF At(c.mem, c.pc) \in OpcodePrefixes THEN 2 ELSE 1
      ready == [c EXCEPT !.pc = (@ + d.len) % 65536, !.reg.r = RefreshBy(@, fetches),
                         !.di = FALSE, !.ei = IF c.di THEN @ ELSE FALSE]
  IN Delayed(c, Execute(ready, d.ins))
execute(c) == IF c.halted THEN c ELSE executeDecoded(c, decodeInstruction(c.mem, c.pc))

(* The keypad's interrupt, the only kind a platform raises.                       *)
nmi(c) ==
  [pushWord(c, c.pc) EXCEPT !.pc = 102, !.halted = FALSE, !.iff2 = c.iff1, !.iff1 = 0,
                            !.reg.r = RefreshBy(@, 1)]
=============================================================================
