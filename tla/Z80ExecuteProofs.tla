---------------------------- MODULE Z80ExecuteProofs ----------------------------
(* What the decoder makes of any bytes, execution can carry out, and what it makes *)
(* of a processor is a processor: every register, flag, pair and byte in its       *)
(* range, whatever the instruction, whatever memory holds and wherever it is.      *)
(* Most instructions keep a list of facts (Steady: what one that falls through     *)
(* keeps, Level: Steady with the stack untouched), each proved for the operators   *)
(* that write (SetReg8, SetPair, MemWrite, the flags) and chained through the rest. *)
EXTENDS Z80Execute, TLAPS
(* ------------------------------- the processor -------------------------------- *)
FlagSets == [FlagNames -> {0, 1}]
RegisterSets == [RegisterNames -> Byte]
(* Still a processor, with its program counter where it was; with its stack        *)
(* pointer where it was as well.                                                   *)
Steady(c, d) == IsCpu(d) /\ d.pc = c.pc
Level(c, d) == IsCpu(d) /\ d.pc = c.pc /\ d.sp = c.sp

LEMMA CpuParts ==
  ASSUME NEW c, IsCpu(c)
  PROVE  /\ c = [x \in CpuFields |-> c[x]]
         /\ c.reg \in RegisterSets /\ c.f \in FlagSets /\ c.altF \in FlagSets /\ c.alt \in [Bytes8 -> Byte]
         /\ c.sp \in Addresses /\ c.pc \in Addresses /\ c.iff1 \in {0, 1} /\ c.iff2 \in {0, 1} /\ c.im \in 0..2
         /\ c.halted \in BOOLEAN /\ c.ei \in BOOLEAN /\ c.di \in BOOLEAN
         /\ IsByteMap(c.mem) /\ DOMAIN c.mem \subseteq Addresses /\ IsByteMap(c.ports)
  BY Zenon DEF IsCpu, RegisterSets, FlagSets
LEMMA CpuSp ==
  ASSUME NEW c, IsCpu(c), NEW v \in Addresses
  PROVE  Steady(c, [c EXCEPT !.sp = v])
  BY DEF IsCpu, CpuFields, Steady
LEMMA CpuPc ==
  ASSUME NEW c, IsCpu(c), NEW v \in Addresses
  PROVE  IsCpu([c EXCEPT !.pc = v]) /\ [c EXCEPT !.pc = v].sp = c.sp
  BY DEF IsCpu, CpuFields
LEMMA CpuReg ==
  ASSUME NEW c, IsCpu(c), NEW r \in RegisterSets
  PROVE  Level(c, [c EXCEPT !.reg = r])
  BY DEF IsCpu, Level, CpuFields, RegisterSets
LEMMA CpuFlags ==
  ASSUME NEW c, IsCpu(c), NEW f \in FlagSets
  PROVE  Level(c, [c EXCEPT !.f = f])
  BY DEF IsCpu, Level, CpuFields, FlagSets
LEMMA CpuRegFlags ==
  ASSUME NEW c, IsCpu(c), NEW r \in RegisterSets, NEW f \in FlagSets
  PROVE  Level(c, [c EXCEPT !.reg = r, !.f = f])
  BY DEF IsCpu, Level, CpuFields, FlagSets, RegisterSets
LEMMA CpuMem ==
  ASSUME NEW c, IsCpu(c), NEW m, IsByteMap(m), DOMAIN m \subseteq Addresses
  PROVE  Level(c, [c EXCEPT !.mem = m])
  BY DEF IsCpu, Level, CpuFields

LEMMA LevelSteady == ASSUME NEW c, NEW d, Level(c, d) PROVE Steady(c, d) /\ IsCpu(d)
  BY DEF Level, Steady
LEMMA SteadyOn == ASSUME NEW c, NEW d, NEW e, Steady(c, d), Steady(d, e) PROVE Steady(c, e)
  BY DEF Steady
LEMMA LevelOn == ASSUME NEW c, NEW d, NEW e, Level(c, d), Level(d, e) PROVE Level(c, e)
  BY DEF Level

LEMMA RegisterSetTo ==
  ASSUME NEW r \in RegisterSets, NEW n, NEW v \in Byte
  PROVE  [r EXCEPT ![n] = v] \in RegisterSets
  BY DEF RegisterSets
LEMMA SetFlag ==
  ASSUME NEW f \in FlagSets, NEW n, NEW v \in {0, 1}
  PROVE  [f EXCEPT ![n] = v] \in FlagSets
  BY DEF FlagSets
(* ------------------------------ bits and words -------------------------------- *)
LEMMA Powers ==
  /\ 2^0 = 1 /\ 2^1 = 2 /\ 2^2 = 4 /\ 2^3 = 8 /\ 2^4 = 16 /\ 2^5 = 32 /\ 2^6 = 64 /\ 2^7 = 128
  /\ 2^12 = 4096 /\ 2^15 = 32768 /\ 2^16 = 65536
  OBVIOUS
Places == 0..7 \cup {12, 15, 16}
LEMMA PowerTyped ==
  ASSUME NEW k \in Places
  PROVE  2^k \in Nat /\ 2^k > 0
<1> DEFINE p == 2^k
           Positive(n) == n \in Nat /\ n > 0
<1>1. k \in {0, 1, 2, 3, 4, 5, 6, 7, 12, 15, 16}
  BY DEF Places
<1>2. Positive(2^0) /\ Positive(2^1) /\ Positive(2^2) /\ Positive(2^3) /\ Positive(2^4) /\ Positive(2^5) /\ Positive(2^6)
  BY Powers
<1>3. Positive(2^7) /\ Positive(2^12) /\ Positive(2^15) /\ Positive(2^16)
  BY Powers
<1> HIDE DEF Positive
<1>4. Positive(p)
  BY <1>1, <1>2, <1>3, Zenon DEF p
<1> QED BY <1>4 DEF p, Positive
LEMMA BitTyped ==
  ASSUME NEW v \in Int, NEW k \in Places
  PROVE  Bit(v, k) \in {0, 1}
<1> DEFINE p == 2^k
<1>1. p \in Nat /\ p > 0
  BY PowerTyped
<1> HIDE DEF p
<1>2. (v \div p) % 2 \in {0, 1}
  BY <1>1
<1> QED BY <1>2 DEF Bit, p
LEMMA B01Typed == \A p : B01(p) \in {0, 1}
  BY Zenon DEF B01
LEMMA BitsTyped ==
  ASSUME NEW b \in [0..7 -> {0, 1}]
  PROVE  FromBits(b) \in Byte
<1>1. b[0] \in 0..1 /\ b[1] \in 0..1 /\ b[2] \in 0..1 /\ b[3] \in 0..1 /\ b[4] \in 0..1 /\ b[5] \in 0..1 /\ b[6] \in 0..1 /\ b[7] \in 0..1
  OBVIOUS
<1> QED BY <1>1 DEF FromBits, Byte
LEMMA LogicTyped ==
  ASSUME NEW a \in Int, NEW x \in Int
  PROVE  BitAnd(a, x) \in Byte /\ BitOr(a, x) \in Byte /\ BitXor(a, x) \in Byte
<1>1. \A k \in 0..7 : Bit(a, k) \in {0, 1} /\ Bit(x, k) \in {0, 1}
  BY BitTyped DEF Places
<1>2. [k \in 0..7 |-> Bit(a, k) * Bit(x, k)] \in [0..7 -> {0, 1}]
  <2>1. \A u, v \in {0, 1} : u * v \in {0, 1}
    OBVIOUS
  <2> QED BY <1>1, <2>1
<1>3. [k \in 0..7 |-> IF Bit(a, k) + Bit(x, k) > 0 THEN 1 ELSE 0] \in [0..7 -> {0, 1}]
  OBVIOUS
<1>4. [k \in 0..7 |-> (Bit(a, k) + Bit(x, k)) % 2] \in [0..7 -> {0, 1}]
  BY <1>1
<1> QED BY <1>2, <1>3, <1>4, BitsTyped DEF BitAnd, BitOr, BitXor
LEMMA WordTyped ==
  ASSUME NEW lo \in Byte, NEW hi \in Byte
  PROVE  Word(lo, hi) \in Addresses
<1> DEFINE w == lo + 256 * hi
<1>1. w \in 0..65535
  <2>1. lo \in Int /\ 0 <= lo /\ lo <= 255 /\ hi \in Int /\ 0 <= hi /\ hi <= 255
    BY DEF Byte
  <2> QED BY <2>1, SMTT(30)
<1> HIDE DEF w
<1>2. w \in Addresses
  BY <1>1 DEF Addresses
<1> QED BY <1>2 DEF Word, w
LEMMA AtTyped ==
  ASSUME NEW m, IsByteMap(m), NEW a
  PROVE  At(m, a) \in Byte
<1>1. m \in [DOMAIN m -> Byte]
  BY DEF IsByteMap
<1> QED BY <1>1 DEF At, Byte
LEMMA WordAtTyped ==
  ASSUME NEW m, IsByteMap(m), NEW a
  PROVE  WordAt(m, a) \in Addresses
<1>1. At(m, a) \in Byte /\ At(m, a + 1) \in Byte
  BY AtTyped
<1> QED BY <1>1, WordTyped, Zenon DEF WordAt
LEMMA LowTyped == \A v \in Int : v % 256 \in Byte /\ (v \div 256) % 256 \in Byte /\ v % 65536 \in Addresses
  BY DEF Byte, Addresses
LEMMA FlagsTyped ==
  ASSUME NEW v \in Int, NEW h, NEW p \in {0, 1}, NEW n \in {0, 1}, NEW cy \in {0, 1}
  PROVE  Flags(v, h, p, n, cy) \in FlagSets
<1>1. Bit(v, 7) \in {0, 1}
  BY BitTyped DEF Places
<1>2. \A q : B01(q) \in {0, 1}
  BY B01Typed
<1>3. [S |-> Bit(v, 7), Z |-> B01(v = 0), H |-> B01(h), P |-> p, N |-> n, C |-> cy] \in FlagSets
  <2> DEFINE s == Bit(v, 7)
             z == B01(v = 0)
             hh == B01(h)
  <2>1. s \in {0, 1} /\ z \in {0, 1} /\ hh \in {0, 1}
    BY <1>1, <1>2, Zenon
  <2> HIDE DEF s, z, hh
  <2>2. [S |-> s, Z |-> z, H |-> hh, P |-> p, N |-> n, C |-> cy] \in FlagSets
    BY <2>1 DEF FlagSets, FlagNames
  <2> QED BY <2>2 DEF s, z, hh
<1> QED BY <1>3, Zenon DEF Flags
LEMMA ByteFlags ==
  ASSUME NEW v \in Int
  PROVE  setFlagsFromByte(v) \in FlagSets
<1>1. \A k \in {0, 1, 2, 4, 6, 7} : Bit(v, k) \in {0, 1}
  BY BitTyped DEF Places
<1> QED BY <1>1 DEF setFlagsFromByte, FlagSets, FlagNames
LEMMA FlagBits ==
  ASSUME NEW f \in FlagSets
  PROVE  /\ f.S \in {0, 1} /\ f.Z \in {0, 1} /\ f.H \in {0, 1} /\ f.P \in {0, 1} /\ f.N \in {0, 1} /\ f.C \in {0, 1}
         /\ flagsToByte(f) \in Byte
<1>1. f.S \in {0, 1} /\ f.Z \in {0, 1} /\ f.H \in {0, 1} /\ f.P \in {0, 1} /\ f.N \in {0, 1} /\ f.C \in {0, 1}
  BY DEF FlagSets, FlagNames
<1> QED BY <1>1 DEF flagsToByte, Byte

(* --------------------------- operands and memory ------------------------------ *)
Numbered == {"bc", "de", "hl", "ix", "iy"}
PairNames == Numbered \cup {"af"}
LEMMA Numbers == \A v : (v \in Byte => v \in Int) /\ (v \in Addresses => v \in Int) /\ (v \in {0, 1} => v \in Byte)
<1>1. ASSUME NEW v \in Byte PROVE v \in Int
  BY DEF Byte
<1>2. ASSUME NEW v \in Addresses PROVE v \in Int
  BY DEF Addresses
<1>3. ASSUME NEW v \in {0, 1} PROVE v \in Byte
  BY DEF Byte
<1> QED BY <1>1, <1>2, <1>3, Zenon
LEMMA Halving == \A p \in Numbered : LowOf[p] \in RegisterNames /\ HighOf[p] \in RegisterNames
  BY DEF Numbered, LowOf, HighOf, RegisterNames, Bytes8, Halves
LEMMA ByteNames == \A n \in Bytes8 \cup {"a", "b", "i", "r"} : n \in RegisterNames
  BY DEF RegisterNames, Bytes8
LEMMA Registers == ASSUME NEW c, IsCpu(c), NEW n \in RegisterNames PROVE c.reg[n] \in Byte
<1>1. c.reg \in [RegisterNames -> Byte]
  BY CpuParts, Zenon DEF RegisterSets
<1> QED BY <1>1
LEMMA PairTyped ==
  ASSUME NEW c, IsCpu(c), NEW p \in PairNames \cup {"sp"}
  PROVE  Pair(c, p) \in Addresses
<1>1. CASE p = "sp"
  <2>1. Pair(c, p) = c.sp
    BY <1>1 DEF Pair
  <2> QED BY <2>1, CpuParts, Zenon
<1>2. CASE p = "af"
  <2>1. flagsToByte(c.f) \in Byte /\ c.reg.a \in Byte
    BY CpuParts, FlagBits, Registers, ByteNames, Zenon
  <2>2. Pair(c, p) = Word(flagsToByte(c.f), c.reg.a)
    BY <1>2 DEF Pair
  <2> QED BY <2>1, <2>2, WordTyped, Zenon
<1>3. CASE p \in Numbered
  <2>1. c.reg[LowOf[p]] \in Byte /\ c.reg[HighOf[p]] \in Byte
    BY <1>3, Halving, Registers, Zenon
  <2>2. p # "sp" /\ p # "af"
    BY <1>3 DEF Numbered
  <2>3. Pair(c, p) = Word(c.reg[LowOf[p]], c.reg[HighOf[p]])
    BY <2>2, Zenon DEF Pair
  <2> QED BY <2>1, <2>3, WordTyped, Zenon
<1> QED BY <1>1, <1>2, <1>3 DEF PairNames
LEMMA CpuRegister ==
  ASSUME NEW c, IsCpu(c), NEW n, NEW v \in Byte
  PROVE  Level(c, [c EXCEPT !.reg[n] = v])
<1>1. [c.reg EXCEPT ![n] = v] \in RegisterSets
  BY CpuParts, RegisterSetTo, Zenon
<1>2. [c EXCEPT !.reg[n] = v] = [c EXCEPT !.reg = [c.reg EXCEPT ![n] = v]]
  OBVIOUS
<1> QED BY <1>1, <1>2, CpuReg, Zenon
LEMMA CpuRegisterFlags ==
  ASSUME NEW c, IsCpu(c), NEW n, NEW v \in Byte, NEW f \in FlagSets
  PROVE  Level(c, [c EXCEPT !.reg[n] = v, !.f = f])
<1>1. [c.reg EXCEPT ![n] = v] \in RegisterSets
  BY CpuParts, RegisterSetTo, Zenon
<1>2. [c EXCEPT !.reg[n] = v, !.f = f] = [c EXCEPT !.reg = [c.reg EXCEPT ![n] = v], !.f = f]
  OBVIOUS
<1> QED BY <1>1, <1>2, CpuRegFlags, Zenon
LEMMA SetPairLevel ==
  ASSUME NEW c, IsCpu(c), NEW p \in PairNames, NEW v \in Int
  PROVE  Level(c, SetPair(c, p, v))
<1> DEFINE lo == v % 256
           hi == (v \div 256) % 256
<1>1. lo \in Byte /\ hi \in Byte /\ lo \in Int
  BY LowTyped, Numbers
<1>2. p # "sp"
  BY DEF PairNames, Numbered
<1> HIDE DEF lo, hi
<1>3. CASE p = "af"
  <2> DEFINE f == setFlagsFromByte(lo)
  <2>1. SetPair(c, p, v) = [c EXCEPT !.reg.a = hi, !.f = f]
    BY <1>3 DEF SetPair, hi, lo
  <2>2. f \in FlagSets
    BY <1>1, ByteFlags, Zenon
  <2> HIDE DEF f
  <2>3. Level(c, [c EXCEPT !.reg["a"] = hi, !.f = f])
    BY <1>1, <2>2, CpuRegisterFlags, Zenon
  <2> QED BY <2>1, <2>3
<1>4. CASE p # "af"
  <2> DEFINE d == [c EXCEPT !.reg[LowOf[p]] = lo]
  <2>1. SetPair(c, p, v) = [c EXCEPT !.reg[LowOf[p]] = lo, !.reg[HighOf[p]] = hi]
    BY <1>2, <1>4 DEF SetPair, hi, lo
  <2>2. Level(c, d)
    BY <1>1, CpuRegister, Zenon
  <2>3. Level(d, [d EXCEPT !.reg[HighOf[p]] = hi])
    <3> HIDE DEF d
    <3> QED BY <1>1, <2>2, CpuRegister, LevelSteady, Zenon
  <2>4. [d EXCEPT !.reg[HighOf[p]] = hi] = [c EXCEPT !.reg[LowOf[p]] = lo, !.reg[HighOf[p]] = hi]
    OBVIOUS
  <2> HIDE DEF d
  <2> QED BY <2>1, <2>2, <2>3, <2>4, LevelOn, Zenon
<1> QED BY <1>3, <1>4
LEMMA SetPairSteady ==
  ASSUME NEW c, IsCpu(c), NEW p \in PairNames \cup {"sp"}, NEW v \in Int
  PROVE  Steady(c, SetPair(c, p, v))
<1>1. CASE p = "sp"
  <2>1. SetPair(c, p, v) = [c EXCEPT !.sp = v % 65536]
    BY <1>1 DEF SetPair
  <2>2. v % 65536 \in Addresses
    BY LowTyped
  <2> QED BY <2>1, <2>2, CpuSp
<1>2. CASE p \in PairNames
  BY <1>2, SetPairLevel, LevelSteady, Zenon
<1> QED BY <1>1, <1>2
LEMMA PutTyped ==
  ASSUME NEW m, IsByteMap(m), NEW a, NEW v \in Byte
  PROVE  IsByteMap(Put(m, a, v)) /\ DOMAIN Put(m, a, v) = DOMAIN m \cup {a}
  BY DEF IsByteMap, Put
LEMMA MemWriteLevel ==
  ASSUME NEW c, IsCpu(c), NEW a \in Int, NEW v \in Int
  PROVE  Level(c, mem_write(c, a, v))
<1> DEFINE x == a % 65536
           y == v % 256
<1>1. x \in Addresses /\ y \in Byte
  BY LowTyped
<1> HIDE DEF x, y
<1>2. mem_write(c, a, v) = IF x \in c.rom THEN c ELSE [c EXCEPT !.mem = Put(c.mem, x, y)]
  BY DEF mem_write, x, y
<1>3. IsByteMap(Put(c.mem, x, y)) /\ DOMAIN Put(c.mem, x, y) \subseteq Addresses
  <2> DEFINE m == Put(c.mem, x, y)
  <2>1. IsByteMap(m) /\ DOMAIN m = DOMAIN c.mem \cup {x} /\ DOMAIN c.mem \subseteq Addresses
    BY <1>1, CpuParts, PutTyped, Zenon
  <2> HIDE DEF m
  <2>2. DOMAIN m \subseteq Addresses
    BY <1>1, <2>1, Zenon
  <2> QED BY <2>1, <2>2, Zenon DEF m
<1>4. Level(c, [c EXCEPT !.mem = Put(c.mem, x, y)])
  BY <1>3, CpuMem, Zenon
<1>5. Level(c, c)
  BY Zenon DEF Level
<1> QED BY <1>2, <1>4, <1>5

RegisterPlace(o) == o.kind \in {"reg8", "half", "special8"} /\ o.reg \in RegisterNames
InMemory(o) ==
  \/ o.kind = "indirect" /\ o.reg \in PairNames \cup {"sp"}
  \/ o.kind = "indexed" /\ o.reg \in Numbered /\ o.val \in Int
  \/ o.kind = "abs" /\ o.val \in Addresses
IsPlace(o) == RegisterPlace(o) \/ InMemory(o)
IsSource(o) == IsPlace(o) \/ (o.kind = "imm" /\ o.val \in Byte)
LEMMA AddressTyped ==
  ASSUME NEW c, IsCpu(c), NEW o, InMemory(o)
  PROVE  Address(c, o) \in Int
<1>1. CASE o.kind = "indirect" /\ o.reg \in PairNames \cup {"sp"}
  <2>1. Address(c, o) = Pair(c, o.reg)
    BY <1>1 DEF Address
  <2> QED BY <1>1, <2>1, PairTyped, Numbers, Zenon
<1>2. CASE o.kind = "indexed" /\ o.reg \in Numbered /\ o.val \in Int
  <2>1. Address(c, o) = (Pair(c, o.reg) + o.val) % 65536
    BY <1>2 DEF Address
  <2>2. Pair(c, o.reg) \in Int
    BY <1>2, PairTyped, Numbers, Zenon DEF PairNames
  <2> QED BY <1>2, <2>1, <2>2
<1>3. CASE o.kind = "abs" /\ o.val \in Addresses
  <2>1. Address(c, o) = o.val
    BY <1>3 DEF Address
  <2> QED BY <1>3, <2>1, Numbers, Zenon
<1> QED BY <1>1, <1>2, <1>3, Zenon DEF InMemory
LEMMA MemoryKinds == \A o : InMemory(o) => o.kind \notin {"reg8", "half", "special8", "imm"}
  BY DEF InMemory
LEMMA Value8Typed ==
  ASSUME NEW c, IsCpu(c), NEW o, IsSource(o)
  PROVE  Value8(c, o) \in Byte
<1>1. CASE RegisterPlace(o)
  <2>1. Value8(c, o) = c.reg[o.reg]
    BY <1>1 DEF Value8, RegisterPlace
  <2> QED BY <1>1, <2>1, Registers, Zenon DEF RegisterPlace
<1>2. CASE InMemory(o)
  <2>1. Value8(c, o) = At(c.mem, Address(c, o))
    BY <1>2, MemoryKinds DEF Value8
  <2> QED BY <2>1, AtTyped, CpuParts, Zenon
<1>3. CASE o.kind = "imm" /\ o.val \in Byte
  BY <1>3 DEF Value8
<1> QED BY <1>1, <1>2, <1>3, Zenon DEF IsSource, IsPlace
LEMMA Store8Level ==
  ASSUME NEW c, IsCpu(c), NEW o, IsPlace(o), NEW v \in Byte
  PROVE  Level(c, Store8(c, o, v))
<1>1. CASE RegisterPlace(o)
  <2> DEFINE n == o.reg
  <2>1. Store8(c, o, v) = [c EXCEPT !.reg[n] = v]
    BY <1>1 DEF Store8, RegisterPlace
  <2> HIDE DEF n
  <2>2. Level(c, [c EXCEPT !.reg[n] = v])
    BY CpuRegister
  <2> QED BY <2>1, <2>2
<1>2. CASE InMemory(o)
  <2>1. Store8(c, o, v) = mem_write(c, Address(c, o), v)
    BY <1>2, MemoryKinds DEF Store8
  <2> QED BY <1>2, <2>1, AddressTyped, MemWriteLevel, Numbers, Zenon
<1> QED BY <1>1, <1>2, Zenon DEF IsPlace
LEMMA PushSteady ==
  ASSUME NEW c, IsCpu(c), NEW v \in Int
  PROVE  Steady(c, pushWord(c, v)) /\ pushWord(c, v).sp = (c.sp - 2) % 65536
<1> DEFINE s == (c.sp - 2) % 65536
           hi == v \div 256
           a == c.sp - 1
           b == c.sp - 2
           d == [c EXCEPT !.sp = s]
           e == mem_write(d, a, hi)
<1>1. c.sp \in Int
  BY CpuParts, Numbers, Zenon
<1>2. s \in Addresses /\ hi \in Int /\ a \in Int /\ b \in Int
  BY <1>1, LowTyped
<1>3. pushWord(c, v) = mem_write(e, b, v)
  BY DEF pushWord
<1> HIDE DEF s, hi, a, b
<1>4. Steady(c, d) /\ IsCpu(d)
  BY <1>2, CpuSp, Zenon DEF Steady
<1>5. d.sp = s
  BY CpuParts DEF CpuFields
<1> HIDE DEF d
<1>6. Level(d, e) /\ IsCpu(e)
  BY <1>2, <1>4, MemWriteLevel, LevelSteady, Zenon
<1> HIDE DEF e
<1>7. Level(e, mem_write(e, b, v))
  BY <1>2, <1>6, MemWriteLevel, Zenon
<1>8. Level(d, pushWord(c, v))
  BY <1>3, <1>6, <1>7, LevelOn, Zenon
<1>9. pushWord(c, v).sp = s
  BY <1>5, <1>8, Zenon DEF Level
<1>10. Steady(c, pushWord(c, v))
  BY <1>4, <1>8, LevelSteady, SteadyOn, Zenon
<1> QED BY <1>9, <1>10 DEF s
LEMMA PopSteady ==
  ASSUME NEW c, IsCpu(c)
  PROVE  Steady(c, afterPop(c)) /\ afterPop(c).sp = (c.sp + 2) % 65536 /\ popped(c) \in Addresses
<1> DEFINE s == (c.sp + 2) % 65536
           d == [c EXCEPT !.sp = s]
<1>1. c.sp \in Int
  BY CpuParts, Numbers, Zenon
<1>2. s \in Addresses
  BY <1>1, LowTyped
<1>3. afterPop(c) = d
  BY DEF afterPop
<1> HIDE DEF s
<1>4. Steady(c, d)
  BY <1>2, CpuSp, Zenon
<1>5. d.sp = s
  BY CpuParts DEF CpuFields
<1>6. popped(c) \in Addresses
  BY CpuParts, WordAtTyped, Zenon DEF popped
<1> HIDE DEF d
<1> QED BY <1>3, <1>4, <1>5, <1>6 DEF s
LEMMA PushKeeps == ASSUME NEW c, IsCpu(c), NEW v \in Int PROVE Steady(c, pushWord(c, v))
  BY PushSteady
LEMMA PopKeeps == ASSUME NEW c, IsCpu(c) PROVE Steady(c, afterPop(c)) /\ popped(c) \in Addresses
  BY PopSteady

(* ------------------------------- arithmetic ----------------------------------- *)
ByteResult(r) == r.val \in Byte /\ r.f \in FlagSets
WordResult(r) == r.val \in Int /\ r.f \in FlagSets
Result(v, f) == [val |-> v, f |-> f]
LEMMA ResultTyped == \A v, f : Result(v, f).val = v /\ Result(v, f).f = f
  BY DEF Result
LEMMA ParityTyped == \A v : parity_bits(v) \in {0, 1}
  BY B01Typed, Zenon DEF parity_bits
LEMMA AdcTyped ==
  ASSUME NEW a \in Int, NEW x \in Int, NEW carry \in Int
  PROVE  ByteResult(do_adc(a, x, carry))
<1> DEFINE v == (a + x + carry) % 256
           h == (a % 16) + (x % 16) + carry >= 16
           p == B01(SameSign(a, x) /\ ~SameSign(a, v))
           cy == B01(a + x + carry >= 256)
           f == Flags(v, h, p, 0, cy)
<1>1. v \in Byte /\ v \in Int
  BY DEF Byte
<1>2. p \in {0, 1} /\ cy \in {0, 1} /\ 0 \in {0, 1}
  BY B01Typed, Zenon
<1>3. do_adc(a, x, carry) = Result(v, f)
  BY DEF do_adc, Result
<1> HIDE DEF v, h, p, cy
<1>4. f \in FlagSets
  BY <1>1, <1>2, FlagsTyped
<1> HIDE DEF f
<1> QED BY <1>1, <1>3, <1>4, ResultTyped, Zenon DEF ByteResult
LEMMA SbcTyped ==
  ASSUME NEW a \in Int, NEW x \in Int, NEW carry \in Int
  PROVE  ByteResult(do_sbc(a, x, carry))
<1> DEFINE v == (a - x - carry) % 256
           h == (a % 16) - (x % 16) - carry < 0
           p == B01(~SameSign(a, x) /\ ~SameSign(a, v))
           cy == B01(a - x - carry < 0)
           f == Flags(v, h, p, 1, cy)
<1>1. v \in Byte /\ v \in Int
  BY DEF Byte
<1>2. p \in {0, 1} /\ cy \in {0, 1} /\ 1 \in {0, 1}
  BY B01Typed, Zenon
<1>3. do_sbc(a, x, carry) = Result(v, f)
  BY DEF do_sbc, Result
<1> HIDE DEF v, h, p, cy
<1>4. f \in FlagSets
  BY <1>1, <1>2, FlagsTyped
<1> HIDE DEF f
<1> QED BY <1>1, <1>3, <1>4, ResultTyped, Zenon DEF ByteResult
LEMMA LogicResult ==
  ASSUME NEW v \in Byte
  PROVE  \A h : ByteResult(Logic(v, h))
<1> SUFFICES ASSUME NEW h PROVE ByteResult(Logic(v, h))
  OBVIOUS
<1> DEFINE p == parity_bits(v)
           f == Flags(v, h, p, 0, 0)
<1>1. v \in Int /\ p \in {0, 1} /\ 0 \in {0, 1}
  BY Numbers, ParityTyped, Zenon
<1>2. Logic(v, h) = Result(v, f)
  BY DEF Logic, Result
<1> HIDE DEF p
<1>3. f \in FlagSets
  BY <1>1, FlagsTyped
<1> HIDE DEF f
<1> QED BY <1>2, <1>3, ResultTyped, Zenon DEF ByteResult
LEMMA KeptValue ==
  ASSUME NEW r, r = Result(r.val, r.f), ByteResult(r), NEW a \in Byte
  PROVE  ByteResult([r EXCEPT !.val = a])
<1>1. [r EXCEPT !.val = a].val = a /\ [r EXCEPT !.val = a].f = r.f
  BY DEF Result
<1> QED BY <1>1, Zenon DEF ByteResult
LEMMA SbcShape == \A a, x, carry : do_sbc(a, x, carry) = Result(do_sbc(a, x, carry).val, do_sbc(a, x, carry).f)
  BY DEF do_sbc, Result
LEMMA AluTyped ==
  ASSUME NEW mn \in AluMnemonics, NEW a \in Byte, NEW x \in Byte, NEW carry \in {0, 1}
  PROVE  ByteResult(do_alu(mn, a, x, carry))
<1>1. a \in Int /\ x \in Int /\ carry \in Int /\ 0 \in Int
  BY Numbers, Zenon
<1>2. mn \in {"add", "adc", "sub", "sbc", "and", "or", "xor", "cp"}
  BY DEF AluMnemonics
<1>3. CASE mn = "add"
  <2>1. do_alu(mn, a, x, carry) = do_adc(a, x, 0)
    BY <1>3 DEF do_alu
  <2> QED BY <2>1, <1>1, AdcTyped, Zenon
<1>4. CASE mn = "adc"
  <2>1. do_alu(mn, a, x, carry) = do_adc(a, x, carry)
    BY <1>4 DEF do_alu
  <2> QED BY <2>1, <1>1, AdcTyped, Zenon
<1>5. CASE mn = "sub"
  <2>1. do_alu(mn, a, x, carry) = do_sbc(a, x, 0)
    BY <1>5 DEF do_alu
  <2> QED BY <2>1, <1>1, SbcTyped, Zenon
<1>6. CASE mn = "sbc"
  <2>1. do_alu(mn, a, x, carry) = do_sbc(a, x, carry)
    BY <1>6 DEF do_alu
  <2> QED BY <2>1, <1>1, SbcTyped, Zenon
<1>7. CASE mn = "and"
  <2>1. do_alu(mn, a, x, carry) = Logic(BitAnd(a, x), TRUE)
    BY <1>7 DEF do_alu
  <2> QED BY <2>1, <1>1, LogicTyped, LogicResult, Zenon
<1>8. CASE mn = "or"
  <2>1. do_alu(mn, a, x, carry) = Logic(BitOr(a, x), FALSE)
    BY <1>8 DEF do_alu
  <2> QED BY <2>1, <1>1, LogicTyped, LogicResult, Zenon
<1>9. CASE mn = "xor"
  <2>1. do_alu(mn, a, x, carry) = Logic(BitXor(a, x), FALSE)
    BY <1>9 DEF do_alu
  <2> QED BY <2>1, <1>1, LogicTyped, LogicResult, Zenon
<1>10. CASE mn = "cp"
  <2> DEFINE r == do_sbc(a, x, 0)
  <2>1. do_alu(mn, a, x, carry) = [r EXCEPT !.val = a]
    BY <1>10 DEF do_alu
  <2>2. ByteResult(r) /\ r = Result(r.val, r.f)
    BY <1>1, SbcTyped, SbcShape, Zenon
  <2> HIDE DEF r
  <2> QED BY <2>1, <2>2, KeptValue, Zenon
<1> QED BY <1>2, <1>3, <1>4, <1>5, <1>6, <1>7, <1>8, <1>9, <1>10, Zenon
LEMMA IncTyped ==
  ASSUME NEW f \in FlagSets, NEW x \in Byte
  PROVE  ByteResult(do_inc(f, x))
<1> DEFINE v == (x + 1) % 256
           p == B01(x = 127)
           h == x % 16 = 15
           g == Flags(v, h, p, 0, 0)
           k == f.C
<1>1. v \in Byte /\ v \in Int /\ p \in {0, 1} /\ 0 \in {0, 1} /\ k \in {0, 1}
  BY B01Typed, FlagBits DEF Byte
<1>2. do_inc(f, x) = Result(v, [g EXCEPT !.C = k])
  BY DEF do_inc, Result
<1> HIDE DEF v, p, h, k
<1>3. g \in FlagSets
  BY <1>1, FlagsTyped
<1> HIDE DEF g
<1>4. [g EXCEPT !.C = k] \in FlagSets
  BY <1>1, <1>3, SetFlag
<1> QED BY <1>1, <1>2, <1>4, ResultTyped DEF ByteResult
LEMMA DecTyped ==
  ASSUME NEW f \in FlagSets, NEW x \in Byte
  PROVE  ByteResult(do_dec(f, x))
<1> DEFINE v == (x - 1) % 256
           p == B01(x = 128)
           h == x % 16 = 0
           g == Flags(v, h, p, 1, 0)
           k == f.C
<1>1. v \in Byte /\ v \in Int /\ p \in {0, 1} /\ 0 \in {0, 1} /\ 1 \in {0, 1} /\ k \in {0, 1}
  BY B01Typed, FlagBits DEF Byte
<1>2. do_dec(f, x) = Result(v, [g EXCEPT !.C = k])
  BY DEF do_dec, Result
<1> HIDE DEF v, p, h, k
<1>3. g \in FlagSets
  BY <1>1, FlagsTyped
<1> HIDE DEF g
<1>4. [g EXCEPT !.C = k] \in FlagSets
  BY <1>1, <1>3, SetFlag
<1> QED BY <1>1, <1>2, <1>4, ResultTyped DEF ByteResult
LEMMA InTyped ==
  ASSUME NEW f \in FlagSets, NEW v \in Byte
  PROVE  do_in(f, v) \in FlagSets
<1> DEFINE p == parity_bits(v)
           g == Flags(v, FALSE, p, 0, 0)
           k == f.C
<1>1. v \in Int /\ p \in {0, 1} /\ 0 \in {0, 1} /\ k \in {0, 1}
  BY ParityTyped, FlagBits, Numbers, Zenon
<1>2. do_in(f, v) = [g EXCEPT !.C = k]
  BY DEF do_in
<1>3. \A h : Flags(v, h, p, 0, 0) \in FlagSets
  <2> HIDE DEF p
  <2> QED BY <1>1, FlagsTyped
<1>4. g \in FlagSets
  BY <1>3, Zenon
<1> HIDE DEF g, k
<1>5. [g EXCEPT !.C = k] \in FlagSets
  BY <1>1, <1>4, SetFlag
<1> QED BY <1>2, <1>5

LEMMA FlagRecord ==
  ASSUME NEW s \in {0, 1}, NEW z \in {0, 1}, NEW h \in {0, 1}, NEW p \in {0, 1}, NEW n \in {0, 1}, NEW c \in {0, 1}
  PROVE  [S |-> s, Z |-> z, H |-> h, P |-> p, N |-> n, C |-> c] \in FlagSets
  BY DEF FlagSets, FlagNames
LEMMA WideAddTyped ==
  ASSUME NEW f \in FlagSets, NEW w \in Addresses, NEW x \in Addresses
  PROVE  WordResult(do_wide_add(f, w, x))
<1> DEFINE v == (w + x) % 65536
           h == B01((w % 4096) + (x % 4096) >= 4096)
           cy == B01(w + x >= 65536)
           f1 == [f EXCEPT !.H = h]
           f2 == [f1 EXCEPT !.N = 0]
           f3 == [f2 EXCEPT !.C = cy]
<1>1. v \in Int
  BY DEF Addresses
<1>2. h \in {0, 1} /\ cy \in {0, 1} /\ 0 \in {0, 1}
  BY B01Typed
<1>3. do_wide_add(f, w, x) = Result(v, f3)
  BY DEF do_wide_add, Result
<1> HIDE DEF v, h, cy
<1>4. f1 \in FlagSets
  BY <1>2, SetFlag
<1> HIDE DEF f1
<1>5. f2 \in FlagSets
  BY <1>2, <1>4, SetFlag
<1> HIDE DEF f2
<1>6. f3 \in FlagSets
  BY <1>2, <1>5, SetFlag
<1> HIDE DEF f3
<1> QED BY <1>1, <1>3, <1>6, ResultTyped DEF WordResult
LEMMA WideAdcTyped ==
  ASSUME NEW f \in FlagSets, NEW w \in Addresses, NEW x \in Addresses
  PROVE  WordResult(do_hl_adc(f, w, x))
<1> DEFINE op == x + f.C
           sum == w + op
           v == sum % 65536
           half == (w % 4096) + (op % 4096)
           s == Bit(sum, 15)
           z == B01(v = 0)
           h == Bit((w % 4096) + (op % 4096), 12)
           p == B01(Bit(w, 15) = Bit(op, 15) /\ Bit(sum, 15) # Bit(w, 15))
           cy == Bit(sum, 16)
           f1 == [S |-> s, Z |-> z, H |-> h, P |-> p, N |-> 0, C |-> cy]
<1>1. sum \in Int /\ v \in Int /\ half \in Int
  <2> DEFINE b == f.C
  <2>1. w \in Int /\ x \in Int /\ b \in Int
    BY FlagBits, Numbers, Zenon
  <2> HIDE DEF b
  <2>2. x + b \in Int
    BY <2>1
  <2>3. op \in Int
    BY <2>2, Zenon DEF b
  <2> HIDE DEF op
  <2>4. w + op \in Int /\ w - op \in Int /\ half \in Int
    BY <2>1, <2>3
  <2> HIDE DEF half
  <2>5. sum \in Int
    BY <2>4
  <2> HIDE DEF sum
  <2>6. v \in Int
    BY <2>5
  <2> HIDE DEF v
  <2> QED BY <2>4, <2>5, <2>6, Zenon
<1>2. do_hl_adc(f, w, x) = Result(v, f1)
  BY DEF do_hl_adc, Result
<1> HIDE DEF sum, half
<1>3. s \in {0, 1} /\ h \in {0, 1} /\ cy \in {0, 1}
  <2>1. 12 \in Places /\ 15 \in Places /\ 16 \in Places
    BY DEF Places
  <2> USE DEF half
  <2> QED BY <1>1, <2>1, BitTyped, B01Typed
<1>4. z \in {0, 1} /\ p \in {0, 1} /\ 0 \in {0, 1}
  BY B01Typed
<1> HIDE DEF v, s, z, h, p, cy
<1>5. f1 \in FlagSets
  BY <1>3, <1>4, FlagRecord
<1> HIDE DEF f1
<1> QED BY <1>1, <1>2, <1>5, ResultTyped DEF WordResult
LEMMA WideSbcTyped ==
  ASSUME NEW f \in FlagSets, NEW w \in Addresses, NEW x \in Addresses
  PROVE  WordResult(do_hl_sbc(f, w, x))
<1> DEFINE op == x + f.C
           dif == w - op
           v == dif % 65536
           half == (w % 4096) + (op % 4096)
           s == Bit(dif, 15)
           z == B01(v = 0)
           h == B01(w % 4096 < op % 4096)
           p == B01(Bit(w, 15) # Bit(op, 15) /\ Bit(dif, 15) # Bit(w, 15))
           cy == B01(dif < 0)
           f1 == [S |-> s, Z |-> z, H |-> h, P |-> p, N |-> 1, C |-> cy]
<1>1. dif \in Int /\ v \in Int /\ half \in Int
  <2> DEFINE b == f.C
  <2>1. w \in Int /\ x \in Int /\ b \in Int
    BY FlagBits, Numbers, Zenon
  <2> HIDE DEF b
  <2>2. x + b \in Int
    BY <2>1
  <2>3. op \in Int
    BY <2>2, Zenon DEF b
  <2> HIDE DEF op
  <2>4. w + op \in Int /\ w - op \in Int /\ half \in Int
    BY <2>1, <2>3
  <2> HIDE DEF half
  <2>5. dif \in Int
    BY <2>4
  <2> HIDE DEF dif
  <2>6. v \in Int
    BY <2>5
  <2> HIDE DEF v
  <2> QED BY <2>4, <2>5, <2>6, Zenon
<1>2. do_hl_sbc(f, w, x) = Result(v, f1)
  BY DEF do_hl_sbc, Result
<1> HIDE DEF dif, half
<1>3. s \in {0, 1} /\ h \in {0, 1} /\ cy \in {0, 1}
  <2>1. 12 \in Places /\ 15 \in Places /\ 16 \in Places
    BY DEF Places
  <2> USE DEF half
  <2> QED BY <1>1, <2>1, BitTyped, B01Typed
<1>4. z \in {0, 1} /\ p \in {0, 1} /\ 1 \in {0, 1}
  BY B01Typed
<1> HIDE DEF v, s, z, h, p, cy
<1>5. f1 \in FlagSets
  BY <1>3, <1>4, FlagRecord
<1> HIDE DEF f1
<1> QED BY <1>1, <1>2, <1>5, ResultTyped DEF WordResult

RotateResult(r) == r.val \in Byte /\ r.out \in {0, 1}
Rotated(v, b) == [val |-> v, out |-> b]
LEMMA RotatedTyped == \A v \in Byte, b \in {0, 1} : RotateResult(Rotated(v, b))
  BY DEF Rotated, RotateResult
LEMMA ShiftTyped ==
  ASSUME NEW v \in Byte, NEW b \in {0, 1}
  PROVE  /\ ((v * 2) % 256) + b \in Byte /\ (v * 2) % 256 \in Byte /\ ((v * 2) % 256) + 1 \in Byte
         /\ v \div 2 \in Byte
<1>1. (v * 2) % 256 \in 0..254
  BY DEF Byte
<1>2. v \div 2 \in 0..127
  BY DEF Byte
<1> QED BY <1>1, <1>2 DEF Byte
LEMMA HalvedTyped ==
  ASSUME NEW v \in Byte, NEW b \in {0, 1}
  PROVE  (v \div 2) + 128 * b \in Byte
<1>1. v \div 2 \in 0..127
  BY DEF Byte
<1> QED BY <1>1 DEF Byte
LEMMA RotateTyped ==
  ASSUME NEW mn \in RotateMnemonics, NEW v \in Byte, NEW carry \in {0, 1}
  PROVE  RotateResult(do_rotate(mn, v, carry))
<1> DEFINE top == Bit(v, 7)
           low == Bit(v, 0)
<1>1. top \in {0, 1} /\ low \in {0, 1}
  <2>1. v \in Int /\ 7 \in Places /\ 0 \in Places
    BY Numbers DEF Places
  <2> QED BY <2>1, BitTyped
<1>2. mn \in {"rlc", "rrc", "rl", "rr", "sla", "sra", "sll", "sls", "srl"}
  BY DEF RotateMnemonics
<1>3. CASE mn = "rlc"
  <2> DEFINE w == ((v * 2) % 256) + top
  <2>1. do_rotate(mn, v, carry) = Rotated(w, top)
    BY <1>3 DEF do_rotate, Rotated
  <2>2. w \in Byte
    <3> HIDE DEF top, low
    <3> QED BY <1>1, ShiftTyped
  <2> HIDE DEF w, top, low
  <2> QED BY <1>1, <2>1, <2>2, RotatedTyped, Zenon
<1>4. CASE mn = "rrc"
  <2> DEFINE w == (v \div 2) + 128 * low
  <2>1. do_rotate(mn, v, carry) = Rotated(w, low)
    BY <1>4 DEF do_rotate, Rotated
  <2>2. w \in Byte
    <3> HIDE DEF top, low
    <3> QED BY <1>1, HalvedTyped
  <2> HIDE DEF w, top, low
  <2> QED BY <1>1, <2>1, <2>2, RotatedTyped, Zenon
<1>5. CASE mn = "rl"
  <2> DEFINE w == ((v * 2) % 256) + carry
  <2>1. do_rotate(mn, v, carry) = Rotated(w, top)
    BY <1>5 DEF do_rotate, Rotated
  <2>2. w \in Byte
    <3> HIDE DEF top, low
    <3> QED BY <1>1, ShiftTyped
  <2> HIDE DEF w, top, low
  <2> QED BY <1>1, <2>1, <2>2, RotatedTyped, Zenon
<1>6. CASE mn = "rr"
  <2> DEFINE w == (v \div 2) + 128 * carry
  <2>1. do_rotate(mn, v, carry) = Rotated(w, low)
    BY <1>6 DEF do_rotate, Rotated
  <2>2. w \in Byte
    <3> HIDE DEF top, low
    <3> QED BY <1>1, HalvedTyped
  <2> HIDE DEF w, top, low
  <2> QED BY <1>1, <2>1, <2>2, RotatedTyped, Zenon
<1>7. CASE mn = "sla"
  <2> DEFINE w == (v * 2) % 256
  <2>1. do_rotate(mn, v, carry) = Rotated(w, top)
    BY <1>7 DEF do_rotate, Rotated
  <2>2. w \in Byte
    <3> HIDE DEF top, low
    <3> QED BY <1>1, ShiftTyped
  <2> HIDE DEF w, top, low
  <2> QED BY <1>1, <2>1, <2>2, RotatedTyped, Zenon
<1>8. CASE mn = "sra"
  <2> DEFINE w == (v \div 2) + 128 * top
  <2>1. do_rotate(mn, v, carry) = Rotated(w, low)
    BY <1>8 DEF do_rotate, Rotated
  <2>2. w \in Byte
    <3> HIDE DEF top, low
    <3> QED BY <1>1, HalvedTyped
  <2> HIDE DEF w, top, low
  <2> QED BY <1>1, <2>1, <2>2, RotatedTyped, Zenon
<1>9. CASE mn \in {"sll", "sls"}
  <2> DEFINE w == ((v * 2) % 256) + 1
  <2>1. do_rotate(mn, v, carry) = Rotated(w, top)
    BY <1>9 DEF do_rotate, Rotated
  <2>2. w \in Byte
    <3> HIDE DEF top, low
    <3> QED BY <1>1, ShiftTyped
  <2> HIDE DEF w, top, low
  <2> QED BY <1>1, <2>1, <2>2, RotatedTyped, Zenon
<1>10. CASE mn = "srl"
  <2> DEFINE w == v \div 2
  <2>1. do_rotate(mn, v, carry) = Rotated(w, low)
    BY <1>10 DEF do_rotate, Rotated
  <2>2. w \in Byte
    <3> HIDE DEF top, low
    <3> QED BY <1>1, ShiftTyped
  <2> HIDE DEF w, top, low
  <2> QED BY <1>1, <2>1, <2>2, RotatedTyped, Zenon
<1> QED BY <1>2, <1>3, <1>4, <1>5, <1>6, <1>7, <1>8, <1>9, <1>10
LEMMA RotateFlagsTyped ==
  ASSUME NEW v \in Byte, NEW b \in {0, 1}
  PROVE  setRotateFlags(v, b) \in FlagSets
<1> DEFINE p == parity_bits(v)
<1>1. v \in Int /\ p \in {0, 1} /\ 0 \in {0, 1}
  BY ParityTyped, Numbers, Zenon
<1>2. \A h : Flags(v, h, p, 0, b) \in FlagSets
  <2> HIDE DEF p
  <2> QED BY <1>1, FlagsTyped
<1> QED BY <1>2, Zenon DEF setRotateFlags
LEMMA DaaLevel ==
  ASSUME NEW c, IsCpu(c)
  PROVE  Level(c, daa(c))
<1> DEFINE a == c.reg.a
           low == IF c.f.H = 1 \/ a % 16 > 9 THEN 6 ELSE 0
           high == IF c.f.C = 1 \/ a > 153 THEN 96 ELSE 0
           v == (IF c.f.N = 0 THEN a + low + high ELSE a - low - high) % 256
           carry == B01(c.f.C = 1 \/ a > 153)
           h == Bit(a, 4) # Bit(v, 4)
           p == parity_bits(v)
           n == c.f.N
           f == Flags(v, h, p, n, carry)
<1>1. a \in Int
  BY Registers, ByteNames, Numbers, Zenon
<1>2. v \in Byte /\ v \in Int
  <2> HIDE DEF a
  <2>1. low \in Int /\ high \in Int
    OBVIOUS
  <2> HIDE DEF low, high
  <2> QED BY <1>1, <2>1 DEF Byte
<1>3. daa(c) = [c EXCEPT !.reg.a = v, !.f = f]
  BY DEF daa
<1> HIDE DEF v
<1>4. p \in {0, 1} /\ n \in {0, 1} /\ carry \in {0, 1}
  BY ParityTyped, B01Typed, FlagBits, CpuParts, Zenon
<1> HIDE DEF h, p, n, carry
<1>5. f \in FlagSets
  BY <1>2, <1>4, FlagsTyped
<1> HIDE DEF f
<1>6. Level(c, [c EXCEPT !.reg["a"] = v, !.f = f])
  BY <1>2, <1>5, CpuRegisterFlags
<1> QED BY <1>3, <1>6
LEMMA NegLevel ==
  ASSUME NEW c, IsCpu(c)
  PROVE  Level(c, do_neg(c))
<1> DEFINE a == c.reg.a
           v == (0 - a) % 256
           h == (0 - v) % 16 > 0
           p == B01(v = 128)
           cy == B01(v # 0)
           f == Flags(v, h, p, 1, cy)
<1>1. a \in Int
  BY Registers, ByteNames, Numbers, Zenon
<1>2. v \in Byte /\ v \in Int
  <2> HIDE DEF a
  <2> QED BY <1>1 DEF Byte
<1>3. do_neg(c) = [c EXCEPT !.reg.a = v, !.f = f]
  BY DEF do_neg
<1> HIDE DEF v
<1>4. p \in {0, 1} /\ cy \in {0, 1} /\ 1 \in {0, 1}
  BY B01Typed, Zenon
<1> HIDE DEF h, p, cy
<1>5. f \in FlagSets
  BY <1>2, <1>4, FlagsTyped
<1> HIDE DEF f
<1>6. Level(c, [c EXCEPT !.reg["a"] = v, !.f = f])
  BY <1>2, <1>5, CpuRegisterFlags
<1> QED BY <1>3, <1>6

(* ------------------------------ simple handlers ------------------------------- *)
WordNames == PairNames \cup {"sp"}
Computes(i) == i.mn \in AluMnemonics /\ i.dst.kind # "reg16" /\ IsSource(i.src)
ComputesWords(i) ==
  i.mn \in {"add", "adc", "sbc"} /\ i.dst.kind = "reg16" /\ i.dst.reg \in PairNames /\ i.src.reg \in WordNames
Counts(i) ==
  /\ i.mn \in {"inc", "dec"}
  /\ (i.dst.kind = "reg16" /\ i.dst.reg \in WordNames) \/ (i.dst.kind # "reg16" /\ IsPlace(i.dst))
LoadsWord(i) ==
  \/ i.dst.kind = "abs" /\ i.dst.val \in Addresses /\ i.src.kind = "reg16" /\ i.src.reg \in WordNames
  \/ i.dst.kind = "reg16" /\ i.dst.reg \in WordNames /\ i.src.kind \in {"abs", "imm"} /\ i.src.val \in Addresses
  \/ i.dst.kind = "reg16" /\ i.dst.reg \in WordNames /\ i.src.kind = "reg16" /\ i.src.reg \in WordNames
LoadsByte(i) == i.dst.kind # "reg16" /\ i.src.kind # "reg16" /\ IsPlace(i.dst) /\ IsSource(i.src)
Loads(i) == i.mn = "ld" /\ (LoadsWord(i) \/ LoadsByte(i))
TurnsBits(i) ==
  /\ i.mn \in RotateMnemonics \cup {"bit", "res", "set"} /\ i.arg \in 0..7
  /\ IsPlace(i.src) /\ (i.dst = None \/ IsPlace(i.dst))
Stacks(i) == i.mn \in {"push", "pop"} /\ i.dst.reg \in PairNames
Exchanges(i) == i.mn = "ex" /\ (i.src.reg = "af" \/ i.dst = R16("de") \/ i.src.reg \in Numbered)
Inputs1(i) == i.mn = "in" /\ (i.src = PortC => i.dst = None \/ i.dst.reg \in RegisterNames)

LEMMA SteadySelf == ASSUME NEW c, IsCpu(c) PROVE Steady(c, c) /\ Level(c, c)
  BY Zenon DEF Steady, Level
LEMMA FlagsOf == ASSUME NEW c, IsCpu(c) PROVE c.f \in FlagSets /\ c.f.C \in {0, 1} /\ c.reg.a \in Byte /\ c.reg.b \in Byte
  BY CpuParts, FlagBits, Registers, ByteNames, Zenon
LEMMA AluSteady ==
  ASSUME NEW c, IsCpu(c), NEW i, Computes(i)
  PROVE  Steady(c, executeAlu(c, i))
<1> DEFINE r == do_alu(i.mn, c.reg.a, Value8(c, i.src), c.f.C)
<1>1. ByteResult(r)
  BY FlagsOf, Value8Typed, AluTyped, Zenon DEF Computes
<1>2. executeAlu(c, i) = [c EXCEPT !.reg.a = r.val, !.f = r.f]
  BY DEF executeAlu
<1> HIDE DEF r
<1>3. Level(c, [c EXCEPT !.reg["a"] = r.val, !.f = r.f])
  BY <1>1, CpuRegisterFlags DEF ByteResult
<1>4. Level(c, executeAlu(c, i))
  BY <1>2, <1>3
<1> QED BY <1>4, LevelSteady, Zenon
LEMMA WideSteady ==
  ASSUME NEW c, IsCpu(c), NEW i, ComputesWords(i)
  PROVE  Steady(c, executeWide(c, i))
<1> DEFINE w == Pair(c, i.dst.reg)
           x == Pair(c, i.src.reg)
           r == CASE i.mn = "add" -> do_wide_add(c.f, w, x)
                  [] i.mn = "adc" -> do_hl_adc(c.f, w, x)
                  [] i.mn = "sbc" -> do_hl_sbc(c.f, w, x)
           d == SetPair(c, i.dst.reg, r.val)
<1>1. w \in Addresses /\ x \in Addresses /\ c.f \in FlagSets
  BY PairTyped, FlagsOf, Zenon DEF ComputesWords, WordNames
<1> HIDE DEF w, x
<1>2. WordResult(r)
  <2>1. CASE i.mn = "add"
    <3>1. r = do_wide_add(c.f, w, x)
      BY <2>1
    <3> QED BY <1>1, <3>1, WideAddTyped, Zenon
  <2>2. CASE i.mn = "adc"
    <3>1. r = do_hl_adc(c.f, w, x)
      BY <2>2
    <3> QED BY <1>1, <3>1, WideAdcTyped, Zenon
  <2>3. CASE i.mn = "sbc"
    <3>1. r = do_hl_sbc(c.f, w, x)
      BY <2>3
    <3> QED BY <1>1, <3>1, WideSbcTyped, Zenon
  <2> QED BY <2>1, <2>2, <2>3, Zenon DEF ComputesWords
<1>3. executeWide(c, i) = [d EXCEPT !.f = r.f]
  BY DEF executeWide, w, x
<1> HIDE DEF r
<1>4. Level(c, d)
  BY <1>2, SetPairLevel, Zenon DEF ComputesWords, WordResult
<1> HIDE DEF d
<1>5. Level(d, [d EXCEPT !.f = r.f])
  BY <1>2, <1>4, CpuFlags, Zenon DEF Level, WordResult
<1> QED BY <1>3, <1>4, <1>5, LevelSteady, SteadyOn, Zenon
LEMMA CountSteady ==
  ASSUME NEW c, IsCpu(c), NEW i, Counts(i)
  PROVE  Steady(c, executeIncDec(c, i))
<1>1. CASE i.dst.kind = "reg16" /\ i.dst.reg \in WordNames
  <2> DEFINE v == Pair(c, i.dst.reg) + (IF i.mn = "inc" THEN 1 ELSE -1)
  <2>1. Pair(c, i.dst.reg) \in Int
    BY <1>1, PairTyped, Numbers, Zenon DEF WordNames
  <2>2. v \in Int
    BY <2>1
  <2>3. executeIncDec(c, i) = SetPair(c, i.dst.reg, v)
    BY <1>1 DEF executeIncDec
  <2> HIDE DEF v
  <2> QED BY <1>1, <2>2, <2>3, SetPairSteady, Zenon DEF WordNames
<1>2. CASE i.dst.kind # "reg16" /\ IsPlace(i.dst)
  <2> DEFINE x == Value8(c, i.dst)
             r == IF i.mn = "inc" THEN do_inc(c.f, x) ELSE do_dec(c.f, x)
             d == Store8(c, i.dst, r.val)
  <2>1. x \in Byte
    BY <1>2, Value8Typed, Zenon DEF IsSource
  <2>2. executeIncDec(c, i) = [d EXCEPT !.f = r.f]
    BY <1>2 DEF executeIncDec
  <2> HIDE DEF x
  <2>3. ByteResult(r)
    BY <2>1, FlagsOf, IncTyped, DecTyped, Zenon
  <2> HIDE DEF r
  <2>4. Level(c, d)
    BY <1>2, <2>3, Store8Level, Zenon DEF ByteResult
  <2> HIDE DEF d
  <2>5. Level(d, [d EXCEPT !.f = r.f])
    BY <2>3, <2>4, CpuFlags, Zenon DEF Level, ByteResult
  <2> QED BY <2>2, <2>4, <2>5, LevelSteady, SteadyOn, Zenon
<1> QED BY <1>1, <1>2, Zenon DEF Counts
LEMMA StoresWord ==
  ASSUME NEW c, IsCpu(c), NEW a \in Int, NEW v \in Int
  PROVE  Level(c, mem_write(mem_write(c, a, v), a + 1, v \div 256))
<1> DEFINE d == mem_write(c, a, v)
           b == a + 1
           hi == v \div 256
<1>1. b \in Int /\ hi \in Int
  OBVIOUS
<1>2. Level(c, d)
  BY MemWriteLevel, Zenon
<1> HIDE DEF d, b, hi
<1>3. Level(d, mem_write(d, b, hi))
  BY <1>1, <1>2, MemWriteLevel, LevelSteady, Zenon
<1>4. Level(c, mem_write(d, b, hi))
  BY <1>2, <1>3, LevelOn, Zenon
<1> QED BY <1>4 DEF d, b, hi
LEMMA LdWordSteady ==
  ASSUME NEW c, IsCpu(c), NEW i, LoadsWord(i)
  PROVE  Steady(c, executeLd(c, i))
<1>1. CASE i.dst.kind = "abs" /\ i.dst.val \in Addresses /\ i.src.kind = "reg16" /\ i.src.reg \in WordNames
  <2> DEFINE a == i.dst.val
             v == Pair(c, i.src.reg)
  <2>1. a \in Int /\ v \in Int
    BY <1>1, PairTyped, Numbers, Zenon DEF WordNames
  <2>2. executeLd(c, i) = mem_write(mem_write(c, a, v), a + 1, v \div 256)
    BY <1>1 DEF executeLd
  <2> HIDE DEF a, v
  <2>3. Level(c, executeLd(c, i))
    BY <2>1, <2>2, StoresWord
  <2> QED BY <2>3, LevelSteady, Zenon
<1>2. CASE i.dst.kind = "reg16" /\ i.dst.reg \in WordNames /\ i.src.kind \in {"abs", "imm"} /\ i.src.val \in Addresses
  <2>1. WordAt(c.mem, i.src.val) \in Int /\ i.src.val \in Int
    BY <1>2, CpuParts, WordAtTyped, Numbers, Zenon
  <2>2. executeLd(c, i) = SetPair(c, i.dst.reg, WordAt(c.mem, i.src.val)) \/ executeLd(c, i) = SetPair(c, i.dst.reg, i.src.val)
    BY <1>2 DEF executeLd
  <2> QED BY <1>2, <2>1, <2>2, SetPairSteady, Zenon DEF WordNames
<1>3. CASE i.dst.kind = "reg16" /\ i.dst.reg \in WordNames /\ i.src.kind = "reg16" /\ i.src.reg \in WordNames
  <2>1. Pair(c, i.src.reg) \in Int
    BY <1>3, PairTyped, Numbers, Zenon DEF WordNames
  <2>2. executeLd(c, i) = SetPair(c, i.dst.reg, Pair(c, i.src.reg))
    BY <1>3 DEF executeLd
  <2> QED BY <1>3, <2>1, <2>2, SetPairSteady, Zenon DEF WordNames
<1> QED BY <1>1, <1>2, <1>3, Zenon DEF LoadsWord
LEMMA LdByteSteady ==
  ASSUME NEW c, IsCpu(c), NEW i, LoadsByte(i)
  PROVE  Steady(c, executeLd(c, i))
<1> DEFINE e == c.iff2
<1>1. e \in {0, 1} /\ c.f \in FlagSets /\ 0 \in {0, 1}
  BY CpuParts, Zenon
<1>2. c.reg.i \in Byte /\ c.reg.r \in Byte
  BY Registers, ByteNames, Zenon
<1>3. CASE i.src = Special("i")
  <2> DEFINE v == c.reg.i
             s == Bit(v, 7)
             z == B01(v = 0)
             f1 == [c.f EXCEPT !.S = s]
             f2 == [f1 EXCEPT !.Z = z]
             f3 == [f2 EXCEPT !.H = 0]
             f4 == [f3 EXCEPT !.P = e]
             f5 == [f4 EXCEPT !.N = 0]
  <2>1. v \in Byte /\ s \in {0, 1} /\ z \in {0, 1}
    <3>1. v \in Int /\ 7 \in Places
      BY <1>2, Numbers DEF Places
    <3> QED BY <1>2, <3>1, BitTyped, B01Typed, Zenon
  <2>2. executeLd(c, i) = [c EXCEPT !.reg.a = v, !.f = f5]
    <3>1. executeLd(c, i) = [c EXCEPT !.reg.a = v, !.f.S = s, !.f.Z = z, !.f.H = 0, !.f.P = e, !.f.N = 0]
      BY <1>3 DEF executeLd, LoadsByte
    <3> QED BY <3>1
  <2> HIDE DEF v, s, z, e
  <2>3. f1 \in FlagSets
    BY <1>1, <2>1, SetFlag
  <2> HIDE DEF f1
  <2>4. f2 \in FlagSets
    BY <2>3, <2>1, SetFlag
  <2> HIDE DEF f2
  <2>5. f3 \in FlagSets
    BY <2>4, <1>1, SetFlag
  <2> HIDE DEF f3
  <2>6. f4 \in FlagSets
    BY <2>5, <1>1, SetFlag
  <2> HIDE DEF f4
  <2>7. f5 \in FlagSets
    BY <2>6, <1>1, SetFlag
  <2> HIDE DEF f5
  <2>8. Level(c, [c EXCEPT !.reg["a"] = v, !.f = f5])
    BY <2>1, <2>7, CpuRegisterFlags
  <2>9. Level(c, executeLd(c, i))
    BY <2>2, <2>8
  <2> QED BY <2>9, LevelSteady, Zenon
<1>4. CASE i.src = Special("r")
  <2> DEFINE v == c.reg.r
             f1 == [c.f EXCEPT !.P = e]
  <2>1. executeLd(c, i) = [c EXCEPT !.reg.a = v, !.f = f1]
    <3>1. executeLd(c, i) = [c EXCEPT !.reg.a = v, !.f.P = e]
      BY <1>4 DEF executeLd, LoadsByte, Special, Operand
    <3> QED BY <3>1
  <2> HIDE DEF e
  <2>2. f1 \in FlagSets /\ v \in Byte
    BY <1>1, <1>2, SetFlag
  <2> HIDE DEF f1, v
  <2>3. Level(c, [c EXCEPT !.reg["a"] = v, !.f = f1])
    BY <2>2, CpuRegisterFlags
  <2>4. Level(c, executeLd(c, i))
    BY <2>1, <2>3
  <2> QED BY <2>4, LevelSteady, Zenon
<1>5. CASE i.src # Special("i") /\ i.src # Special("r")
  <2>1. executeLd(c, i) = Store8(c, i.dst, Value8(c, i.src))
    BY <1>5 DEF executeLd, LoadsByte
  <2> QED BY <2>1, Value8Typed, Store8Level, LevelSteady, Zenon DEF LoadsByte
<1> QED BY <1>3, <1>4, <1>5, Zenon
LEMMA StackSteady ==
  ASSUME NEW c, IsCpu(c), NEW i, Stacks(i)
  PROVE  Steady(c, pushWord(c, Pair(c, i.dst.reg))) /\ Steady(c, SetPair(afterPop(c), i.dst.reg, popped(c)))
<1>1. Pair(c, i.dst.reg) \in Int
  BY PairTyped, Numbers, Zenon DEF Stacks
<1>2. Steady(c, pushWord(c, Pair(c, i.dst.reg)))
  BY <1>1, PushKeeps, Zenon
<1>3. Steady(c, afterPop(c)) /\ IsCpu(afterPop(c)) /\ popped(c) \in Int
  BY PopKeeps, Numbers, Zenon DEF Steady
<1>4. Steady(afterPop(c), SetPair(afterPop(c), i.dst.reg, popped(c)))
  BY <1>3, SetPairSteady, Zenon DEF Stacks
<1> QED BY <1>2, <1>3, <1>4, SteadyOn, Zenon
LEMMA Bit8 ==
  ASSUME NEW v \in Byte, NEW k \in 0..7
  PROVE  /\ Bit(v, k) \in {0, 1}
         /\ v - Bit(v, k) * 2^k \in Byte /\ v + (1 - Bit(v, k)) * 2^k \in Byte
<1>1. v \in 0..255 /\ k \in {0, 1, 2, 3, 4, 5, 6, 7}
  BY DEF Byte
<1>2. Bit(v, k) \in {0, 1}
  <2>1. v \in Int /\ k \in Places
    BY Numbers DEF Places
  <2> QED BY <2>1, BitTyped, Zenon
<1>3. v - ((v \div 2^k) % 2) * 2^k \in 0..255 /\ v + (1 - ((v \div 2^k) % 2)) * 2^k \in 0..255
  <2>0. CASE k = 0
    BY <1>1, <2>0, Powers
  <2>1. CASE k = 1
    BY <1>1, <2>1, Powers
  <2>2. CASE k = 2
    BY <1>1, <2>2, Powers
  <2>3. CASE k = 3
    BY <1>1, <2>3, Powers
  <2>4. CASE k = 4
    BY <1>1, <2>4, Powers
  <2>5. CASE k = 5
    BY <1>1, <2>5, Powers
  <2>6. CASE k = 6
    BY <1>1, <2>6, Powers
  <2>7. CASE k = 7
    BY <1>1, <2>7, Powers
  <2> QED BY <1>1, <2>0, <2>1, <2>2, <2>3, <2>4, <2>5, <2>6, <2>7
<1> QED BY <1>2, <1>3 DEF Bit, Byte
CbStored(c, i, w) == LET s == Store8(c, i.src, w) IN IF i.dst = None THEN s ELSE Store8(s, i.dst, w)
LEMMA CbStoredLevel ==
  ASSUME NEW c, IsCpu(c), NEW i, IsPlace(i.src), i.dst = None \/ IsPlace(i.dst), NEW w \in Byte
  PROVE  Level(c, CbStored(c, i, w))
<1> DEFINE s == Store8(c, i.src, w)
<1>1. Level(c, s) /\ IsCpu(s)
  BY Store8Level, LevelSteady, Zenon
<1>2. CbStored(c, i, w) = IF i.dst = None THEN s ELSE Store8(s, i.dst, w)
  BY DEF CbStored
<1> HIDE DEF s
<1>3. IsPlace(i.dst) => Level(s, Store8(s, i.dst, w))
  BY <1>1, Store8Level, Zenon
<1> QED BY <1>1, <1>2, <1>3, LevelOn, Zenon
LEMMA CbSteady ==
  ASSUME NEW c, IsCpu(c), NEW i, TurnsBits(i)
  PROVE  Steady(c, executeCb(c, i))
<1> DEFINE v == Value8(c, i.src)
           turned == do_rotate(i.mn, v, c.f.C)
           zero == B01(Bit(v, i.arg) = 0)
           cleared == v - Bit(v, i.arg) * 2^i.arg
           raised == v + (1 - Bit(v, i.arg)) * 2^i.arg
<1>1. v \in Byte
  BY Value8Typed, Zenon DEF TurnsBits, IsSource
<1> HIDE DEF v
<1>2. zero \in {0, 1} /\ cleared \in Byte /\ raised \in Byte
  BY <1>1, Bit8, B01Typed, Zenon DEF TurnsBits
<1>3. CASE i.mn = "bit"
  <2> DEFINE s == B01(i.arg = 7 /\ zero = 0)
             f1 == [c.f EXCEPT !.Z = zero]
             f2 == [f1 EXCEPT !.P = zero]
             f3 == [f2 EXCEPT !.H = 1]
             f4 == [f3 EXCEPT !.N = 0]
             f5 == [f4 EXCEPT !.S = s]
  <2>1. executeCb(c, i) = [c EXCEPT !.f = f5]
    <3>1. executeCb(c, i) = [c EXCEPT !.f.Z = zero, !.f.P = zero, !.f.H = 1, !.f.N = 0, !.f.S = s]
      BY <1>3 DEF executeCb, v
    <3> QED BY <3>1
  <2>2. s \in {0, 1} /\ 0 \in {0, 1} /\ 1 \in {0, 1} /\ c.f \in FlagSets
    BY B01Typed, FlagsOf, Zenon
  <2> HIDE DEF s, zero
  <2>3. f1 \in FlagSets
    BY <1>2, <2>2, SetFlag
  <2> HIDE DEF f1
  <2>4. f2 \in FlagSets
    BY <1>2, <2>3, SetFlag
  <2> HIDE DEF f2
  <2>5. f3 \in FlagSets
    BY <2>2, <2>4, SetFlag
  <2> HIDE DEF f3
  <2>6. f4 \in FlagSets
    BY <2>2, <2>5, SetFlag
  <2> HIDE DEF f4
  <2>7. f5 \in FlagSets
    BY <2>2, <2>6, SetFlag
  <2> HIDE DEF f5
  <2> QED BY <2>1, <2>7, CpuFlags, LevelSteady, Zenon
<1>4. CASE i.mn = "res"
  <2>1. executeCb(c, i) = CbStored(c, i, cleared)
    BY <1>4 DEF executeCb, CbStored, v
  <2> QED BY <1>2, <2>1, CbStoredLevel, LevelSteady, Zenon DEF TurnsBits
<1>5. CASE i.mn = "set"
  <2>1. executeCb(c, i) = CbStored(c, i, raised)
    BY <1>5 DEF executeCb, CbStored, v
  <2> QED BY <1>2, <2>1, CbStoredLevel, LevelSteady, Zenon DEF TurnsBits
<1>6. CASE i.mn \in RotateMnemonics
  <2> DEFINE d == CbStored(c, i, turned.val)
             f == setRotateFlags(turned.val, turned.out)
  <2>1. RotateResult(turned)
    BY <1>1, <1>6, FlagsOf, RotateTyped, Zenon
  <2>2. executeCb(c, i) = [d EXCEPT !.f = f]
    BY <1>6 DEF executeCb, CbStored, v, RotateMnemonics
  <2> HIDE DEF turned
  <2>3. Level(c, d) /\ IsCpu(d)
    BY <2>1, CbStoredLevel, LevelSteady, Zenon DEF TurnsBits, RotateResult
  <2>4. f \in FlagSets
    BY <2>1, RotateFlagsTyped, Zenon DEF RotateResult
  <2> HIDE DEF d, f
  <2>5. Level(d, [d EXCEPT !.f = f])
    BY <2>3, <2>4, CpuFlags, Zenon
  <2> QED BY <2>2, <2>3, <2>5, LevelOn, LevelSteady, Zenon
<1> QED BY <1>3, <1>4, <1>5, <1>6, Zenon DEF TurnsBits

LEMMA ExSteady ==
  ASSUME NEW c, IsCpu(c), NEW i, Exchanges(i)
  PROVE  Steady(c, executeEx(c, i))
<1>1. CASE i.src.reg = "af"
  <2> DEFINE r == [c.reg EXCEPT !["a"] = c.alt["a"]]
             l == [c.alt EXCEPT !["a"] = c.reg["a"]]
             f == c.altF
             g == c.f
  <2>1. executeEx(c, i) = [c EXCEPT !.reg = r, !.alt = l, !.f = f, !.altF = g]
    BY <1>1 DEF executeEx
  <2>2. f \in FlagSets /\ g \in FlagSets
    BY CpuParts, Zenon
  <2>3. r \in RegisterSets
    <3>1. c.alt \in [Bytes8 -> Byte] /\ "a" \in Bytes8
      BY CpuParts DEF Bytes8
    <3>2. c.alt["a"] \in Byte
      BY <3>1
    <3> QED BY <3>2, CpuParts, RegisterSetTo
  <2>4. l \in [Bytes8 -> Byte]
    BY FlagsOf, CpuParts
  <2> HIDE DEF r, l, f, g
  <2>5. Steady(c, [c EXCEPT !.reg = r, !.alt = l, !.f = f, !.altF = g])
    BY <2>2, <2>3, <2>4 DEF IsCpu, CpuFields, Steady, RegisterSets, FlagSets
  <2> QED BY <2>1, <2>5
<1>2. CASE i.src.reg # "af" /\ i.dst = R16("de")
  <2> DEFINE v == Pair(c, "hl")
             w == Pair(c, "de")
             d == SetPair(c, "de", v)
  <2>1. "de" \in PairNames /\ "hl" \in PairNames
    BY DEF PairNames, Numbered
  <2>2. v \in Int /\ w \in Int
    BY <2>1, PairTyped, Numbers, Zenon
  <2>3. executeEx(c, i) = SetPair(d, "hl", w)
    BY <1>2 DEF executeEx
  <2> HIDE DEF v, w
  <2>4. Level(c, d) /\ IsCpu(d)
    BY <2>1, <2>2, SetPairLevel, LevelSteady, Zenon
  <2> HIDE DEF d
  <2>5. Level(d, SetPair(d, "hl", w))
    BY <2>1, <2>2, <2>4, SetPairLevel, Zenon
  <2> QED BY <2>3, <2>4, <2>5, LevelOn, LevelSteady, Zenon
<1>3. CASE i.src.reg # "af" /\ i.dst # R16("de")
  <2> DEFINE p == i.src.reg
             a == c.sp
             v == Pair(c, p)
             d == mem_write(mem_write(c, a, v), a + 1, v \div 256)
             w == popped(c)
  <2>1. p \in PairNames
    BY <1>3, Zenon DEF Exchanges, PairNames
  <2>2. a \in Int /\ v \in Int /\ w \in Int
    BY <2>1, CpuParts, PairTyped, PopKeeps, Numbers, Zenon
  <2>3. executeEx(c, i) = SetPair(d, p, w)
    BY <1>3 DEF executeEx, exchangeWithStack
  <2> HIDE DEF a, v, w, p
  <2>4. Level(c, d) /\ IsCpu(d)
    BY <2>2, StoresWord, LevelSteady
  <2> HIDE DEF d
  <2>5. Level(d, SetPair(d, p, w))
    BY <2>1, <2>2, <2>4, SetPairLevel, Zenon
  <2> QED BY <2>3, <2>4, <2>5, LevelOn, LevelSteady, Zenon
<1> QED BY <1>1, <1>2, <1>3, Zenon
LEMMA ExxSteady ==
  ASSUME NEW c, IsCpu(c)
  PROVE  Steady(c, exx(c))
<1> DEFINE set == Bytes8 \ {"a"}
           r == [n \in DOMAIN c.reg |-> IF n \in set THEN c.alt[n] ELSE c.reg[n]]
           l == [n \in DOMAIN c.alt |-> IF n \in set THEN c.reg[n] ELSE c.alt[n]]
<1>1. exx(c) = [c EXCEPT !.reg = r, !.alt = l]
  BY DEF exx
<1>2. c.reg \in [RegisterNames -> Byte] /\ c.alt \in [Bytes8 -> Byte]
  BY CpuParts, Zenon DEF RegisterSets
<1>3. r \in RegisterSets
  BY <1>2 DEF RegisterSets
<1>4. \A n \in Bytes8 : n \in RegisterNames
  BY DEF RegisterNames
<1>5. l \in [Bytes8 -> Byte]
  BY <1>2, <1>4
<1> HIDE DEF r, l
<1>6. Steady(c, [c EXCEPT !.reg = r, !.alt = l])
  BY <1>3, <1>5 DEF IsCpu, CpuFields, Steady, RegisterSets
<1> QED BY <1>1, <1>6
LEMMA ReadTyped == ASSUME NEW c, IsCpu(c), NEW port PROVE io_read(c, port) \in Byte
<1>1. c.ports \in [DOMAIN c.ports -> Byte] /\ 0 \in Byte
  BY CpuParts DEF IsByteMap, Byte
<1> QED BY <1>1 DEF io_read
LEMMA InSteady ==
  ASSUME NEW c, IsCpu(c), NEW i, Inputs1(i)
  PROVE  Steady(c, executeIn(c, i))
<1> DEFINE v == io_read(c, PortOf(c, i.src))
           f == do_in(c.f, v)
           n == i.dst.reg
<1>1. v \in Byte
  BY ReadTyped, Zenon
<1>2. executeIn(c, i) = IF i.src # PortC THEN [c EXCEPT !.reg["a"] = v]
                        ELSE IF i.dst = None THEN [c EXCEPT !.f = f] ELSE [c EXCEPT !.f = f, !.reg[n] = v]
  BY DEF executeIn
<1> HIDE DEF v, n
<1>3. f \in FlagSets
  BY <1>1, FlagsOf, InTyped, Zenon
<1> HIDE DEF f
<1>4. Level(c, [c EXCEPT !.reg["a"] = v])
  BY <1>1, CpuRegister
<1>5. Level(c, [c EXCEPT !.f = f])
  BY <1>3, CpuFlags
<1>6. Level(c, [c EXCEPT !.reg[n] = v, !.f = f])
  BY <1>1, <1>3, CpuRegisterFlags
<1>7. [c EXCEPT !.f = f, !.reg[n] = v] = [c EXCEPT !.reg[n] = v, !.f = f]
  BY CpuParts
<1>8. Level(c, executeIn(c, i))
  BY <1>2, <1>4, <1>5, <1>6, <1>7
<1> QED BY <1>8, LevelSteady, Zenon
LEMMA OutLevel ==
  ASSUME NEW c, IsCpu(c), NEW port, NEW v
  PROVE  Level(c, io_write(c, port, v))
<1> DEFINE o == [port |-> port, val |-> v]
<1>1. io_write(c, port, v) = [c EXCEPT !.output = o]
  BY DEF io_write
<1> HIDE DEF o
<1>2. Level(c, [c EXCEPT !.output = o])
  BY DEF IsCpu, CpuFields, Level
<1> QED BY <1>1, <1>2

(* ---------------------------- blocks and control ------------------------------ *)
LEMMA StepTyped == \A mn : BlockStep(mn) \in Int
  BY DEF BlockStep
LEMMA PairIsNamed == \A p \in {"bc", "de", "hl", "ix", "iy", "af"} : p \in PairNames
  BY DEF PairNames, Numbered
LEMMA PointersLevel ==
  ASSUME NEW c, IsCpu(c), NEW p \in PairNames, NEW v \in Int, NEW q \in PairNames, NEW w \in Int
  PROVE  Level(c, SetPair(SetPair(c, p, v), q, w))
<1> DEFINE d == SetPair(c, p, v)
<1>1. Level(c, d) /\ IsCpu(d)
  BY SetPairLevel, LevelSteady, Zenon
<1> HIDE DEF d
<1>2. Level(d, SetPair(d, q, w))
  BY <1>1, SetPairLevel, Zenon
<1>3. Level(c, SetPair(d, q, w))
  BY <1>1, <1>2, LevelOn, Zenon
<1> QED BY <1>3, Zenon DEF d
LEMMA CopyLevel ==
  ASSUME NEW c, IsCpu(c), NEW d \in Int
  PROVE  Level(c, do_copy(c, d))
<1> DEFINE m == At(c.mem, Pair(c, "hl"))
           a == Pair(c, "de")
           de == Pair(c, "de") + d
           hl == Pair(c, "hl") + d
           bc == Pair(c, "bc") - 1
           moved == mem_write(c, a, m)
           x == SetPair(SetPair(moved, "de", de), "hl", hl)
           next == SetPair(x, "bc", bc)
           p == B01(Pair(next, "bc") # 0)
           f1 == [next.f EXCEPT !.H = 0]
           f2 == [f1 EXCEPT !.N = 0]
           f3 == [f2 EXCEPT !.P = p]
<1>1. Pair(c, "hl") \in Int /\ Pair(c, "de") \in Int /\ Pair(c, "bc") \in Int
  BY PairIsNamed, PairTyped, Numbers, Zenon
<1>2. m \in Int /\ a \in Int
  BY <1>1, CpuParts, AtTyped, Numbers, Zenon
<1>3. de \in Int /\ hl \in Int /\ bc \in Int
  BY <1>1
<1>4. do_copy(c, d) = [next EXCEPT !.f.H = 0, !.f.N = 0, !.f.P = p]
  BY DEF do_copy
<1>5. Level(c, moved) /\ IsCpu(moved)
  BY <1>2, MemWriteLevel, LevelSteady, Zenon
<1> HIDE DEF m, a, de, hl, bc, moved
<1>6. Level(moved, x) /\ IsCpu(x)
  BY <1>3, <1>5, PointersLevel, PairIsNamed, LevelSteady, Zenon
<1> HIDE DEF x
<1>7. Level(x, next) /\ IsCpu(next)
  BY <1>3, <1>6, SetPairLevel, PairIsNamed, LevelSteady, Zenon
<1> HIDE DEF next
<1>8. next.f \in FlagSets /\ p \in {0, 1} /\ 0 \in {0, 1}
  BY <1>7, FlagsOf, B01Typed, Zenon
<1>9. [next EXCEPT !.f.H = 0, !.f.N = 0, !.f.P = p] = [next EXCEPT !.f = f3]
  OBVIOUS
<1> HIDE DEF p
<1>10. f1 \in FlagSets
  BY <1>8, SetFlag
<1> HIDE DEF f1
<1>11. f2 \in FlagSets
  BY <1>8, <1>10, SetFlag
<1> HIDE DEF f2
<1>12. f3 \in FlagSets
  BY <1>8, <1>11, SetFlag
<1> HIDE DEF f3
<1>13. Level(next, [next EXCEPT !.f = f3])
  BY <1>7, <1>12, CpuFlags, Zenon
<1>14. do_copy(c, d) = [next EXCEPT !.f = f3]
  BY <1>4, <1>9
<1> QED BY <1>5, <1>6, <1>7, <1>13, <1>14, LevelOn, Zenon
LEMMA SearchLevel ==
  ASSUME NEW c, IsCpu(c), NEW d \in Int
  PROVE  Level(c, do_search(c, d))
<1> DEFINE a == c.reg.a
           m == At(c.mem, Pair(c, "hl"))
           compared == do_sbc(a, m, 0)
           hl == Pair(c, "hl") + d
           bc == Pair(c, "bc") - 1
           next == SetPair(SetPair(c, "hl", hl), "bc", bc)
           cy == c.f.C
           p == B01(Pair(c, "bc") # 1)
           f0 == compared.f
           f1 == [f0 EXCEPT !.C = cy]
           f2 == [f1 EXCEPT !.P = p]
<1>1. Pair(c, "hl") \in Int /\ Pair(c, "bc") \in Int
  BY PairIsNamed, PairTyped, Numbers, Zenon
<1>2. a \in Int /\ m \in Int /\ 0 \in Int
  BY FlagsOf, CpuParts, AtTyped, Numbers, Zenon
<1>3. hl \in Int /\ bc \in Int
  BY <1>1
<1>4. do_search(c, d) = [next EXCEPT !.f = f2]
  BY DEF do_search
<1>5. p \in {0, 1} /\ cy \in {0, 1}
  BY FlagsOf, B01Typed, Zenon
<1> HIDE DEF hl, bc, a, m, cy, p
<1>6. Level(c, next) /\ IsCpu(next)
  BY <1>3, PointersLevel, PairIsNamed, LevelSteady, Zenon
<1>7. f0 \in FlagSets
  BY <1>2, SbcTyped, Zenon DEF ByteResult
<1> HIDE DEF next, f0
<1>8. f1 \in FlagSets
  BY <1>5, <1>7, SetFlag
<1> HIDE DEF f1
<1>9. f2 \in FlagSets
  BY <1>5, <1>8, SetFlag
<1> HIDE DEF f2
<1>10. Level(next, [next EXCEPT !.f = f2])
  BY <1>6, <1>9, CpuFlags, Zenon
<1> QED BY <1>4, <1>6, <1>10, LevelOn, Zenon
LEMMA BlockInLevel ==
  ASSUME NEW c, IsCpu(c), NEW d \in Int
  PROVE  Level(c, do_block_in(c, d))
<1> DEFINE b == c.reg.b
           r == do_dec(c.f, b)
           v == r.val
           f == r.f
           counted == [c EXCEPT !.reg.b = v, !.f = f]
           a == Pair(c, "hl")
           n == io_read(counted, Pair(counted, "bc"))
           s == mem_write(counted, a, n)
           hl == Pair(c, "hl") + d
<1>1. b \in Byte /\ c.f \in FlagSets /\ a \in Int /\ Pair(c, "hl") \in Int
  BY FlagsOf, PairIsNamed, PairTyped, Numbers, Zenon
<1>2. hl \in Int
  BY <1>1
<1>3. do_block_in(c, d) = SetPair(s, "hl", hl)
  BY DEF do_block_in
<1> HIDE DEF b, a, hl
<1>4. v \in Byte /\ f \in FlagSets
  BY <1>1, DecTyped, Zenon DEF ByteResult
<1> HIDE DEF v, f
<1>5. Level(c, counted)
  <2>1. Level(c, [c EXCEPT !.reg["b"] = v, !.f = f])
    BY <1>4, CpuRegisterFlags
  <2> QED BY <2>1
<1>6. IsCpu(counted)
  BY <1>5, LevelSteady, Zenon
<1> HIDE DEF counted
<1>7. n \in Int
  BY <1>6, ReadTyped, Numbers, Zenon
<1> HIDE DEF n
<1>8. Level(counted, s) /\ IsCpu(s)
  BY <1>1, <1>6, <1>7, MemWriteLevel, LevelSteady, Zenon
<1> HIDE DEF s
<1>9. Level(s, SetPair(s, "hl", hl))
  BY <1>2, <1>8, SetPairLevel, PairIsNamed, Zenon
<1> QED BY <1>3, <1>5, <1>8, <1>9, LevelOn, Zenon
LEMMA BlockOutLevel ==
  ASSUME NEW c, IsCpu(c), NEW d \in Int
  PROVE  Level(c, do_block_out(c, d))
<1> DEFINE b == c.reg.b
           r == do_dec(c.f, b)
           v == r.val
           f == r.f
           port == Pair(c, "bc")
           m == At(c.mem, Pair(c, "hl"))
           s == io_write(c, port, m)
           hl == Pair(c, "hl") + d
           t == SetPair(s, "hl", hl)
<1>1. b \in Byte /\ c.f \in FlagSets /\ Pair(c, "hl") \in Int
  BY FlagsOf, PairIsNamed, PairTyped, Numbers, Zenon
<1>2. hl \in Int
  BY <1>1
<1>3. do_block_out(c, d) = [t EXCEPT !.reg.b = v, !.f = f]
  BY DEF do_block_out
<1> HIDE DEF b, hl, port, m
<1>4. v \in Byte /\ f \in FlagSets
  BY <1>1, DecTyped, Zenon DEF ByteResult
<1> HIDE DEF v, f
<1>5. Level(c, s) /\ IsCpu(s)
  BY OutLevel, LevelSteady, Zenon
<1> HIDE DEF s
<1>6. Level(s, t) /\ IsCpu(t)
  BY <1>2, <1>5, SetPairLevel, PairIsNamed, LevelSteady, Zenon
<1> HIDE DEF t
<1>7. Level(t, [t EXCEPT !.reg["b"] = v, !.f = f])
  BY <1>4, <1>6, CpuRegisterFlags
<1>8. Level(t, do_block_out(c, d))
  BY <1>3, <1>7
<1> QED BY <1>5, <1>6, <1>8, LevelOn, Zenon
BlockTransfers == Copies \cup Searches \cup Inputs \cup Outputs
(* A block instruction keeps the stack pointer, and PC or goes back over itself.   *)
Repeats(c, d) == IsCpu(d) /\ d.sp = c.sp /\ d.pc \in {c.pc, (c.pc - 2) % 65536}
LEMMA BlockRepeats ==
  ASSUME NEW c, IsCpu(c), NEW mn \in BlockTransfers
  PROVE  Repeats(c, executeBlock(c, mn))
<1> DEFINE d == BlockStep(mn)
           done == CASE mn \in Copies -> do_copy(c, d)
                     [] mn \in Searches -> do_search(c, d)
                     [] mn \in Inputs -> do_block_in(c, d)
                     [] mn \in Outputs -> do_block_out(c, d)
           back == (done.pc - 2) % 65536
<1>1. d \in Int
  BY StepTyped, Zenon
<1>2. executeBlock(c, mn) = IF mn \in Repeating /\ Continues(done, mn) THEN [done EXCEPT !.pc = back] ELSE done
  BY DEF executeBlock
<1> HIDE DEF d
<1>3. mn \notin Copies \/ (mn \notin Searches /\ mn \notin Inputs /\ mn \notin Outputs)
  BY DEF Copies, Searches, Inputs, Outputs
<1>4. mn \notin Searches \/ (mn \notin Copies /\ mn \notin Inputs /\ mn \notin Outputs)
  BY DEF Copies, Searches, Inputs, Outputs
<1>5. mn \notin Inputs \/ mn \notin Outputs
  BY DEF Inputs, Outputs
<1>6. Level(c, done)
  <2>1. CASE mn \in Copies
    <3>1. done = do_copy(c, d)
      BY <1>3, <2>1
    <3> QED BY <1>1, <3>1, CopyLevel, Zenon
  <2>2. CASE mn \in Searches
    <3>1. done = do_search(c, d)
      BY <1>4, <2>2
    <3> QED BY <1>1, <3>1, SearchLevel, Zenon
  <2>3. CASE mn \in Inputs
    <3>1. done = do_block_in(c, d)
      BY <1>3, <1>4, <1>5, <2>3
    <3> QED BY <1>1, <3>1, BlockInLevel, Zenon
  <2>4. CASE mn \in Outputs
    <3>1. done = do_block_out(c, d)
      BY <1>3, <1>4, <1>5, <2>4
    <3> QED BY <1>1, <3>1, BlockOutLevel, Zenon
  <2> QED BY <2>1, <2>2, <2>3, <2>4, Zenon DEF BlockTransfers
<1> HIDE DEF done
<1>7. IsCpu(done) /\ done.pc = c.pc /\ done.sp = c.sp
  BY <1>6, Zenon DEF Level
<1>8. back \in Addresses
  <2>1. done.pc \in Int
    BY <1>7, CpuParts, Numbers, Zenon
  <2> QED BY <2>1, LowTyped
<1>9. back = (c.pc - 2) % 65536
  BY <1>7
<1> HIDE DEF back
<1>10. IsCpu([done EXCEPT !.pc = back]) /\ [done EXCEPT !.pc = back].sp = done.sp
  BY <1>7, <1>8, CpuPc, Zenon
<1>11. [done EXCEPT !.pc = back].pc = back
  BY <1>7, CpuParts DEF CpuFields
<1> DEFINE e == [done EXCEPT !.pc = back]
<1>12. IsCpu(e) /\ e.sp = c.sp /\ e.pc = back
  BY <1>7, <1>10, <1>11, Zenon
<1>13. executeBlock(c, mn) = done \/ executeBlock(c, mn) = e
  BY <1>2
<1> HIDE DEF e
<1> QED BY <1>7, <1>9, <1>12, <1>13 DEF Repeats

TargetMnemonics == {"jp", "jr", "call", "rst", "djnz"}
ReturnMnemonics == {"ret", "reti", "retn"}
Controls(i) ==
  \/ i.mn \in ReturnMnemonics
  \/ /\ i.mn \in TargetMnemonics
     /\ (i.src.kind = "reg16" /\ i.src.reg \in PairNames) \/ (i.src.kind # "reg16" /\ i.src.val \in Addresses)
JumpAddress(c, i) == IF i.src.kind = "reg16" THEN Pair(c, i.src.reg) ELSE i.src.val
LEMMA JumpTyped ==
  ASSUME NEW c, IsCpu(c), NEW a \in Addresses
  PROVE  IsCpu(Jump(c, a)) /\ Jump(c, a).sp = c.sp /\ Jump(c, a).pc = a /\ Jump(c, a).mem = c.mem
<1>1. Jump(c, a) = [c EXCEPT !.pc = a]
  BY DEF Jump
<1>2. [c EXCEPT !.pc = a].pc = a /\ [c EXCEPT !.pc = a].mem = c.mem
  BY CpuParts DEF CpuFields
<1> QED BY <1>1, <1>2, CpuPc
LEMMA ReturnTyped ==
  ASSUME NEW c, IsCpu(c)
  PROVE  IsCpu(Return(c)) /\ Return(c).sp = afterPop(c).sp /\ Return(c).pc = popped(c) /\ Return(c).mem = afterPop(c).mem
<1>1. IsCpu(afterPop(c)) /\ popped(c) \in Addresses
  BY PopKeeps, Zenon DEF Steady
<1> QED BY <1>1, JumpTyped, Zenon DEF Return
LEMMA CpuIff ==
  ASSUME NEW c, IsCpu(c), NEW x \in {0, 1}
  PROVE  /\ IsCpu([c EXCEPT !.iff1 = x]) /\ [c EXCEPT !.iff1 = x].sp = c.sp /\ [c EXCEPT !.iff1 = x].pc = c.pc
         /\ [c EXCEPT !.iff1 = x].mem = c.mem
  BY DEF IsCpu, CpuFields
LEMMA TargetTyped ==
  ASSUME NEW c, IsCpu(c), NEW i, Controls(i), i.mn \in TargetMnemonics
  PROVE  JumpAddress(c, i) \in Addresses
<1>1. i.mn \notin ReturnMnemonics
  BY DEF TargetMnemonics, ReturnMnemonics
<1>2. i.src.kind = "reg16" => Pair(c, i.src.reg) \in Addresses
  BY <1>1, PairTyped, Zenon DEF Controls
<1>3. i.src.kind # "reg16" => i.src.val \in Addresses
  BY <1>1, Zenon DEF Controls
<1> QED BY <1>2, <1>3, Zenon DEF JumpAddress
LEMMA JumpsKeepStack ==
  ASSUME NEW c, IsCpu(c), NEW i, Controls(i), i.mn \in {"jp", "jr", "djnz"}
  PROVE  IsCpu(executeControl(c, i)) /\ executeControl(c, i).sp = c.sp
<1> DEFINE target == JumpAddress(c, i)
           v == (c.reg.b - 1) % 256
           counted == [c EXCEPT !.reg.b = v]
<1>1. target \in Addresses
  BY TargetTyped DEF TargetMnemonics
<1>2. IsCpu(Jump(c, target)) /\ Jump(c, target).sp = c.sp
  BY <1>1, JumpTyped, Zenon
<1>3. v \in Byte
  <2>1. c.reg.b \in Int
    BY FlagsOf, Numbers, Zenon
  <2> QED BY <2>1 DEF Byte
<1>4. CASE i.mn = "djnz"
  <2>1. executeControl(c, i) = IF counted.reg.b = 0 THEN counted ELSE Jump(counted, target)
    BY <1>4 DEF executeControl, JumpAddress
  <2> HIDE DEF v
  <2>2. Level(c, [c EXCEPT !.reg["b"] = v])
    BY <1>3, CpuRegister
  <2>3. Level(c, counted)
    BY <2>2
  <2> HIDE DEF counted, target
  <2>4. IsCpu(counted) /\ counted.sp = c.sp
    BY <2>3, Zenon DEF Level
  <2>5. IsCpu(Jump(counted, target)) /\ Jump(counted, target).sp = counted.sp
    BY <1>1, <2>4, JumpTyped, Zenon
  <2> QED BY <2>1, <2>4, <2>5
<1>5. CASE i.mn \in {"jp", "jr"}
  <2>1. executeControl(c, i) = IF ~Holds(c.f, i.arg) THEN c ELSE Jump(c, target)
    BY <1>5 DEF executeControl, JumpAddress
  <2> HIDE DEF target
  <2> QED BY <1>2, <2>1
<1> QED BY <1>4, <1>5
LEMMA CallTyped ==
  ASSUME NEW c, IsCpu(c), NEW a \in Addresses
  PROVE  IsCpu(Jump(pushWord(c, c.pc), a)) /\ Jump(pushWord(c, c.pc), a).sp = pushWord(c, c.pc).sp
         /\ Jump(pushWord(c, c.pc), a).mem = pushWord(c, c.pc).mem
<1>1. IsCpu(pushWord(c, c.pc))
  BY CpuParts, Numbers, PushKeeps, Zenon DEF Steady
<1> QED BY <1>1, JumpTyped, Zenon
LEMMA CallTaken ==
  ASSUME NEW c, IsCpu(c)
  PROVE  \E a \in Addresses : do_call(c) = Jump(pushWord(c, c.pc), a)
<1> DEFINE pushed == pushWord(c, c.pc)
           a == WordAt(pushed.mem, c.pc - 2)
<1>1. IsByteMap(pushed.mem)
  <2>1. IsCpu(pushed)
    BY CpuParts, Numbers, PushKeeps, Zenon DEF Steady
  <2> QED BY <2>1, CpuParts, Zenon
<1>2. do_call(c) = Jump(pushed, a)
  BY DEF do_call
<1> HIDE DEF pushed
<1>3. a \in Addresses
  BY <1>1, WordAtTyped
<1> HIDE DEF a
<1> QED BY <1>2, <1>3 DEF pushed
LEMMA ControlTyped ==
  ASSUME NEW c, IsCpu(c), NEW i, Controls(i)
  PROVE  IsCpu(executeControl(c, i))
<1>1. CASE i.mn \in {"jp", "jr", "djnz"}
  BY <1>1, JumpsKeepStack, Zenon
<1>2. CASE i.mn \in {"call", "rst"}
  <2> DEFINE target == JumpAddress(c, i)
  <2>1. target \in Addresses
    BY <1>2, TargetTyped DEF TargetMnemonics
  <2>2. \/ executeControl(c, i) = c
        \/ executeControl(c, i) = Jump(pushWord(c, c.pc), target)
        \/ executeControl(c, i) = do_call(c)
    BY <1>2 DEF executeControl, JumpAddress
  <2>3. PICK a \in Addresses : do_call(c) = Jump(pushWord(c, c.pc), a)
    BY CallTaken, Zenon
  <2> QED BY <2>1, <2>2, <2>3, CallTyped, Zenon
<1>3. CASE i.mn \in ReturnMnemonics
  <2> DEFINE e == c.iff2
             d == Return(c)
  <2>1. executeControl(c, i) = c \/ executeControl(c, i) = d \/ executeControl(c, i) = [d EXCEPT !.iff1 = e]
    BY <1>3 DEF executeControl, ReturnMnemonics
  <2>2. e \in {0, 1}
    BY CpuParts, Zenon
  <2>3. IsCpu(d)
    BY ReturnTyped, Zenon
  <2> HIDE DEF d, e
  <2> QED BY <2>1, <2>2, <2>3, CpuIff, Zenon
<1>4. TargetMnemonics = {"jp", "jr", "djnz"} \cup {"call", "rst"}
  BY DEF TargetMnemonics
<1> QED BY <1>1, <1>2, <1>3, <1>4, Zenon DEF Controls

(* ------------------------- instructions on nothing else ----------------------- *)
CoreNames == {"nop", "halt", "di", "ei", "scf", "ccf", "cpl", "daa", "neg", "exx", "rrd", "rld", "rlca", "rrca", "rla", "rra"}
LEMMA SwitchSteady ==
  ASSUME NEW c, IsCpu(c)
  PROVE  /\ Steady(c, [c EXCEPT !.halted = TRUE]) /\ Steady(c, [c EXCEPT !.di = TRUE])
         /\ Steady(c, [c EXCEPT !.ei = TRUE])
<1>1. Steady(c, [c EXCEPT !.halted = TRUE])
  BY DEF IsCpu, CpuFields, Steady
<1>2. Steady(c, [c EXCEPT !.di = TRUE])
  BY DEF IsCpu, CpuFields, Steady
<1>3. Steady(c, [c EXCEPT !.ei = TRUE])
  BY DEF IsCpu, CpuFields, Steady
<1> QED BY <1>1, <1>2, <1>3, Zenon
LEMMA CarrySteady ==
  ASSUME NEW c, IsCpu(c), NEW x \in {0, 1}, NEW h \in {0, 1}
  PROVE  Steady(c, [c EXCEPT !.f.C = x, !.f.H = h, !.f.N = 0])
<1> DEFINE f1 == [c.f EXCEPT !.C = x]
           f2 == [f1 EXCEPT !.H = h]
           f3 == [f2 EXCEPT !.N = 0]
<1>1. [c EXCEPT !.f.C = x, !.f.H = h, !.f.N = 0] = [c EXCEPT !.f = f3]
  OBVIOUS
<1>2. c.f \in FlagSets /\ 0 \in {0, 1}
  BY CpuParts, Zenon
<1>3. f1 \in FlagSets
  BY <1>2, SetFlag
<1> HIDE DEF f1
<1>4. f2 \in FlagSets
  BY <1>3, SetFlag
<1> HIDE DEF f2
<1>5. f3 \in FlagSets
  BY <1>2, <1>4, SetFlag
<1> HIDE DEF f3
<1>6. Steady(c, [c EXCEPT !.f = f3])
  BY <1>5, CpuFlags, LevelSteady, Zenon
<1> QED BY <1>1, <1>6
LEMMA CplSteady ==
  ASSUME NEW c, IsCpu(c)
  PROVE  Steady(c, executeCore(c, "cpl"))
<1> DEFINE v == 255 - c.reg.a
           f1 == [c.f EXCEPT !.H = 1]
           f2 == [f1 EXCEPT !.N = 1]
<1>1. executeCore(c, "cpl") = [c EXCEPT !.reg.a = v, !.f = f2]
  <2>1. executeCore(c, "cpl") = [c EXCEPT !.reg.a = v, !.f.H = 1, !.f.N = 1]
    BY DEF executeCore
  <2> QED BY <2>1
<1>2. v \in Byte
  <2>1. c.reg.a \in Byte
    BY FlagsOf, Zenon
  <2> QED BY <2>1 DEF Byte
<1>3. c.f \in FlagSets /\ 1 \in {0, 1}
  BY CpuParts, Zenon
<1> HIDE DEF v
<1>4. f1 \in FlagSets
  BY <1>3, SetFlag
<1> HIDE DEF f1
<1>5. f2 \in FlagSets
  BY <1>3, <1>4, SetFlag
<1> HIDE DEF f2
<1>6. Level(c, [c EXCEPT !.reg["a"] = v, !.f = f2])
  BY <1>2, <1>5, CpuRegisterFlags
<1>7. Level(c, executeCore(c, "cpl"))
  BY <1>1, <1>6
<1> QED BY <1>7, LevelSteady, Zenon
LEMMA RotateASteady ==
  ASSUME NEW c, IsCpu(c), NEW mn \in RotateMnemonics
  PROVE  Steady(c, rotateA(c, mn))
<1> DEFINE r == do_rotate(mn, c.reg.a, c.f.C)
           v == r.val
           out == r.out
           f1 == [c.f EXCEPT !.H = 0]
           f2 == [f1 EXCEPT !.N = 0]
           f3 == [f2 EXCEPT !.C = out]
<1>1. rotateA(c, mn) = [c EXCEPT !.reg.a = v, !.f = f3]
  <2>1. rotateA(c, mn) = [c EXCEPT !.reg.a = v, !.f.H = 0, !.f.N = 0, !.f.C = out]
    BY DEF rotateA
  <2> HIDE DEF r
  <2> QED BY <2>1
<1>2. RotateResult(r)
  BY FlagsOf, RotateTyped, Zenon
<1> HIDE DEF r
<1>3. c.f \in FlagSets /\ 0 \in {0, 1} /\ v \in Byte /\ out \in {0, 1}
  BY <1>2, CpuParts, Zenon DEF RotateResult
<1> HIDE DEF v, out
<1>4. f1 \in FlagSets
  BY <1>3, SetFlag
<1> HIDE DEF f1
<1>5. f2 \in FlagSets
  BY <1>3, <1>4, SetFlag
<1> HIDE DEF f2
<1>6. f3 \in FlagSets
  BY <1>3, <1>5, SetFlag
<1> HIDE DEF f3
<1>7. Level(c, [c EXCEPT !.reg["a"] = v, !.f = f3])
  BY <1>3, <1>6, CpuRegisterFlags
<1>8. Level(c, rotateA(c, mn))
  BY <1>1, <1>7
<1> QED BY <1>8, LevelSteady, Zenon
LEMMA DigitsSteady ==
  ASSUME NEW c, IsCpu(c), NEW mn
  PROVE  Steady(c, rotateDigits(c, mn))
<1> DEFINE hl == Pair(c, "hl")
           m == At(c.mem, hl)
           a == c.reg.a
           digit == IF mn = "rrd" THEN m % 16 ELSE m \div 16
           left == IF mn = "rrd" THEN (m \div 16) + 16 * (a % 16) ELSE 16 * (m % 16) + (a % 16)
           v == 16 * (a \div 16) + digit
           d == mem_write(c, hl, left)
           f == do_in(c.f, v)
<1>1. hl \in Int /\ m \in Byte /\ a \in Byte /\ c.f \in FlagSets
  BY PairIsNamed, PairTyped, Numbers, FlagsOf, CpuParts, AtTyped, Zenon
<1>2. rotateDigits(c, mn) = [d EXCEPT !.reg.a = v, !.f = f]
  BY DEF rotateDigits
<1> HIDE DEF hl, m, a
<1>3. digit \in 0..15 /\ a \div 16 \in 0..15 /\ left \in Int
  BY <1>1 DEF Byte
<1> HIDE DEF digit, left
<1>4. v \in Byte
  BY <1>3 DEF Byte
<1> HIDE DEF v
<1>5. f \in FlagSets
  BY <1>1, <1>4, InTyped, Zenon
<1> HIDE DEF f
<1>6. Level(c, d) /\ IsCpu(d)
  BY <1>1, <1>3, MemWriteLevel, LevelSteady, Zenon
<1> HIDE DEF d
<1>7. Level(d, [d EXCEPT !.reg["a"] = v, !.f = f])
  BY <1>4, <1>5, <1>6, CpuRegisterFlags
<1>8. Level(d, rotateDigits(c, mn))
  BY <1>2, <1>7
<1> QED BY <1>6, <1>8, LevelOn, LevelSteady, Zenon
LEMMA Turning == \A m \in {"rlc", "rrc", "rl", "rr"} : m \in RotateMnemonics
  BY DEF RotateMnemonics
LEMMA CoreSteady ==
  ASSUME NEW c, IsCpu(c), NEW mn \in CoreNames
  PROVE  Steady(c, executeCore(c, mn))
<1>1. CASE mn = "nop"
  <2>1. executeCore(c, mn) = c
    BY <1>1 DEF executeCore
  <2> QED BY <2>1, SteadySelf, Zenon
<1>2. CASE mn = "halt"
  <2>1. executeCore(c, mn) = [c EXCEPT !.halted = TRUE]
    BY <1>2 DEF executeCore
  <2> QED BY <2>1, SwitchSteady, Zenon
<1>3. CASE mn = "di"
  <2>1. executeCore(c, mn) = [c EXCEPT !.di = TRUE]
    BY <1>3 DEF executeCore
  <2> QED BY <2>1, SwitchSteady, Zenon
<1>4. CASE mn = "ei"
  <2>1. executeCore(c, mn) = [c EXCEPT !.ei = TRUE]
    BY <1>4 DEF executeCore
  <2> QED BY <2>1, SwitchSteady, Zenon
<1>5. CASE mn = "scf"
  <2>1. executeCore(c, mn) = [c EXCEPT !.f.C = 1, !.f.H = 0, !.f.N = 0]
    BY <1>5 DEF executeCore
  <2>2. Steady(c, [c EXCEPT !.f.C = 1, !.f.H = 0, !.f.N = 0])
    BY CarrySteady
  <2> QED BY <2>1, <2>2
<1>6. CASE mn = "ccf"
  <2> DEFINE x == 1 - c.f.C
             h == c.f.C
  <2>1. executeCore(c, mn) = [c EXCEPT !.f.C = x, !.f.H = h, !.f.N = 0]
    BY <1>6 DEF executeCore
  <2>2. x \in {0, 1} /\ h \in {0, 1}
    BY FlagsOf
  <2> HIDE DEF x, h
  <2>3. Steady(c, [c EXCEPT !.f.C = x, !.f.H = h, !.f.N = 0])
    BY <2>2, CarrySteady
  <2> QED BY <2>1, <2>3
<1>7. CASE mn = "cpl"
  BY <1>7, CplSteady, Zenon
<1>8. CASE mn = "daa"
  <2>1. executeCore(c, mn) = daa(c)
    BY <1>8 DEF executeCore
  <2> QED BY <2>1, DaaLevel, LevelSteady, Zenon
<1>9. CASE mn = "neg"
  <2>1. executeCore(c, mn) = do_neg(c)
    BY <1>9 DEF executeCore
  <2> QED BY <2>1, NegLevel, LevelSteady, Zenon
<1>10. CASE mn = "exx"
  <2>1. executeCore(c, mn) = exx(c)
    BY <1>10 DEF executeCore
  <2> QED BY <2>1, ExxSteady, Zenon
<1>11. CASE mn \in {"rrd", "rld"}
  <2>1. executeCore(c, mn) = rotateDigits(c, mn)
    BY <1>11 DEF executeCore
  <2> QED BY <2>1, DigitsSteady, Zenon
<1>12. CASE mn = "rlca"
  <2>1. executeCore(c, mn) = rotateA(c, "rlc")
    BY <1>12 DEF executeCore
  <2> QED BY <2>1, Turning, RotateASteady, Zenon
<1>13. CASE mn = "rrca"
  <2>1. executeCore(c, mn) = rotateA(c, "rrc")
    BY <1>13 DEF executeCore
  <2> QED BY <2>1, Turning, RotateASteady, Zenon
<1>14. CASE mn = "rla"
  <2>1. executeCore(c, mn) = rotateA(c, "rl")
    BY <1>14 DEF executeCore
  <2> QED BY <2>1, Turning, RotateASteady, Zenon
<1>15. CASE mn = "rra"
  <2>1. executeCore(c, mn) = rotateA(c, "rr")
    BY <1>15 DEF executeCore
  <2> QED BY <2>1, Turning, RotateASteady, Zenon
<1> QED BY <1>1, <1>2, <1>3, <1>4, <1>5, <1>6, <1>7, <1>8, <1>9, <1>10, <1>11, <1>12, <1>13, <1>14, <1>15 DEF CoreNames

(* -------------------------- one instruction executed --------------------------- *)
IsPlain(i) ==
  \/ Loads(i) \/ ComputesWords(i) \/ Computes(i) \/ Counts(i) \/ TurnsBits(i) \/ Stacks(i) \/ Exchanges(i)
  \/ Inputs1(i) \/ i.mn = "out" \/ (i.mn = "im" /\ i.arg \in 0..2) \/ i.mn \in CoreNames
Executable(i) == IsPlain(i) \/ i.mn \in BlockTransfers \/ Controls(i)
LEMMA BlockNames ==
  BlockTransfers = {"ldi", "ldir", "ldd", "lddr", "cpi", "cpir", "cpd", "cpdr", "ini", "inir", "ind", "indr", "outi", "otir", "outd", "otdr"}
  BY DEF BlockTransfers, Copies, Searches, Inputs, Outputs
LEMMA CpuIm ==
  ASSUME NEW c, IsCpu(c), NEW v \in 0..2
  PROVE  Steady(c, [c EXCEPT !.im = v])
  BY DEF IsCpu, CpuFields, Steady
LEMMA PlainSteady ==
  ASSUME NEW c, IsCpu(c), NEW i, IsPlain(i)
  PROVE  Steady(c, Execute(c, i))
<1>1. CASE Loads(i)
  <2>1. Execute(c, i) = executeLd(c, i)
    BY <1>1 DEF Execute, Loads
  <2> QED BY <1>1, <2>1, LdWordSteady, LdByteSteady, Zenon DEF Loads
<1>2. CASE ComputesWords(i)
  <2>1. Execute(c, i) = executeWide(c, i)
    BY <1>2 DEF Execute, ComputesWords, AluMnemonics
  <2> QED BY <1>2, <2>1, WideSteady, Zenon
<1>3. CASE Computes(i)
  <2>1. Execute(c, i) = executeAlu(c, i)
    BY <1>3 DEF Execute, Computes, AluMnemonics
  <2> QED BY <1>3, <2>1, AluSteady, Zenon
<1>4. CASE Counts(i)
  <2>1. Execute(c, i) = executeIncDec(c, i)
    BY <1>4 DEF Execute, Counts, AluMnemonics
  <2> QED BY <1>4, <2>1, CountSteady, Zenon
<1>5. CASE TurnsBits(i)
  <2>1. Execute(c, i) = executeCb(c, i)
    BY <1>5 DEF Execute, TurnsBits, AluMnemonics, RotateMnemonics
  <2> QED BY <1>5, <2>1, CbSteady, Zenon
<1>6. CASE Exchanges(i)
  <2>1. Execute(c, i) = executeEx(c, i)
    BY <1>6 DEF Execute, Exchanges, AluMnemonics, RotateMnemonics
  <2> QED BY <1>6, <2>1, ExSteady, Zenon
<1>7. CASE Inputs1(i)
  <2>1. Execute(c, i) = executeIn(c, i)
    BY <1>7 DEF Execute, Inputs1, AluMnemonics, RotateMnemonics
  <2> QED BY <1>7, <2>1, InSteady, Zenon
<1>8. CASE i.mn = "out"
  <2>1. Execute(c, i) = io_write(c, PortOf(c, i.dst), Value8(c, i.src))
    BY <1>8 DEF Execute, AluMnemonics, RotateMnemonics
  <2> QED BY <1>8, <2>1, OutLevel, LevelSteady, Zenon
<1>9. CASE i.mn = "im" /\ i.arg \in 0..2
  <2>1. Execute(c, i) = [c EXCEPT !.im = i.arg]
    BY <1>9 DEF Execute, AluMnemonics, RotateMnemonics, Copies, Searches, Inputs, Outputs
  <2> QED BY <1>9, <2>1, CpuIm, Zenon
<1>10. CASE i.mn \in CoreNames
  <2>1. Execute(c, i) = executeCore(c, i.mn)
    BY <1>10 DEF Execute, AluMnemonics, RotateMnemonics, Copies, Searches, Inputs, Outputs, CoreNames
  <2> QED BY <1>10, <2>1, CoreSteady, Zenon
<1>11. CASE Stacks(i)
  <2>1. Execute(c, i) = pushWord(c, Pair(c, i.dst.reg)) \/ Execute(c, i) = SetPair(afterPop(c), i.dst.reg, popped(c))
    BY <1>11 DEF Execute, Stacks, AluMnemonics, RotateMnemonics
  <2> QED BY <1>11, <2>1, StackSteady, Zenon
<1> QED BY <1>1, <1>2, <1>3, <1>4, <1>5, <1>6, <1>7, <1>8, <1>9, <1>10, <1>11, Zenon DEF IsPlain
LEMMA BlockExecuted ==
  ASSUME NEW c, NEW i, i.mn \in BlockTransfers
  PROVE  Execute(c, i) = executeBlock(c, i.mn)
  BY BlockNames DEF Execute, BlockTransfers, AluMnemonics, RotateMnemonics
LEMMA ControlExecuted ==
  ASSUME NEW c, NEW i, Controls(i)
  PROVE  Execute(c, i) = executeControl(c, i)
<1>1. i.mn \in {"jp", "jr", "call", "rst", "djnz", "ret", "reti", "retn"}
  BY DEF Controls, TargetMnemonics, ReturnMnemonics
<1> QED BY <1>1 DEF Execute, AluMnemonics, RotateMnemonics, Copies, Searches, Inputs, Outputs
LEMMA ExecuteTyped ==
  ASSUME NEW c, IsCpu(c), NEW i, Executable(i)
  PROVE  IsCpu(Execute(c, i))
<1>1. CASE IsPlain(i)
  BY <1>1, PlainSteady, Zenon DEF Steady
<1>2. CASE i.mn \in BlockTransfers
  <2>1. Repeats(c, executeBlock(c, i.mn))
    BY <1>2, BlockRepeats
  <2>2. IsCpu(executeBlock(c, i.mn))
    BY <2>1 DEF Repeats
  <2> QED BY <1>2, <2>2, BlockExecuted, Zenon
<1>3. CASE Controls(i)
  BY <1>3, ControlExecuted, ControlTyped, Zenon
<1> QED BY <1>1, <1>2, <1>3, Zenon DEF Executable
(* What the fetch does before the handler, and the delayed EI and DI after it.     *)
Ready(c, d) ==
  LET fetches == IF At(c.mem, c.pc) \in OpcodePrefixes THEN 2 ELSE 1
  IN [c EXCEPT !.pc = (@ + d.len) % 65536, !.reg.r = RefreshBy(@, fetches),
               !.di = FALSE, !.ei = IF c.di THEN @ ELSE FALSE]
LEMMA RefreshTyped ==
  ASSUME NEW r \in Byte, NEW n \in Int
  PROVE  RefreshBy(r, n) \in Byte
<1> DEFINE h == r \div 128
           l == (r + n) % 128
<1>1. h \in 0..1 /\ l \in 0..127
  BY DEF Byte
<1> HIDE DEF h, l
<1>2. 128 * h + l \in Byte
  BY <1>1 DEF Byte
<1> QED BY <1>2 DEF RefreshBy, h, l
LEMMA ReadyTyped ==
  ASSUME NEW c, IsCpu(c), NEW d, d.len \in Int
  PROVE  /\ IsCpu(Ready(c, d)) /\ Ready(c, d).sp = c.sp /\ Ready(c, d).pc = (c.pc + d.len) % 65536
         /\ Ready(c, d).mem = c.mem /\ Ready(c, d).rom = c.rom /\ Ready(c, d).f = c.f
<1> DEFINE fetches == IF At(c.mem, c.pc) \in OpcodePrefixes THEN 2 ELSE 1
           pc == (c.pc + d.len) % 65536
           r == RefreshBy(c.reg["r"], fetches)
           g == [c.reg EXCEPT !["r"] = r]
           e == IF c.di THEN c.ei ELSE FALSE
           x == [c EXCEPT !.pc = pc, !.reg = g, !.di = FALSE, !.ei = e]
<1>1. Ready(c, d) = [c EXCEPT !.pc = pc, !.reg.r = r, !.di = FALSE, !.ei = e]
  BY DEF Ready
<1>2. pc \in Addresses
  <2>1. c.pc \in Int
    BY CpuParts, Numbers, Zenon
  <2> QED BY <2>1, LowTyped
<1>3. r \in Byte
  <2>1. fetches \in Int
    OBVIOUS
  <2> HIDE DEF fetches
  <2> QED BY <2>1, RefreshTyped, Registers, ByteNames, Zenon
<1>4. e \in BOOLEAN
  BY CpuParts, Zenon
<1>5. pc = (c.pc + d.len) % 65536
  OBVIOUS
<1> HIDE DEF pc, r, e, fetches
<1>6. Ready(c, d) = x
  BY <1>1
<1>7. g \in RegisterSets
  BY <1>3, CpuParts, RegisterSetTo, Zenon
<1> HIDE DEF g
<1>8. IsCpu(x)
  BY <1>2, <1>4, <1>7 DEF IsCpu, CpuFields, RegisterSets
<1>9. x.sp = c.sp /\ x.pc = pc /\ x.mem = c.mem /\ x.rom = c.rom /\ x.f = c.f
  BY CpuParts DEF CpuFields
<1> HIDE DEF x
<1> QED BY <1>6, <1>5, <1>8, <1>9
LEMMA DelayedTyped ==
  ASSUME NEW c, NEW d, IsCpu(d)
  PROVE  /\ IsCpu(Delayed(c, d)) /\ Delayed(c, d).sp = d.sp /\ Delayed(c, d).pc = d.pc
         /\ Delayed(c, d).mem = d.mem
<1> DEFINE Same(e) == IsCpu(e) /\ e.sp = d.sp /\ e.pc = d.pc /\ e.mem = d.mem
<1>1. Same([d EXCEPT !.iff1 = 0, !.iff2 = 0])
  BY DEF IsCpu, CpuFields
<1>2. Same([d EXCEPT !.iff1 = 1, !.iff2 = 1])
  BY DEF IsCpu, CpuFields
<1>3. Same(d)
  OBVIOUS
<1> HIDE DEF Same
<1>4. Same(Delayed(c, d))
  BY <1>1, <1>2, <1>3, Zenon DEF Delayed
<1> QED BY <1>4 DEF Same
LEMMA ExecutedAs == \A c, d : executeDecoded(c, d) = Delayed(c, Execute(Ready(c, d), d.ins))
  BY DEF executeDecoded, Ready
LEMMA StepTypedBy ==
  ASSUME NEW c, IsCpu(c), NEW d, Executable(d.ins), d.len \in Int
  PROVE  IsCpu(executeDecoded(c, d))
<1> DEFINE x == Execute(Ready(c, d), d.ins)
<1>1. IsCpu(Ready(c, d))
  BY ReadyTyped
<1>2. IsCpu(x)
  BY <1>1, ExecuteTyped, Zenon
<1>3. executeDecoded(c, d) = Delayed(c, x)
  BY ExecutedAs, Zenon
<1> HIDE DEF x
<1> QED BY <1>2, <1>3, DelayedTyped
LEMMA NmiTyped ==
  ASSUME NEW c, IsCpu(c)
  PROVE  IsCpu(nmi(c))
<1> DEFINE d == pushWord(c, c.pc)
           i == c.iff1
           r == RefreshBy(d.reg["r"], 1)
           g == [d.reg EXCEPT !["r"] = r]
           x == [d EXCEPT !.pc = 102, !.halted = FALSE, !.iff2 = i, !.iff1 = 0, !.reg = g]
<1>1. nmi(c) = x
  BY DEF nmi
<1>2. IsCpu(d) /\ i \in {0, 1}
  BY CpuParts, Numbers, PushKeeps, Zenon DEF Steady
<1> HIDE DEF d, i
<1>3. r \in Byte
  <2>1. 1 \in Int
    OBVIOUS
  <2> QED BY <1>2, <2>1, RefreshTyped, Registers, ByteNames, Zenon
<1> HIDE DEF r
<1>4. g \in RegisterSets
  BY <1>2, <1>3, CpuParts, RegisterSetTo, Zenon
<1> HIDE DEF g
<1>5. 102 \in Addresses
  BY DEF Addresses
<1>6. IsCpu(x)
  BY <1>2, <1>4, <1>5 DEF IsCpu, CpuFields, RegisterSets
<1> QED BY <1>1, <1>6

(* ----------------------- what the tables decode executes ---------------------- *)
LEMMA InsParts ==
  \A mn, t, s, k : Ins(mn, t, s, k).mn = mn /\ Ins(mn, t, s, k).dst = t /\ Ins(mn, t, s, k).src = s /\ Ins(mn, t, s, k).arg = k
  BY DEF Ins
LEMMA OperandParts ==
  /\ \A r : R8(r).kind = "reg8" /\ R8(r).reg = r /\ R16(r).kind = "reg16" /\ R16(r).reg = r
  /\ \A r : Half(r).kind = "half" /\ Half(r).reg = r /\ Special(r).kind = "special8" /\ Special(r).reg = r
  /\ \A r : Indirect(r).kind = "indirect" /\ Indirect(r).reg = r
  /\ \A n : Abs(n).kind = "abs" /\ Abs(n).val = n /\ Imm(n).kind = "imm" /\ Imm(n).val = n
  /\ \A r, d : Indexed(r, d).kind = "indexed" /\ Indexed(r, d).reg = r /\ Indexed(r, d).val = d
  BY DEF R8, R16, Half, Special, Indirect, Abs, Imm, Indexed, Operand
LEMMA PlaceKinds == \A o : (IsPlace(o) => IsSource(o) /\ o.kind # "reg16" /\ o.kind # "none") /\ (IsSource(o) => o.kind # "reg16")
  BY DEF IsPlace, IsSource, RegisterPlace, InMemory
LEMMA LdByteForm ==
  ASSUME NEW t, NEW s, IsPlace(t), IsSource(s)
  PROVE  Executable(Ins("ld", t, s, 0))
<1>1. LoadsByte(Ins("ld", t, s, 0))
  BY InsParts, PlaceKinds DEF LoadsByte
<1> QED BY <1>1, InsParts DEF Executable, IsPlain, Loads
LEMMA LdWordForm ==
  ASSUME NEW p \in WordNames, NEW q \in WordNames, NEW n \in Addresses
  PROVE  /\ Executable(Ins("ld", R16(p), Imm(n), 0)) /\ Executable(Ins("ld", R16(p), Abs(n), 0))
         /\ Executable(Ins("ld", Abs(n), R16(p), 0)) /\ Executable(Ins("ld", R16(p), R16(q), 0))
<1>1. LoadsWord(Ins("ld", R16(p), Imm(n), 0)) /\ LoadsWord(Ins("ld", R16(p), Abs(n), 0))
  <2>1. "abs" \in {"abs", "imm"} /\ "imm" \in {"abs", "imm"}
    OBVIOUS
  <2> QED BY <2>1, InsParts, OperandParts DEF LoadsWord
<1>2. LoadsWord(Ins("ld", Abs(n), R16(p), 0)) /\ LoadsWord(Ins("ld", R16(p), R16(q), 0))
  BY InsParts, OperandParts DEF LoadsWord
<1> QED BY <1>1, <1>2, InsParts DEF Executable, IsPlain, Loads
LEMMA AluForm ==
  ASSUME NEW mn \in AluMnemonics, NEW s, IsSource(s)
  PROVE  Executable(Ins(mn, R8("a"), s, 0))
<1>1. Computes(Ins(mn, R8("a"), s, 0))
  <2>1. "reg8" # "reg16"
    OBVIOUS
  <2> QED BY <2>1, InsParts, OperandParts DEF Computes
<1> QED BY <1>1, Zenon DEF Executable, IsPlain
LEMMA WideForm ==
  ASSUME NEW mn \in {"add", "adc", "sbc"}, NEW p \in PairNames, NEW q \in WordNames
  PROVE  Executable(Ins(mn, R16(p), R16(q), 0))
<1>1. ComputesWords(Ins(mn, R16(p), R16(q), 0))
  BY InsParts, OperandParts DEF ComputesWords
<1> QED BY <1>1, Zenon DEF Executable, IsPlain
LEMMA CountForm ==
  ASSUME NEW mn \in {"inc", "dec"}, NEW p \in WordNames, NEW o, IsPlace(o)
  PROVE  Executable(Ins(mn, R16(p), None, 0)) /\ Executable(Ins(mn, o, None, 0))
<1>1. Counts(Ins(mn, R16(p), None, 0)) /\ Counts(Ins(mn, o, None, 0))
  BY InsParts, OperandParts, PlaceKinds DEF Counts
<1> QED BY <1>1, Zenon DEF Executable, IsPlain
LEMMA BitForm ==
  ASSUME NEW mn \in RotateMnemonics \cup {"bit", "res", "set"}, NEW t, t = None \/ IsPlace(t), NEW o, IsPlace(o), NEW k \in 0..7
  PROVE  Executable(Ins(mn, t, o, k))
<1>1. TurnsBits(Ins(mn, t, o, k))
  BY InsParts DEF TurnsBits
<1> QED BY <1>1, Zenon DEF Executable, IsPlain
LEMMA StackForm ==
  ASSUME NEW mn \in {"push", "pop"}, NEW p \in PairNames
  PROVE  Executable(Ins(mn, R16(p), None, 0))
<1>1. Stacks(Ins(mn, R16(p), None, 0))
  BY InsParts, OperandParts DEF Stacks
<1> QED BY <1>1, Zenon DEF Executable, IsPlain
LEMMA ExForm ==
  ASSUME NEW p \in Numbered, NEW o
  PROVE  Executable(Ins("ex", o, R16("af"), 0)) /\ Executable(Ins("ex", o, R16(p), 0))
<1>1. Exchanges(Ins("ex", o, R16("af"), 0)) /\ Exchanges(Ins("ex", o, R16(p), 0))
  BY InsParts, OperandParts DEF Exchanges
<1> QED BY <1>1, Zenon DEF Executable, IsPlain
LEMMA InForm ==
  ASSUME NEW o, o = None \/ o.reg \in RegisterNames, NEW s
  PROVE  Executable(Ins("in", o, s, 0))
<1>1. Inputs1(Ins("in", o, s, 0))
  BY InsParts DEF Inputs1
<1> QED BY <1>1, Zenon DEF Executable, IsPlain
LEMMA OutForm == \A o, s : Executable(Ins("out", o, s, 0))
  BY InsParts DEF Executable, IsPlain
LEMMA ImForm == \A k \in 0..2 : Executable(Ins("im", None, None, k))
  BY InsParts DEF Executable, IsPlain
LEMMA BareForm == \A mn \in CoreNames \cup BlockTransfers \cup ReturnMnemonics : Executable(Bare(mn))
  BY InsParts DEF Executable, IsPlain, Bare, Controls
LEMMA ReturnForm == \A k : Executable(Ins("ret", None, None, k))
<1>1. "ret" \in ReturnMnemonics
  BY DEF ReturnMnemonics
<1> QED BY <1>1, InsParts DEF Executable, Controls
LEMMA BranchForm ==
  ASSUME NEW mn \in TargetMnemonics, NEW k, NEW o, (o.kind # "reg16" /\ o.val \in Addresses) \/ (o.kind = "reg16" /\ o.reg \in PairNames)
  PROVE  Executable(Ins(mn, None, o, k))
<1>1. Controls(Ins(mn, None, o, k))
  BY InsParts DEF Controls
<1> QED BY <1>1, Zenon DEF Executable
DecodesWell(d) == Executable(d.ins) /\ d.len \in 1..4
LEMMA DecodedWell ==
  ASSUME NEW i, Executable(i)
  PROVE  DecodesWell(Decoded(i, 1)) /\ DecodesWell(Decoded(i, 2)) /\ DecodesWell(Decoded(i, 3)) /\ DecodesWell(Decoded(i, 4))
  BY DEF DecodesWell, Decoded
(* The operands bits name.                                                          *)
LEMMA OrderTyped ==
  /\ \A k \in 1..8 : k # 7 => RegisterOrder[k] \in RegisterNames
  /\ \A k \in 1..8 : AluOrder[k] \in AluMnemonics
  /\ \A k \in 1..8 : RotateOrder[k] \in RotateMnemonics
  /\ \A k \in 1..4 : PairOrder[k] \in {"bc", "de", "hl", "sp"}
<1>1. \A k \in 1..8 : k # 7 => RegisterOrder[k] \in RegisterNames
  BY DEF RegisterOrder, RegisterNames, Bytes8
<1>2. \A k \in 1..8 : AluOrder[k] \in AluMnemonics
  BY DEF AluOrder, AluMnemonics
<1>3. \A k \in 1..8 : RotateOrder[k] \in RotateMnemonics
  BY DEF RotateOrder, RotateMnemonics
<1>4. \A k \in 1..4 : PairOrder[k] \in {"bc", "de", "hl", "sp"}
  BY DEF PairOrder
<1> QED BY <1>1, <1>2, <1>3, <1>4
LEMMA PlaceNames ==
  /\ \A r \in RegisterNames : IsPlace(R8(r)) /\ IsPlace(Half(r)) /\ IsPlace(Special(r))
  /\ \A p \in WordNames : IsPlace(Indirect(p))
  /\ \A n \in Addresses : IsPlace(Abs(n))
  /\ \A p \in Numbered, d \in Int : IsPlace(Indexed(p, d))
  /\ \A n \in Byte : IsSource(Imm(n))
<1>1. \A r \in RegisterNames : IsPlace(R8(r)) /\ IsPlace(Half(r)) /\ IsPlace(Special(r))
  BY OperandParts DEF IsPlace, RegisterPlace
<1>2. \A p \in WordNames : IsPlace(Indirect(p))
  BY OperandParts DEF IsPlace, InMemory, WordNames
<1>3. \A n \in Addresses : IsPlace(Abs(n))
  BY OperandParts DEF IsPlace, InMemory
<1>4. \A p \in Numbered, d \in Int : IsPlace(Indexed(p, d))
  BY OperandParts DEF IsPlace, InMemory
<1>5. \A n \in Byte : IsSource(Imm(n))
  BY OperandParts DEF IsSource
<1> QED BY <1>1, <1>2, <1>3, <1>4, <1>5, Zenon
LEMMA NumbersOf ==
  ASSUME NEW op \in Byte
  PROVE  Column(op) \in 0..7 /\ Row(op) \in 0..7 /\ PairOf(op) \in WordNames /\ 8 * Row(op) \in Addresses
<1>1. Column(op) \in 0..7
  BY DEF Byte, Column
<1>2. Row(op) \in 0..7
  BY DEF Byte, Row
<1>3. ((op \div 16) % 4) + 1 \in 1..4
  BY DEF Byte
<1>4. \A p \in {"bc", "de", "hl", "sp"} : p \in WordNames
  BY DEF WordNames, PairNames, Numbered
<1>5. PairOf(op) \in WordNames
  BY <1>3, <1>4, OrderTyped, Zenon DEF PairOf
<1>6. 8 * Row(op) \in Addresses
  <2> DEFINE r == Row(op)
  <2> HIDE DEF r
  <2>1. r \in 0..7
    BY <1>2 DEF r
  <2>2. 8 * r \in Addresses
    BY <2>1 DEF Addresses
  <2> QED BY <2>2 DEF r
<1> QED BY <1>1, <1>2, <1>5, <1>6
LEMMA ByteOperandTyped ==
  ASSUME NEW n \in 0..7
  PROVE  IsPlace(ByteOperand(n)) /\ (n # 6 => ByteOperand(n).reg \in RegisterNames)
<1>1. CASE n = 6
  <2>1. "hl" \in WordNames
    BY DEF WordNames, PairNames, Numbered
  <2> QED BY <1>1, <2>1, PlaceNames DEF ByteOperand
<1>2. CASE n # 6
  <2> DEFINE r == RegisterOrder[n + 1]
  <2>1. n + 1 \in 1..8 /\ n + 1 # 7
    BY <1>2
  <2>2. r \in RegisterNames
    BY <2>1, OrderTyped, Zenon
  <2>3. ByteOperand(n) = R8(r)
    BY <1>2 DEF ByteOperand
  <2> HIDE DEF r
  <2> QED BY <2>2, <2>3, PlaceNames, OperandParts
<1> QED BY <1>1, <1>2
LEMMA HalfOperandTyped ==
  ASSUME NEW n \in 0..7, NEW x \in {"ix", "iy"}
  PROVE  IsPlace(HalfOperand(n, x))
<1>1. \A h \in {"ixh", "iyh", "ixl", "iyl"} : IsPlace(Half(h))
  <2>1. \A h \in {"ixh", "iyh", "ixl", "iyl"} : h \in RegisterNames
    BY DEF RegisterNames, Halves
  <2> QED BY <2>1, PlaceNames, Zenon
<1> QED BY <1>1, ByteOperandTyped DEF HalfOperand
LEMMA SignedTyped == ASSUME NEW b \in Byte PROVE Signed(b) \in Int
  BY DEF Signed, Byte
LEMMA BranchTarget ==
  ASSUME NEW m, IsByteMap(m), NEW pc \in Int
  PROVE  Target(m, pc).kind # "reg16" /\ Target(m, pc).val \in Addresses
<1> DEFINE t == (pc + 2 + Signed(At(m, pc + 1))) % 65536
<1>1. Signed(At(m, pc + 1)) \in Int
  BY AtTyped, SignedTyped, Zenon
<1>2. t \in Addresses
  BY <1>1, LowTyped
<1>3. Target(m, pc) = Imm(t)
  BY DEF Target
<1> HIDE DEF t
<1>4. "imm" # "reg16"
  OBVIOUS
<1> QED BY <1>2, <1>3, <1>4, OperandParts

(* -------------------------- what the tables decode ----------------------------- *)
LEMMA MemoryTyped ==
  ASSUME NEW m, IsByteMap(m)
  PROVE  \A a : At(m, a) \in Byte /\ WordAt(m, a) \in Addresses /\ Signed(At(m, a)) \in Int
  BY AtTyped, WordAtTyped, SignedTyped, Zenon
LEMMA Mnemonics ==
  /\ \A k \in 1..8 : <<"rlca", "rrca", "rla", "rra", "daa", "cpl", "scf", "ccf">>[k] \in CoreNames
  /\ \A k \in 1..4 : <<"bc", "de", "hl", "af">>[k] \in PairNames
  /\ "jr" \in TargetMnemonics /\ "jp" \in TargetMnemonics /\ "call" \in TargetMnemonics /\ "rst" \in TargetMnemonics /\ "djnz" \in TargetMnemonics
  /\ "ret" \in ReturnMnemonics /\ "reti" \in ReturnMnemonics /\ "retn" \in ReturnMnemonics
  /\ "nop" \in CoreNames /\ "halt" \in CoreNames /\ "exx" \in CoreNames /\ "di" \in CoreNames /\ "ei" \in CoreNames /\ "neg" \in CoreNames /\ "rrd" \in CoreNames /\ "rld" \in CoreNames
  /\ "hl" \in WordNames /\ "sp" \in WordNames /\ "hl" \in PairNames /\ "hl" \in Numbered /\ "af" \in WordNames
  /\ "a" \in RegisterNames /\ "i" \in RegisterNames /\ "r" \in RegisterNames
<1>1. \A k \in 1..8 : <<"rlca", "rrca", "rla", "rra", "daa", "cpl", "scf", "ccf">>[k] \in CoreNames
  BY DEF CoreNames
<1>2. \A k \in 1..4 : <<"bc", "de", "hl", "af">>[k] \in PairNames
  BY DEF PairNames, Numbered
<1>3. "jr" \in TargetMnemonics /\ "jp" \in TargetMnemonics /\ "call" \in TargetMnemonics /\ "rst" \in TargetMnemonics /\ "djnz" \in TargetMnemonics
  BY DEF TargetMnemonics
<1>4. "ret" \in ReturnMnemonics /\ "reti" \in ReturnMnemonics /\ "retn" \in ReturnMnemonics
  BY DEF ReturnMnemonics
<1>5. "nop" \in CoreNames /\ "halt" \in CoreNames /\ "exx" \in CoreNames /\ "di" \in CoreNames /\ "ei" \in CoreNames /\ "neg" \in CoreNames /\ "rrd" \in CoreNames /\ "rld" \in CoreNames
  BY DEF CoreNames
<1>6. "hl" \in WordNames /\ "sp" \in WordNames /\ "hl" \in PairNames /\ "hl" \in Numbered /\ "af" \in WordNames
  BY DEF WordNames, PairNames, Numbered
<1>7. "a" \in RegisterNames /\ "i" \in RegisterNames /\ "r" \in RegisterNames
  BY DEF RegisterNames, Bytes8
<1> QED BY <1>1, <1>2, <1>3, <1>4, <1>5, <1>6, <1>7, Zenon
LEMMA NamedPlaces ==
  IsPlace(R8("a")) /\ IsSource(R8("a")) /\ R8("a").reg \in RegisterNames /\ IsPlace(Special("i")) /\ IsPlace(Special("r")) /\ IsSource(Special("i")) /\ IsSource(Special("r")) /\ IsPlace(Indirect("hl"))
  BY Mnemonics, PlaceNames, PlaceKinds, OperandParts
LEMMA LowWell ==
  ASSUME NEW m, IsByteMap(m), NEW pc \in Int, NEW op \in Byte, op < 64
  PROVE  DecodesWell(LowPrimary(m, pc, op))
<1> DEFINE p == R16(PairOf(op))
           r == ByteOperand(Row(op))
           q == PairOf(op)
           t == Target(m, pc)
           w == WordAt(m, pc + 1)
           n == At(m, pc + 1)
           rotate == <<"rlca", "rrca", "rla", "rra", "daa", "cpl", "scf", "ccf">>[Row(op) + 1]
<1>1. IsPlace(r) /\ q \in WordNames /\ w \in Addresses /\ n \in Byte /\ t.kind # "reg16" /\ t.val \in Addresses /\ p = R16(q) /\ p.reg = q
  BY NumbersOf, ByteOperandTyped, MemoryTyped, BranchTarget, OperandParts
<1>2. rotate \in CoreNames
  <2>1. Row(op) + 1 \in 1..8
    BY NumbersOf
  <2> QED BY <2>1, Mnemonics
<1> HIDE DEF p, r, q, t, w, n, rotate
<1>3. Executable(Nop) /\ Executable(Ins("ex", R16("af"), R16("af"), 0)) /\ Executable(Bare(rotate))
  BY <1>2, Mnemonics, BareForm, ExForm DEF Nop, Bare
<1>4. \A k : Executable(Ins("djnz", None, t, k)) /\ Executable(Ins("jr", None, t, k))
  BY <1>1, Mnemonics, BranchForm
<1>5. /\ Executable(Ins("ld", p, Imm(w), 0)) /\ Executable(Ins("add", R16("hl"), p, 0))
      /\ Executable(Ins("ld", Indirect(p.reg), R8("a"), 0)) /\ Executable(Ins("ld", R8("a"), Indirect(p.reg), 0))
  BY <1>1, Mnemonics, LdWordForm, WideForm, NamedPlaces, PlaceNames, PlaceKinds, LdByteForm
<1>6. /\ Executable(Ins("ld", Abs(w), R16("hl"), 0)) /\ Executable(Ins("ld", R16("hl"), Abs(w), 0))
      /\ Executable(Ins("ld", Abs(w), R8("a"), 0)) /\ Executable(Ins("ld", R8("a"), Abs(w), 0))
  BY <1>1, Mnemonics, LdWordForm, NamedPlaces, PlaceNames, PlaceKinds, LdByteForm
<1>7. /\ Executable(Ins("inc", p, None, 0)) /\ Executable(Ins("dec", p, None, 0))
      /\ Executable(Ins("inc", r, None, 0)) /\ Executable(Ins("dec", r, None, 0))
  BY <1>1, CountForm
<1>8. Executable(Ins("ld", r, Imm(n), 0))
  BY <1>1, PlaceNames, LdByteForm
<1>9. LowPrimary(m, pc, op) \in
        {Decoded(Nop, 1), Decoded(Ins("ex", R16("af"), R16("af"), 0), 1), Decoded(Ins("djnz", None, t, 0), 2), Decoded(Ins("jr", None, t, 0), 2),
         Decoded(Ins("jr", None, t, Row(op) - 3), 2), Decoded(Ins("ld", p, Imm(w), 0), 3), Decoded(Ins("add", R16("hl"), p, 0), 1),
         Decoded(Ins("ld", Indirect(p.reg), R8("a"), 0), 1), Decoded(Ins("ld", R8("a"), Indirect(p.reg), 0), 1),
         Decoded(Ins("ld", Abs(w), R16("hl"), 0), 3), Decoded(Ins("ld", R16("hl"), Abs(w), 0), 3),
         Decoded(Ins("ld", Abs(w), R8("a"), 0), 3), Decoded(Ins("ld", R8("a"), Abs(w), 0), 3),
         Decoded(Ins("inc", p, None, 0), 1), Decoded(Ins("dec", p, None, 0), 1), Decoded(Ins("inc", r, None, 0), 1), Decoded(Ins("dec", r, None, 0), 1),
         Decoded(Ins("ld", r, Imm(n), 0), 2), Decoded(Bare(rotate), 1)}
  BY DEF LowPrimary, p, r, t, w, n, rotate
<1> QED BY <1>3, <1>4, <1>5, <1>6, <1>7, <1>8, <1>9, DecodedWell
LEMMA MatrixWell ==
  ASSUME NEW op \in Byte
  PROVE  DecodesWell(MatrixPrimary(op))
<1> DEFINE r == ByteOperand(Row(op))
           s == ByteOperand(Column(op))
           mn == AluOrder[Row(op) + 1]
<1>1. IsPlace(r) /\ IsSource(s) /\ mn \in AluMnemonics
  <2>1. Row(op) + 1 \in 1..8
    BY NumbersOf
  <2>2. mn \in AluMnemonics
    BY <2>1, OrderTyped, Zenon
  <2>3. IsPlace(r) /\ IsSource(s)
    BY NumbersOf, ByteOperandTyped, PlaceKinds, Zenon
  <2> QED BY <2>2, <2>3
<1>2. MatrixPrimary(op) \in {Decoded(Bare("halt"), 1), Decoded(Ins("ld", r, s, 0), 1), Decoded(Ins(mn, R8("a"), s, 0), 1)}
  BY DEF MatrixPrimary
<1> HIDE DEF r, s, mn
<1>3. Executable(Bare("halt")) /\ Executable(Ins("ld", r, s, 0)) /\ Executable(Ins(mn, R8("a"), s, 0))
  BY <1>1, Mnemonics, BareForm, LdByteForm, AluForm
<1> QED BY <1>2, <1>3, DecodedWell
LEMMA HighWell ==
  ASSUME NEW m, IsByteMap(m), NEW pc \in Int, NEW op \in Byte
  PROVE  DecodesWell(HighPrimary(m, pc, op))
<1> DEFINE q == <<"bc", "de", "hl", "af">>[((op \div 16) % 4) + 1]
           stacked == R16(q)
           nn == Imm(WordAt(m, pc + 1))
           n == At(m, pc + 1)
           cc == Row(op) + 1
           mn == AluOrder[Row(op) + 1]
           v == Imm(8 * Row(op))
<1>1. q \in PairNames
  <2>1. ((op \div 16) % 4) + 1 \in 1..4
    BY DEF Byte
  <2> QED BY <2>1, Mnemonics
<1>2. nn.kind # "reg16" /\ nn.val \in Addresses /\ v.kind # "reg16" /\ v.val \in Addresses
  BY MemoryTyped, NumbersOf, OperandParts
<1>3. mn \in AluMnemonics
  <2>1. Row(op) + 1 \in 1..8
    BY NumbersOf
  <2> QED BY <2>1, OrderTyped, Zenon
<1>4. n \in Byte
  BY MemoryTyped, Zenon
<1>5. HighPrimary(m, pc, op) \in
        {Decoded(Ins("ret", None, None, cc), 1), Decoded(Bare("ret"), 1), Decoded(Bare("exx"), 1), Decoded(Ins("jp", None, R16("hl"), 0), 1),
         Decoded(Ins("ld", R16("sp"), R16("hl"), 0), 1), Decoded(Ins("pop", stacked, None, 0), 1), Decoded(Ins("jp", None, nn, cc), 3),
         Decoded(Ins("jp", None, nn, 0), 3), Decoded(Ins("out", PortN(n), R8("a"), 0), 2), Decoded(Ins("in", R8("a"), PortN(n), 0), 2),
         Decoded(Ins("ex", Indirect("sp"), R16("hl"), 0), 1), Decoded(Ins("ex", R16("de"), R16("hl"), 0), 1), Decoded(Bare("di"), 1), Decoded(Bare("ei"), 1),
         Decoded(Ins("call", None, nn, cc), 3), Decoded(Ins("call", None, nn, 0), 3), Decoded(Ins("push", stacked, None, 0), 1),
         Decoded(Ins(mn, R8("a"), Imm(n), 0), 2), Decoded(Ins("rst", None, v, 0), 1)}
  BY DEF HighPrimary
<1> HIDE DEF q, nn, n, cc, mn, v
<1>6. Executable(Ins("ret", None, None, cc)) /\ Executable(Bare("ret")) /\ Executable(Bare("exx")) /\ Executable(Bare("di")) /\ Executable(Bare("ei"))
  BY Mnemonics, ReturnForm, BareForm
<1>7. /\ Executable(Ins("jp", None, R16("hl"), 0)) /\ Executable(Ins("jp", None, nn, cc)) /\ Executable(Ins("jp", None, nn, 0))
      /\ Executable(Ins("call", None, nn, cc)) /\ Executable(Ins("call", None, nn, 0)) /\ Executable(Ins("rst", None, v, 0))
  BY <1>2, Mnemonics, OperandParts, BranchForm
<1>8. /\ Executable(Ins("ld", R16("sp"), R16("hl"), 0)) /\ Executable(Ins("pop", stacked, None, 0)) /\ Executable(Ins("push", stacked, None, 0))
      /\ Executable(Ins(mn, R8("a"), Imm(n), 0))
  <2>1. Executable(Ins("ld", R16("sp"), R16("hl"), 0))
    <3>1. 0 \in Addresses
      BY DEF Addresses
    <3> QED BY <3>1, Mnemonics, LdWordForm
  <2>2. Executable(Ins("pop", stacked, None, 0)) /\ Executable(Ins("push", stacked, None, 0))
    BY <1>1, StackForm
  <2>3. Executable(Ins(mn, R8("a"), Imm(n), 0))
    BY <1>3, <1>4, PlaceNames, AluForm
  <2> QED BY <2>1, <2>2, <2>3
<1>9. /\ Executable(Ins("out", PortN(n), R8("a"), 0)) /\ Executable(Ins("in", R8("a"), PortN(n), 0))
      /\ Executable(Ins("ex", Indirect("sp"), R16("hl"), 0)) /\ Executable(Ins("ex", R16("de"), R16("hl"), 0))
  BY Mnemonics, NamedPlaces, OutForm, InForm, ExForm
<1> QED BY <1>5, <1>6, <1>7, <1>8, <1>9, DecodedWell
LEMMA CbWell ==
  ASSUME NEW op \in Byte, NEW o, IsPlace(o), NEW t, t = None \/ IsPlace(t)
  PROVE  Executable(CbInstruction(op, o, t))
<1> DEFINE k == Row(op)
           mn == RotateOrder[Row(op) + 1]
<1>1. k \in 0..7 /\ mn \in RotateMnemonics
  <2>1. Row(op) + 1 \in 1..8 /\ Row(op) \in 0..7
    BY NumbersOf
  <2> QED BY <2>1, OrderTyped, Zenon
<1>2. CbInstruction(op, o, t) \in {Ins(mn, t, o, 0), Ins("bit", None, o, k), Ins("res", t, o, k), Ins("set", t, o, k)}
  BY DEF CbInstruction
<1> HIDE DEF k, mn
<1>3. 0 \in 0..7 /\ \A x \in RotateMnemonics \cup {"bit", "res", "set"} : x \in RotateMnemonics \cup {"bit", "res", "set"}
  OBVIOUS
<1>4. Executable(Ins(mn, t, o, 0))
  BY <1>1, <1>3, BitForm
<1>5. Executable(Ins("bit", None, o, k)) /\ Executable(Ins("res", t, o, k)) /\ Executable(Ins("set", t, o, k))
  BY <1>1, <1>3, BitForm
<1> QED BY <1>2, <1>4, <1>5
LEMMA CbTablesWell ==
  ASSUME NEW m, IsByteMap(m), NEW pc \in Int, NEW x \in {"ix", "iy"}
  PROVE  DecodesWell(CbTable(m, pc)) /\ DecodesWell(DdcbTable(m, pc, x))
<1>1. DecodesWell(CbTable(m, pc))
  <2> DEFINE op == At(m, pc + 1)
             o == ByteOperand(Column(op))
  <2>1. op \in Byte
    BY MemoryTyped, Zenon
  <2>2. IsPlace(o)
    BY <2>1, NumbersOf, ByteOperandTyped, Zenon
  <2>3. CbTable(m, pc) = Decoded(CbInstruction(op, o, None), 2)
    BY DEF CbTable
  <2> HIDE DEF o, op
  <2> QED BY <2>1, <2>2, <2>3, CbWell, DecodedWell
<1>2. DecodesWell(DdcbTable(m, pc, x))
  <2> DEFINE op == At(m, pc + 3)
             d == Signed(At(m, pc + 2))
             o == Indexed(x, d)
             t == IF Column(op) = 6 THEN None ELSE ByteOperand(Column(op))
  <2>1. op \in Byte /\ d \in Int
    BY MemoryTyped, Zenon
  <2>2. IsPlace(o)
    <3>1. x \in Numbered
      BY DEF Numbered
    <3> HIDE DEF d
    <3> QED BY <2>1, <3>1, PlaceNames, Zenon
  <2>3. t = None \/ IsPlace(t)
    BY <2>1, NumbersOf, ByteOperandTyped, Zenon
  <2>4. DdcbTable(m, pc, x) = Decoded(CbInstruction(op, o, t), 4)
    BY DEF DdcbTable
  <2> HIDE DEF o, op, t
  <2> QED BY <2>1, <2>2, <2>3, <2>4, CbWell, DecodedWell
<1> QED BY <1>1, <1>2

LEMMA EdBlockWell ==
  ASSUME NEW op \in Byte, op >= 160, op < 192, Column(op) < 4
  PROVE  Executable(EdBlock(op))
<1> DEFINE names == <<<<"ldi", "cpi", "ini", "outi">>, <<"ldd", "cpd", "ind", "outd">>,
                      <<"ldir", "cpir", "inir", "otir">>, <<"lddr", "cpdr", "indr", "otdr">>>>
           k == Row(op) - 3
           n == Column(op) + 1
<1>1. k \in 1..4 /\ n \in 1..4
  <2>1. Row(op) \in 4..7
    BY DEF Row, Byte
  <2> QED BY <2>1, NumbersOf
<1>2. EdBlock(op) = Bare(names[k][n])
  BY DEF EdBlock
<1> HIDE DEF k, n
<1>3. names[k][n] \in BlockTransfers
  BY <1>1, BlockNames
<1> QED BY <1>2, <1>3, BareForm
LEMMA EdPortWell ==
  ASSUME NEW op \in Byte
  PROVE  Executable(EdPort(op))
<1> DEFINE r == IF Row(op) = 6 THEN None ELSE ByteOperand(Row(op))
<1>1. r = None \/ r.reg \in RegisterNames
  BY NumbersOf, ByteOperandTyped, Zenon
<1>2. EdPort(op) = Ins("in", r, PortC, 0) \/ \E s : EdPort(op) = Ins("out", PortC, s, 0)
  BY DEF EdPort
<1> HIDE DEF r
<1> QED BY <1>1, <1>2, InForm, OutForm
LEMMA EdWell ==
  ASSUME NEW m, IsByteMap(m), NEW pc \in Int
  PROVE  DecodesWell(EdTable(m, pc))
<1> DEFINE op == At(m, pc + 1)
           q == PairOf(op)
           p == R16(q)
           w == WordAt(m, pc + 2)
           nn == Abs(w)
           mode == <<0, 0, 1, 2, 0, 0, 1, 2>>[Row(op) + 1]
           special == <<Ins("ld", Special("i"), R8("a"), 0), Ins("ld", Special("r"), R8("a"), 0),
                        Ins("ld", R8("a"), Special("i"), 0), Ins("ld", R8("a"), Special("r"), 0),
                        Bare("rrd"), Bare("rld")>>[Row(op) + 1]
<1>1. op \in Byte /\ w \in Addresses
  BY MemoryTyped, Zenon
<1>2. q \in WordNames
  BY <1>1, NumbersOf, Zenon
<1>3. mode \in 0..2
  <2>1. Row(op) + 1 \in 1..8
    BY <1>1, NumbersOf
  <2> QED BY <2>1
<1>4. op < 112 /\ op >= 64 => Executable(special)
  <2>1. Executable(Ins("ld", Special("i"), R8("a"), 0)) /\ Executable(Ins("ld", Special("r"), R8("a"), 0))
    BY NamedPlaces, LdByteForm
  <2>2. Executable(Ins("ld", R8("a"), Special("i"), 0)) /\ Executable(Ins("ld", R8("a"), Special("r"), 0))
    BY NamedPlaces, LdByteForm
  <2>3. Executable(Bare("rrd")) /\ Executable(Bare("rld"))
    BY Mnemonics, BareForm
  <2>4. op < 112 /\ op >= 64 => Row(op) + 1 \in 1..6
    <3> HIDE DEF op
    <3>1. op < 112 /\ op >= 64 => Row(op) \in 0..5
      BY <1>1 DEF Row, Byte
    <3> QED BY <3>1
  <2> QED BY <2>1, <2>2, <2>3, <2>4
<1>5. \/ EdTable(m, pc) \in {Decoded(EdPort(op), 2), Decoded(Ins("adc", R16("hl"), p, 0), 2), Decoded(Ins("sbc", R16("hl"), p, 0), 2),
                             Decoded(Ins("ld", p, nn, 0), 4), Decoded(Ins("ld", nn, p, 0), 4), Decoded(Bare("neg"), 2), Decoded(Bare("reti"), 2),
                             Decoded(Bare("retn"), 2), Decoded(Ins("im", None, None, mode), 2), Decoded(Nop, 2)}
      \/ op < 112 /\ op >= 64 /\ EdTable(m, pc) = Decoded(special, 2)
      \/ op >= 160 /\ op < 192 /\ Column(op) < 4 /\ EdTable(m, pc) = Decoded(EdBlock(op), 2)
  BY DEF EdTable
<1> HIDE DEF op, q, w, mode, special
<1>6. Executable(Ins("adc", R16("hl"), p, 0)) /\ Executable(Ins("sbc", R16("hl"), p, 0))
  BY <1>2, Mnemonics, WideForm
<1>7. Executable(Ins("ld", p, nn, 0)) /\ Executable(Ins("ld", nn, p, 0))
  BY <1>1, <1>2, LdWordForm
<1>8. Executable(Bare("neg")) /\ Executable(Bare("reti")) /\ Executable(Bare("retn")) /\ Executable(Nop)
  BY Mnemonics, BareForm DEF Nop, Bare
<1>9. Executable(Ins("im", None, None, mode)) /\ Executable(EdPort(op))
  BY <1>1, <1>3, ImForm, EdPortWell
<1>10. op >= 160 /\ op < 192 /\ Column(op) < 4 => Executable(EdBlock(op))
  BY <1>1, EdBlockWell
<1> HIDE DEF p, nn
<1> QED BY <1>4, <1>5, <1>6, <1>7, <1>8, <1>9, <1>10, DecodedWell
LEMMA DdLowWell ==
  ASSUME NEW m, IsByteMap(m), NEW pc \in Int, NEW op \in Byte, NEW x \in {"ix", "iy"}
  PROVE  DecodesWell(DdLow(m, pc, op, x))
<1> DEFINE h == HalfOperand(Row(op), x)
           d == Signed(At(m, pc + 2))
           xd == Indexed(x, d)
           nn == WordAt(m, pc + 2)
           p == PairOf(op)
           q == IF p = "hl" THEN x ELSE p
           n == At(m, pc + 2)
           k == At(m, pc + 3)
<1>1. nn \in Addresses /\ n \in Byte /\ k \in Byte /\ d \in Int
  BY MemoryTyped, Zenon
<1>2. IsPlace(h)
  BY NumbersOf, HalfOperandTyped, Zenon
<1>3. x \in PairNames /\ x \in WordNames /\ x \in Numbered
  BY DEF PairNames, WordNames, Numbered
<1>4. q \in WordNames
  BY <1>3, NumbersOf, Zenon
<1>5. DdLow(m, pc, op, x) \in
        {Decoded(Ins("add", R16(x), R16(q), 0), 2), Decoded(Ins("ld", R16(x), Imm(nn), 0), 4), Decoded(Ins("ld", Abs(nn), R16(x), 0), 4),
         Decoded(Ins("ld", R16(x), Abs(nn), 0), 4), Decoded(Ins("inc", R16(x), None, 0), 2), Decoded(Ins("dec", R16(x), None, 0), 2),
         Decoded(Ins("inc", h, None, 0), 2), Decoded(Ins("dec", h, None, 0), 2), Decoded(Ins("ld", h, Imm(n), 0), 3),
         Decoded(Ins("inc", xd, None, 0), 3), Decoded(Ins("dec", xd, None, 0), 3), Decoded(Ins("ld", xd, Imm(k), 0), 4), Decoded(Nop, 2)}
  BY DEF DdLow
<1> HIDE DEF h, d, nn, p, q, n, k
<1>6. IsPlace(xd)
  BY <1>1, <1>3, PlaceNames, Zenon
<1> HIDE DEF xd
<1>7. /\ Executable(Ins("add", R16(x), R16(q), 0)) /\ Executable(Ins("ld", R16(x), Imm(nn), 0))
      /\ Executable(Ins("ld", Abs(nn), R16(x), 0)) /\ Executable(Ins("ld", R16(x), Abs(nn), 0))
  BY <1>1, <1>3, <1>4, WideForm, LdWordForm
<1>8. /\ Executable(Ins("inc", R16(x), None, 0)) /\ Executable(Ins("dec", R16(x), None, 0))
      /\ Executable(Ins("inc", h, None, 0)) /\ Executable(Ins("dec", h, None, 0))
      /\ Executable(Ins("inc", xd, None, 0)) /\ Executable(Ins("dec", xd, None, 0))
  BY <1>2, <1>3, <1>6, CountForm
<1>9. Executable(Ins("ld", h, Imm(n), 0)) /\ Executable(Ins("ld", xd, Imm(k), 0))
  BY <1>1, <1>2, <1>6, PlaceNames, LdByteForm
<1>10. Executable(Nop)
  BY Mnemonics, BareForm DEF Nop, Bare
<1> QED BY <1>5, <1>7, <1>8, <1>9, <1>10, DecodedWell
LEMMA DdMatrixWell ==
  ASSUME NEW m, IsByteMap(m), NEW pc \in Int, NEW op \in Byte, NEW x \in {"ix", "iy"}
  PROVE  DecodesWell(DdMatrix(m, pc, op, x))
<1> DEFINE r == ByteOperand(Row(op))
           s == ByteOperand(Column(op))
           hr == HalfOperand(Row(op), x)
           hs == HalfOperand(Column(op), x)
           d == Signed(At(m, pc + 2))
           xd == Indexed(x, d)
           mn == AluOrder[Row(op) + 1]
<1>1. d \in Int
  BY MemoryTyped, Zenon
<1>2. IsPlace(r) /\ IsPlace(s) /\ IsPlace(hr) /\ IsPlace(hs)
  BY NumbersOf, ByteOperandTyped, HalfOperandTyped, Zenon
<1>3. mn \in AluMnemonics
  <2>1. Row(op) + 1 \in 1..8
    BY NumbersOf
  <2> QED BY <2>1, OrderTyped, Zenon
<1>4. x \in Numbered
  BY DEF Numbered
<1>5. DdMatrix(m, pc, op, x) \in
        {Decoded(Nop, 2), Decoded(Ins("ld", r, xd, 0), 3), Decoded(Ins("ld", xd, s, 0), 3), Decoded(Ins("ld", hr, hs, 0), 2),
         Decoded(Ins(mn, R8("a"), xd, 0), 3), Decoded(Ins(mn, R8("a"), hs, 0), 2)}
  BY DEF DdMatrix
<1> HIDE DEF r, s, hr, hs, d, mn
<1>6. IsPlace(xd)
  BY <1>1, <1>4, PlaceNames, Zenon
<1> HIDE DEF xd
<1>7. IsSource(xd) /\ IsSource(s) /\ IsSource(hs)
  BY <1>2, <1>6, PlaceKinds, Zenon
<1>8. Executable(Ins("ld", r, xd, 0)) /\ Executable(Ins("ld", xd, s, 0)) /\ Executable(Ins("ld", hr, hs, 0))
  BY <1>2, <1>6, <1>7, LdByteForm
<1>9. Executable(Ins(mn, R8("a"), xd, 0)) /\ Executable(Ins(mn, R8("a"), hs, 0))
  BY <1>3, <1>7, AluForm
<1>10. Executable(Nop)
  BY Mnemonics, BareForm DEF Nop, Bare
<1> QED BY <1>5, <1>8, <1>9, <1>10, DecodedWell
LEMMA DdHighWell ==
  ASSUME NEW m, IsByteMap(m), NEW pc \in Int, NEW op \in Byte, NEW x \in {"ix", "iy"}
  PROVE  DecodesWell(DdHigh(m, pc, op, x))
<1>1. x \in PairNames /\ x \in WordNames /\ x \in Numbered
  BY DEF PairNames, WordNames, Numbered
<1>2. DdHigh(m, pc, op, x) \in
        {DdcbTable(m, pc, x), Decoded(Ins("pop", R16(x), None, 0), 2), Decoded(Ins("ex", Indirect("sp"), R16(x), 0), 2),
         Decoded(Ins("push", R16(x), None, 0), 2), Decoded(Ins("jp", None, R16(x), 0), 2), Decoded(Ins("ld", R16("sp"), R16(x), 0), 2), Decoded(Nop, 2)}
  BY DEF DdHigh
<1>3. DecodesWell(DdcbTable(m, pc, x))
  BY CbTablesWell
<1>4. Executable(Ins("pop", R16(x), None, 0)) /\ Executable(Ins("push", R16(x), None, 0)) /\ Executable(Ins("ex", Indirect("sp"), R16(x), 0))
  BY <1>1, StackForm, ExForm
<1>5. Executable(Ins("jp", None, R16(x), 0))
  BY <1>1, Mnemonics, OperandParts, BranchForm
<1>6. Executable(Ins("ld", R16("sp"), R16(x), 0))
  <2>1. 0 \in Addresses
    BY DEF Addresses
  <2> QED BY <1>1, <2>1, Mnemonics, LdWordForm
<1>7. Executable(Nop)
  BY Mnemonics, BareForm DEF Nop, Bare
<1> QED BY <1>2, <1>3, <1>4, <1>5, <1>6, <1>7, DecodedWell
LEMMA DdWell ==
  ASSUME NEW m, IsByteMap(m), NEW pc \in Int, NEW x \in {"ix", "iy"}
  PROVE  DecodesWell(DdTable(m, pc, x))
<1> DEFINE op == At(m, pc + 1)
<1>1. op \in Byte
  BY MemoryTyped, Zenon
<1>2. DdTable(m, pc, x) \in {DdLow(m, pc, op, x), DdMatrix(m, pc, op, x), DdHigh(m, pc, op, x)}
  BY DEF DdTable
<1> HIDE DEF op
<1> QED BY <1>1, <1>2, DdLowWell, DdMatrixWell, DdHighWell
(* Whatever bytes are met, they decode as an instruction some handler carries out,  *)
(* one to four bytes long (decodeInstruction's tables have no hole).                *)
THEOREM DecodedIsExecutable ==
  ASSUME NEW m, IsByteMap(m), NEW pc \in Int
  PROVE  DecodesWell(decodeInstruction(m, pc))
<1> DEFINE op == At(m, pc)
<1>1. op \in Byte
  BY MemoryTyped, Zenon
<1>2. op < 64 => DecodesWell(LowPrimary(m, pc, op))
  BY <1>1, LowWell
<1>3. DecodesWell(MatrixPrimary(op)) /\ DecodesWell(HighPrimary(m, pc, op))
  BY <1>1, MatrixWell, HighWell
<1>4. DecodesWell(CbTable(m, pc)) /\ DecodesWell(EdTable(m, pc)) /\ DecodesWell(DdTable(m, pc, "ix")) /\ DecodesWell(DdTable(m, pc, "iy"))
  BY CbTablesWell, EdWell, DdWell
<1>5. \/ decodeInstruction(m, pc) \in {CbTable(m, pc), EdTable(m, pc), DdTable(m, pc, "ix"), DdTable(m, pc, "iy"), MatrixPrimary(op), HighPrimary(m, pc, op)}
      \/ op < 64 /\ decodeInstruction(m, pc) = LowPrimary(m, pc, op)
  BY DEF decodeInstruction
<1> HIDE DEF op
<1> QED BY <1>2, <1>3, <1>4, <1>5
(* Executing an instruction leaves every register, flag and byte its width, whatever *)
(* the program and wherever it is (execute and the handlers), and so does the        *)
(* keypad's interrupt (nmi).                                                        *)
THEOREM ExecutionTyped == \A c : IsCpu(c) => IsCpu(execute(c)) /\ IsCpu(nmi(c))
<1> SUFFICES ASSUME NEW c, IsCpu(c) PROVE IsCpu(execute(c)) /\ IsCpu(nmi(c))
  OBVIOUS
<1> DEFINE d == decodeInstruction(c.mem, c.pc)
<1>1. IsByteMap(c.mem) /\ c.pc \in Int
  BY CpuParts, Numbers, Zenon
<1>2. Executable(d.ins) /\ d.len \in Int
  BY <1>1, DecodedIsExecutable DEF DecodesWell
<1>3. execute(c) = c \/ execute(c) = executeDecoded(c, d)
  BY DEF execute
<1> HIDE DEF d
<1>4. IsCpu(executeDecoded(c, d))
  BY <1>2, StepTypedBy, Zenon
<1> QED BY <1>3, <1>4, NmiTyped, Zenon
=============================================================================
