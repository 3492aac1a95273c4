------------------------------ MODULE Z80MachineMC ------------------------------
(* The programs assembled and run: single instructions, branches, placements,      *)
(* decimal sums, block copies under an interrupt, and routines with their callers. *)
EXTENDS Z80Machine, TLC

Imm8Values == {0, 1, 129}
Imm16Values == {0, 512}
Displacements == {-1, 2}
PrivateNames == {"_back", "_end"}

(* HL and IX point at data, BC is also a port that answers, SP is away from code.  *)
BusyCpu(flags) ==
  [initCpu EXCEPT !.reg = [a |-> 147, b |-> 1, c |-> 2, d |-> 2, e |-> 128, h |-> 2, l |-> 0,
                           ixh |-> 2, ixl |-> 0, iyh |-> 2, iyl |-> 1, i |-> 5, r |-> 127],
                  !.f = setFlagsFromByte(flags), !.sp = 768, !.ports = (258 :> 77)]
Job(kind, src, c, allowed) ==
  [kind |-> kind, source |-> src, entry |-> 0, cpu |-> c, nmis |-> 0, steps |-> allowed, contracts |-> FALSE]
Halt == Code(Ins("halt", None, None, 0))
ByteData(items) == <<Org(Num(512))>> \o [k \in DOMAIN items |-> Data(items[k])]

(* Every instruction AZM can write, once, with data where it points.               *)
InstructionJobs ==
  {Job("instruction", <<Code(i)>> \o ByteData(<<129, 7, 254>>), BusyCpu(0), 1) :
     i \in StraightInstructions \cup OtherControl}

(* Branches forward and back, within and beyond the reach of a relative one.       *)
BranchSources(i) ==
  {<<CodeTo(i, Sym("there")), Halt, Label("there"), Halt>> \o ByteData(<<4, 3>>),
   <<Label("there"), Code(Nop), CodeTo(i, Sym("there")), Halt>>,
   <<CodeTo(i, Sym("there")), Reserve(Num(127)), Label("there"), Halt>>,
   <<CodeTo(i, Sym("there")), Reserve(Num(128)), Label("there"), Halt>>,
   <<CodeTo(i, Expr("$", "", 5)), Halt>>}
BranchJobs ==
  {[Job("branch", s, [BusyCpu(f) EXCEPT !.sp = 512], 2) EXCEPT !.entry = IF Head(s).kind = "label" THEN 1 ELSE 0] :
     s \in UNION {BranchSources(i) : i \in Branches({0})}, f \in {0, 255, 65, 132}}
  \cup {Job("branch", <<Code(i)>> \o ByteData(<<4, 3>>), [BusyCpu(f) EXCEPT !.sp = 512], 1) :
          i \in OtherControl, f \in {0, 255, 65, 132}}

(* Small programs of origins, labels, equates, data, gaps and code.                *)
PlacementItems ==
  {Org(Num(4)), Org(Sym("n")), Label("x"), Equ("n", Expr("x", "", 3)), Data(7), Reserve(Num(2)),
   Reserve(Expr("x", "", 1)), Filled(Num(2), 9), Align(4), Code(Nop),
   CodeTo(Ins("ld", R8("a"), Imm(0), 0), Sym("x")), End, Routine}
PlacementSources ==
  LET short == UNION {[1..n -> PlacementItems] : n \in 1..3}
  IN short \cup {<<Org(Num(4))>> \o s : s \in short}
PlacementJobs == {Job("placement", s, BusyCpu(0), 0) : s \in PlacementSources}

Decimals == {0, 1, 6, 9, 16, 73, 80, 81, 145, 153}
DecimalJobs ==
  {Job("decimal", <<Code(Ins(m, R8("a"), R8("b"), 0)), Code(Ins("daa", None, None, 0)), Halt>>,
       [BusyCpu(f) EXCEPT !.reg.a = x, !.reg.b = y], 3) :
     m \in {"add", "adc", "sub", "sbc"}, x \in Decimals, y \in Decimals, f \in {0, 211}}

(* Three bytes copied up or down, apart or overlapping, with one key pressed.      *)
CopyJobs ==
  {[Job("copy", <<Code(Ins(m, None, None, 0)), Halt, Org(Num(102)), Code(Ins("retn", None, None, 0))>>
                   \o ByteData(<<1, 2, 3, 4, 5, 6>>),
        SetPair(SetPair(SetPair(BusyCpu(0), "bc", 3), "hl", from), "de", to), 12) EXCEPT !.nmis = 1] :
     m \in {"ldir", "lddr"}, from \in {513, 514}, to \in {512, 513, 514, 515, 520}}

(* ---------------------------------- routines -------------------------------- *)
Move(t, s) == Code(Ins("ld", t, s, 0))
Unary(m, o) == Code(Ins(m, o, None, 0))
Alu(m, o) == Code(Ins(m, R8("a"), o, 0))
Plainly(m) == Code(Ins(m, None, None, 0))
To(m, l, cc) == CodeTo(Ins(m, None, Imm(0), cc), Sym(l))
Ret(cc) == Code(Ins("ret", None, None, cc))
Body ==
  {Unary("push", R16("hl")), Unary("pop", R16("hl")), Unary("pop", R16("de")), Unary("push", R16("af")),
   Move(R8("h"), R8("b")), Move(R8("a"), Imm(129)), Unary("inc", R16("hl")), Unary("dec", R8("b")),
   Code(Ins("ex", R16("de"), R16("hl"), 0)), Plainly("exx"), Alu("xor", R8("a")), Alu("or", R8("a")), Ret(2),
   To("call", "g", 0), To("call", "g", 2), To("jp", "g", 4), To("jr", "_end", 1)}
Callee == <<Routine, Label("g"), To("call", "h", 0), Ret(0), Routine, Label("h"), Unary("inc", R8("c")), Ret(0)>>
CallSource(body) ==
  <<Org(Num(0)), To("call", "f", 0), Halt, Routine, Label("f")>> \o body \o <<Label("_end"), Ret(0)>> \o Callee
Contracted(j) == [j EXCEPT !.contracts = TRUE]
CallJobs ==
  {Contracted(Job("call", CallSource(b), BusyCpu(f), 14)) :
     b \in UNION {[1..n -> Body] : n \in 1..2}, f \in {0, 255}}

Uses ==
  {Move(R8("b"), R8("a")), Alu("or", R8("a")), Alu("add", R8("b")), Alu("adc", R8("b")), Alu("xor", R8("a")),
   Unary("push", R16("hl")), Unary("pop", R16("de")), Move(Indirect("hl"), R8("a")), Ret(2), To("jr", "_end", 2),
   To("call", "h", 4), Move(R8("a"), Imm(1)), Code(Ins("sbc", R16("hl"), R16("de"), 0))}
Losses == {Move(R8("a"), Imm(0)), Plainly("scf"), Unary("inc", R16("hl")), To("call", "h", 0), Alu("xor", R8("a")),
           Move(R8("b"), Imm(1))}
CallerSource(uses, loss) ==
  <<Org(Num(0)), Routine, Label("main"), To("call", "f", 0), Label("_back")>> \o uses
    \o <<Label("_end"), Move(R8("d"), R8("b")), Halt, Routine, Label("f"), loss, Ret(0),
         Routine, Label("h"), Unary("inc", R8("c")), Ret(0)>>
CallersOf(uses) ==
  {Contracted(Job("caller", CallerSource(u, l), BusyCpu(f), 10)) : u \in uses, l \in Losses, f \in {0, 255}}
(* OR A is taken for a test of A: that A is used once more after it goes unseen.    *)
TestedThenUsed(u) ==
  \E k \in DOMAIN u : k + 1 \in DOMAIN u /\ u[k] = Alu("or", R8("a")) /\ "a" \in EffectOf(u[k + 1]).reads
CallerUses == UNION {[1..n -> Uses] : n \in 1..2}
CallerJobs == CallersOf({u \in CallerUses : ~TestedThenUsed(u)})
AccumulatorJobs == CallersOf({u \in CallerUses : TestedThenUsed(u)})

(* Returns that find a return address the stack in ROM never took, an entry left    *)
(* open, and a call that pushes over itself.                                       *)
StackJobs ==
  {[Job("branch", <<Org(Num(4)), CodeTo(Ins("call", None, Imm(0), 0), Sym("there")), Halt, Label("there"),
                    Code(Ins("ret", None, None, 0))>>, [BusyCpu(0) EXCEPT !.rom = r], 3) EXCEPT !.entry = Unset] :
     r \in {{}, {766}, {766, 767}}}
  \cup {Job("branch", <<CodeTo(Ins("call", None, Imm(0), 0), Sym("here")), Label("here"), Halt>>,
            [BusyCpu(0) EXCEPT !.sp = s], 2) : s \in 0..4}

AllJobs == InstructionJobs \cup BranchJobs \cup PlacementJobs \cup DecimalJobs \cup CopyJobs \cup StackJobs
           \cup CallJobs \cup CallerJobs
=============================================================================
