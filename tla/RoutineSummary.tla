----------------------------- MODULE RoutineSummary -----------------------------
(* How AZM infers, from a routine's instructions alone, what a call of it reads,   *)
(* writes and leaves as it found: every path is followed with, for each unit, a     *)
(* token saying whose value it holds.  A routine is a record of a name, its labels  *)
(* and its instructions, each with the labels seen so far and the symbol it         *)
(* branches to.                                                                     *)
EXTENDS RegisterEffects, Sequences, FiniteSetsExt

TRACKED_UNITS == Units \ StackPointer
GENERAL_REGISTER_UNITS == Bytes8
CONTRACT_FLAG_UNITS == {"carry", "zero"}
(* Register units in the order a push stacks them.                                *)
UnitOrder == [bc |-> <<"b", "c">>, de |-> <<"d", "e">>, hl |-> <<"h", "l">>,
              ix |-> <<"ixh", "ixl">>, iy |-> <<"iyh", "iyl">>, sp |-> <<"sph", "spl">>,
              af |-> <<"a", "sign", "zero", "halfCarry", "parity", "carry">>]
RegisterUnits(o) == IF o.kind = "reg16" THEN UnitOrder[o.reg] ELSE <<o.reg>>

(* -------------------------------- control flow ------------------------------ *)
Instruction(routine, k) == routine.instructions[k]
EffectOf(item) == getZ80InstructionEffect(item.ins)
labelIndex(routine, l) ==
  {k \in DOMAIN routine.instructions :
     /\ l \in routine.instructions[k].labels
     /\ \A j \in 1..(k - 1) : l \notin routine.instructions[j].labels}
NextIndex(routine, k) == IF k < Len(routine.instructions) THEN {k + 1} ELSE {}
SuccessorsUnder(e, routine, k, boundaryFallthrough) ==
  LET next == NextIndex(routine, k)
      target == labelIndex(routine, Instruction(routine, k).target)
  IN CASE e.control = "fallthrough" -> next
       [] e.control = "jump" -> IF e.conditional THEN target \cup next ELSE target
       [] e.control = "return" -> IF e.conditional THEN next ELSE {}
       [] e.control \in {"call", "rst"} -> IF boundaryFallthrough THEN next ELSE {}
       [] e.control = "unknown" -> {}
instructionSuccessors(routine, k, boundaryFallthrough) ==
  SuccessorsUnder(EffectOf(Instruction(routine, k)), routine, k, boundaryFallthrough)

(* ------------------------------ calls and tails ----------------------------- *)
isExternalTailJump(routine, item) ==
  /\ item.ins.mn \in {"jp", "jr"}
  /\ item.target # "" /\ ~item.private
  /\ item.target \notin routine.labels
isOpaqueBoundary(routine, item, e) ==
  \/ e.control \in {"call", "rst"}
  \/ isExternalTailJump(routine, item) /\ ~e.conditional
(* The summaries known of what the instruction enters: none or one.               *)
boundarySummary(routine, item, summaries) ==
  IF (item.ins.mn = "call" \/ isExternalTailJump(routine, item)) /\ item.target \in DOMAIN summaries
  THEN {summaries[item.target]} ELSE {}

(* ----------------------------- the state of a path -------------------------- *)
createInferenceState ==
  [tokens |-> [u \in TRACKED_UNITS |-> u], stack |-> <<>>, mayRead |-> {},
   consumed |-> {}, intended |-> {}, balanced |-> TRUE, unknown |-> FALSE]
readToken(s, u) == IF u \in TRACKED_UNITS THEN s.tokens[u] ELSE "unknown"
SetTokens(s, units, origin) ==
  [s EXCEPT !.tokens = [u \in TRACKED_UNITS |-> IF u \in units THEN origin ELSE @[u]]]
Forget(s, units) == [SetTokens(s, units, "unknown") EXCEPT !.consumed = @ \ units, !.intended = @ \ units]

semanticReadOrigins(s, units) ==
  (units \ TRACKED_UNITS) \cup ({readToken(s, u) : u \in units \cap TRACKED_UNITS} \ {"produced", "unknown"})
Produced(s, units) == {u \in units \cap TRACKED_UNITS : s.tokens[u] = "produced"}

IsSelfOperand(i) == i.mn \in {"or", "and", "xor"} /\ i.src = R8("a")
(* OR A or AND A just before SBC HL is only there to clear the carry.             *)
isCarryClearBeforeSbcHl(routine, k) ==
  /\ IsSelfOperand(Instruction(routine, k).ins) /\ Instruction(routine, k).ins.mn # "xor"
  /\ k < Len(routine.instructions)
  /\ Instruction(routine, k + 1).ins.mn = "sbc" /\ Instruction(routine, k + 1).ins.dst = R16("hl")
intentOutputUnits(i) ==
  CASE i.mn \in {"scf", "ccf"} -> {"carry"}
    [] i.mn = "cp" -> IF i.src = Imm(0) THEN {"a", "carry", "zero"} ELSE {"carry", "zero"}
    [] IsSelfOperand(i) -> {"a", "carry", "zero"}
    [] OTHER -> {}
ResidueWrites(i) ==
  CASE i.mn = "djnz" -> {"b"}
    [] i.mn \in {"ldi", "ldir", "ldd", "lddr"} -> Counters
    [] OTHER -> {}

isPureTokenTransfer(i) ==
  i.mn = "ex" \/ (i.mn = "ld" /\ IsRegister(i.dst) /\ (IsRegister(i.src) \/ i.src.kind = "imm"))

(* c: the instruction with everything the step needs to know of it.               *)
ContextUnder(e, routine, k, summaries) ==
  LET item == Instruction(routine, k)
      carryClear == isCarryClearBeforeSbcHl(routine, k)
  IN [ins |-> item.ins, effect |-> e, known |-> boundarySummary(routine, item, summaries),
      carryClear |-> carryClear, returns |-> e.control = "return",
      intent |-> IF carryClear THEN {} ELSE intentOutputUnits(item.ins),
      reads |-> IF carryClear THEN e.reads \ {"a"} ELSE e.reads,
      opaque |-> isOpaqueBoundary(routine, item, e)]
Context(routine, k, summaries) == ContextUnder(EffectOf(Instruction(routine, k)), routine, k, summaries)

recordInstructionReads(s, c) ==
  LET semantic == c.effect.stack # "push" /\ ~isPureTokenTransfer(c.ins)
      compared == IF c.ins.mn = "cp" THEN {"a"} ELSE {}
      own == IF semantic THEN [s EXCEPT !.mayRead = @ \cup semanticReadOrigins(s, c.reads),
                                        !.consumed = @ \cup Produced(s, c.reads \ (c.effect.writes \cup compared))]
             ELSE s
      looped == IF c.ins.mn = "djnz" THEN [own EXCEPT !.consumed = @ \cup Produced(s, TRACKED_UNITS), !.intended = {}]
                ELSE own
      read == UNION {b.mayRead : b \in c.known}
  IN [looped EXCEPT !.mayRead = @ \cup semanticReadOrigins(s, read), !.consumed = @ \cup Produced(s, read)]

PopTokens(s, units) ==
  LET top == s.stack[Len(s.stack)]
      rest == [s EXCEPT !.stack = SubSeq(@, 1, Len(@) - 1)]
      set == {units[k] : k \in DOMAIN units}
      at(u) == CHOOSE k \in DOMAIN units : units[k] = u
  IN CASE s.stack = <<>> ->
            [SetTokens(s, set, "unknown") EXCEPT !.balanced = FALSE, !.intended = @ \ set]
       [] Len(top) # Len(units) -> Forget(rest, set)
       [] OTHER -> [Forget(rest, set) EXCEPT !.tokens = [u \in TRACKED_UNITS |-> IF u \in set THEN top[at(u)] ELSE @[u]]]

applyStackEffect(s, c) ==
  LET entered == [s EXCEPT !.balanced = @ /\ (\A b \in c.known : b.balanced) /\ (c.returns => s.stack = <<>>),
                           !.unknown = @ \/ (\E b \in c.known : b.unknown)]
      trusted == c.returns \/ \E b \in c.known : b.balanced /\ ~b.unknown
      units == UnitOrder[c.ins.dst.reg]
  IN CASE c.effect.stack = "push" ->
            [s EXCEPT !.stack = Append(@, [k \in DOMAIN units |-> readToken(s, units[k])])]
       [] c.effect.stack = "pop" -> PopTokens(s, units)
       [] c.effect.stack = "unknown" /\ ~trusted -> [entered EXCEPT !.unknown = TRUE]
       [] OTHER -> entered

(* LD between registers and EX DE,HL carry tokens over; any other LD to a register *)
(* makes a new value.                                                              *)
applyPureTokenTransfer(s, i) ==
  LET dst == RegisterUnits(i.dst)  src == RegisterUnits(i.src)
      set == {dst[k] : k \in DOMAIN dst}
      at(u) == CHOOSE k \in DOMAIN dst : dst[k] = u
      swapped == [d |-> "h", e |-> "l", h |-> "d", l |-> "e"]
  IN CASE i.mn = "ex" /\ i.dst = R16("de") ->
            [s EXCEPT !.tokens = [u \in TRACKED_UNITS |-> IF u \in DOMAIN swapped THEN @[swapped[u]] ELSE @[u]]]
       [] i.mn = "ex" -> s
       [] IsRegister(i.src) /\ Len(src) = Len(dst) ->
            [s EXCEPT !.tokens = [u \in TRACKED_UNITS |-> IF u \in set THEN readToken(s, src[at(u)]) ELSE @[u]],
                      !.consumed = (@ \cup Produced(s, {src[k] : k \in DOMAIN src})) \ set]
       [] OTHER -> [SetTokens(s, set, "produced") EXCEPT !.consumed = @ \ set]
TransferWrites(i) ==
  CASE ~isPureTokenTransfer(i) -> {}
    [] i.mn = "ex" -> IF i.dst = R16("de") THEN {"d", "e", "h", "l"} ELSE {}
    [] OTHER -> operandWrites(i.dst)

(* A summary without relations, as every inferred one is, only says what may be lost. *)
applyBoundaryOrOpaqueWrites(s, c) ==
  CASE c.known # {} -> Forget(s, UNION {b.mayWrite : b \in c.known} \ StackPointer)
    [] c.opaque -> Forget(s, TRACKED_UNITS)
    [] OTHER -> s

applyEffectWrites(s, c) ==
  LET popped == IF c.effect.stack = "pop" THEN reg16Units(c.ins.dst.reg) ELSE {}
      self == IF IsSelfOperand(c.ins) /\ c.ins.mn # "xor" THEN {"a"} ELSE {}
      written == c.effect.writes \ (StackPointer \cup popped \cup TransferWrites(c.ins) \cup self)
      residue == written \cap ResidueWrites(c.ins)
  IN [SetTokens(SetTokens(s, written, "produced"), residue, "unknown")
        EXCEPT !.consumed = @ \ written,
               !.intended = ((@ \ written) \cup (written \cap c.intent))
                              \cup (IF c.carryClear THEN {} ELSE self) \cup (c.intent \ c.effect.writes)]

inferInstructionSummaryStep(s, c) ==
  LET stacked == applyStackEffect(recordInstructionReads(s, c), c)
      moved == IF isPureTokenTransfer(c.ins) THEN applyPureTokenTransfer(stacked, c.ins) ELSE stacked
  IN applyEffectWrites(applyBoundaryOrOpaqueWrites(moved, c), c)

(* ---------------------------- every path of a routine ----------------------- *)
Node(k, s) == [index |-> k, state |-> s]
EntryNode == Node(1, createInferenceState)   \* the assembler refuses a routine without instructions
Reached(next, exits, ends) == [next |-> next, exits |-> exits, ends |-> ends]
(* A path with nowhere to go on to leaves the routine.                            *)
Onward(successors, s) ==
  IF successors = {} THEN Reached({}, {s}, {}) ELSE Reached({Node(k, s) : k \in successors}, {}, {})
Forked(left, onward) == [onward EXCEPT !.exits = @ \cup {left}]

VisitUnder(c, routine, n) ==
  LET after == inferInstructionSummaryStep(n.state, c)
      skipped == IF c.returns THEN [c EXCEPT !.effect.stack = "none", !.returns = FALSE]
                              ELSE [c EXCEPT !.known = {}]
      conditional == c.effect.conditional /\ c.effect.control \in {"call", "jump"}
  IN CASE c.effect.conditional /\ (c.returns \/ (c.effect.control = "jump" /\ c.known # {})) ->
            Forked(after, Onward(SuccessorsUnder(c.effect, routine, n.index, FALSE),
                                 inferInstructionSummaryStep(n.state, skipped)))
       [] (\E b \in c.known : b.noreturn) /\ ~conditional -> Reached({}, {}, {after})
       [] isExternalTailJump(routine, Instruction(routine, n.index)) /\ ~conditional -> Reached({}, {after}, {})
       [] OTHER -> Onward(SuccessorsUnder(c.effect, routine, n.index, TRUE), after)
Visit(routine, n, summaries) == VisitUnder(Context(routine, n.index, summaries), routine, n)

Tokens == STRING   \* a unit, "produced" or "unknown"
InferenceStates ==
  [tokens : [TRACKED_UNITS -> Tokens], stack : Seq(Seq(Tokens)), mayRead : SUBSET Tokens,
   consumed : SUBSET Tokens, intended : SUBSET Tokens, balanced : BOOLEAN, unknown : BOOLEAN]
Nodes == [index : Nat, state : InferenceStates]
Explored(routine, summaries) ==
  LET reach[seen \in SUBSET Nodes, frontier \in SUBSET Nodes] ==
        IF frontier = {} THEN seen
        ELSE LET known == seen \cup frontier
                 found == UNION {Visit(routine, n, summaries).next : n \in frontier}
             IN reach[known, found \ known]
  IN reach[{}, {EntryNode}]

(* ------------------------------ stack discipline ---------------------------- *)
(* A pass of its own over the paths, with only how many frames are stacked.       *)
Depth(d, c) ==
  CASE c.effect.stack = "push" -> d + 1
    [] c.effect.stack = "pop" -> IF d = 0 THEN 0 ELSE d - 1
    [] OTHER -> d
ProofSuccessors(routine, p, summaries) ==
  {[index |-> k, depth |-> Depth(p.depth, Context(routine, p.index, summaries))] :
     k \in instructionSuccessors(routine, p.index, TRUE)}
ProofNodes == [index : Nat, depth : Nat]
ProofStates(routine, summaries) ==
  LET reach[seen \in SUBSET ProofNodes, frontier \in SUBSET ProofNodes] ==
        IF frontier = {} THEN seen
        ELSE LET known == seen \cup frontier
                 found == UNION {ProofSuccessors(routine, p, summaries) : p \in frontier}
             IN reach[known, found \ known]
  IN reach[{}, {[index |-> 1, depth |-> 0]}]

isTerminalExit(routine, p, c) ==
  /\ SuccessorsUnder(c.effect, routine, p.index, TRUE) = {}
  /\ c.returns \/ c.opaque \/ c.effect.control = "fallthrough"
KeepsStack(routine, p, c) ==
  /\ c.returns \/ (c.effect.control = "jump" /\ c.effect.conditional /\ c.known # {}) => p.depth = 0
  /\ c.effect.stack = "pop" => p.depth > 0
  /\ isTerminalExit(routine, p, c) => Depth(p.depth, c) = 0
  /\ \A b \in c.known : b.balanced
LosesStack(c) ==
  \/ \E b \in c.known : b.unknown
  \/ c.effect.stack = "unknown" /\ ~c.returns /\ ~\E b \in c.known : b.balanced /\ ~b.unknown
proveStackDiscipline(routine, summaries) ==
  LET states == ProofStates(routine, summaries)
      at(p) == Context(routine, p.index, summaries)
  IN [balanced |-> \A p \in states : KeepsStack(routine, p, at(p)), unknown |-> \E p \in states : LosesStack(at(p))]

(* -------------------------------- the summary ------------------------------- *)
REGISTER_PAIRS == {<<"b", "c">>, <<"d", "e">>, <<"h", "l">>}
(* A register said to be an output although the path leaves it as it was.         *)
PreservedIntents(s) ==
  {u \in (GENERAL_REGISTER_UNITS \cap s.intended) \ s.consumed : s.tokens[u] = u}
MovedPairs(s) ==
  {p \in REGISTER_PAIRS : \A k \in 1..2 : s.tokens[p[k]] \notin {p[k], "produced", "unknown"}}
preservedUnits(s) == {u \in TRACKED_UNITS : s.tokens[u] = u}
(* Outputs are only suggestions to the reader: each is put back among the writes.  *)
PathSummary(s) ==
  [mayRead |-> s.mayRead \cup PreservedIntents(s) \cup UNION {{s.tokens[p[1]], s.tokens[p[2]]} : p \in MovedPairs(s)},
   mayWrite |-> (TRACKED_UNITS \ preservedUnits(s)) \cup PreservedIntents(s),
   preserved |-> preservedUnits(s),
   balanced |-> s.balanced, unknown |-> s.unknown, noreturn |-> FALSE]
mergeAlternativeSummaries(S) ==
  [mayRead |-> UNION {s.mayRead : s \in S}, mayWrite |-> UNION {s.mayWrite : s \in S},
   preserved |-> {u \in TRACKED_UNITS : \A s \in S : u \in s.preserved},
   balanced |-> \A s \in S : s.balanced, unknown |-> \E s \in S : s.unknown, noreturn |-> FALSE]

emptyRoutineSummary ==
  [mayRead |-> {}, mayWrite |-> {}, preserved |-> {}, balanced |-> TRUE, unknown |-> FALSE, noreturn |-> FALSE]

(* A path that comes back to where it was, or calls what never returns, only tells *)
(* what is read, unless no path leaves at all.                                     *)
Summarised(visits, proof) ==
  LET nodes == DOMAIN visits
      arrivals(n) == Cardinality({m \in nodes : n \in visits[m].next}) + (IF n = EntryNode THEN 1 ELSE 0)
      exits == UNION {visits[n].exits : n \in nodes}
      cycles == UNION {visits[n].ends : n \in nodes} \cup {n.state : n \in {m \in nodes : arrivals(m) > 1}}
      left(s) == PathSummary([s EXCEPT !.balanced = @ /\ s.stack = <<>>])
      merged == mergeAlternativeSummaries(IF exits # {} THEN {left(s) : s \in exits} ELSE {PathSummary(s) : s \in cycles})
  IN [merged EXCEPT !.mayRead = @ \cup UNION {PathSummary(s).mayRead : s \in cycles},
                    !.balanced = @ /\ proof.balanced, !.unknown = @ \/ proof.unknown,
                    !.noreturn = (exits = {})]
inferRoutineSummary(routine, summaries) ==
  Summarised([n \in Explored(routine, summaries) |-> Visit(routine, n, summaries)],
             proveStackDiscipline(routine, summaries))
=============================================================================
