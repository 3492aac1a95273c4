------------------------------ MODULE AzmAssembly ------------------------------
(* AZM's assembly of a list of source items.  Address planning walks the items     *)
(* again and again until labels and equates settle, each walk looking symbols up   *)
(* in the one before; emission walks them once more, with a placement of its own,  *)
(* and writes the bytes.  Nothing but the two walks' agreement makes a label the   *)
(* address of the bytes that follow it.                                            *)
EXTENDS AzmEncoder, FiniteSets

VARIABLES
  source,     \* the items being assembled
  stage,      \* planning, reporting, emitting, assembled or rejected
  pass,       \* planning walks made
  known,      \* what the last walk found: labels, equates, origin
  settled,    \* the last walk found what it looked symbols up in
  out         \* the emission's context

assemblyVars == <<source, stage, pass, known, settled, out>>

(* ---------------------------------- items ----------------------------------- *)
(* sym - minus + off, where either symbol can be missing and "$" is the current    *)
(* location.                                                                       *)
Expr(sym, minus, off) == [sym |-> sym, minus |-> minus, off |-> off]
Num(n) == Expr("", "", n)
Sym(s) == Expr(s, "", 0)
Literal == Num(0)       \* an instruction whose operand is written out in full

Item(kind, name, e, arg, ins) == [kind |-> kind, name |-> name, e |-> e, arg |-> arg, ins |-> ins]
NoIns == Ins("", None, None, 0)
Org(e)       == Item("org", "", e, 0, NoIns)
Label(l)     == Item("label", l, Literal, 0, NoIns)
Equ(s, e)    == Item("equ", s, e, 0, NoIns)
Data(b)      == Item("db", "", Num(b), 0, NoIns)
Reserve(e)   == Item("ds", "", e, 0, NoIns)            \* .ds n
Filled(e, b) == Item("ds", "", e, b + 1, NoIns)        \* .ds n, fill
Align(n)     == Item("align", "", Num(n), 0, NoIns)
Code(ins)    == Item("instruction", "", Literal, 0, ins)
CodeTo(ins, e) == Item("instruction", "", e, 1, ins)   \* the operand is the expression
End          == Item("end", "", Literal, 0, NoIns)
Routine      == Item("routine", "", Literal, 0, NoIns) \* .routine, before a label

Undefined == -1000000     \* stands for the number there is not
EmptyMap == [x \in {} |-> 0]

(* What a symbol stands for at an address: a label's address, else what an equate   *)
(* says, which is looked up where the equate stands; an equate that is being looked  *)
(* up already has no value.                                                         *)
Difference(left, right, off) == IF Undefined \in {left, right} THEN Undefined ELSE left - right + off
Query(t, visiting) == [name |-> t, visiting |-> visiting \cup {t}]
Meaning(t, here, labels, equates, visiting, value) ==
  IF t = "" THEN 0
  ELSE IF t = "$" THEN here
  ELSE IF t \in DOMAIN labels THEN labels[t]
  ELSE IF t \in DOMAIN equates \ visiting THEN value[Query(t, visiting)]
  ELSE Undefined
evaluateSymbol(s, here, labels, equates) ==
  LET value[q \in [name : DOMAIN equates, visiting : SUBSET DOMAIN equates]] ==
        LET i == equates[q.name]
        IN Difference(Meaning(i.e.sym, i.at, labels, equates, q.visiting, value),
                      Meaning(i.e.minus, i.at, labels, equates, q.visiting, value), i.e.off)
  IN Meaning(s, here, labels, equates, {}, value)

evaluateExpression(e, here, labels, equates) ==
  Difference(evaluateSymbol(e.sym, here, labels, equates), evaluateSymbol(e.minus, here, labels, equates), e.off)

(* -------------------------------- placement --------------------------------- *)
Unset == Undefined
createPlacementState ==
  [active |-> "code", code |-> 0, data |-> 0, codeBase |-> Unset, dataBase |-> Unset]

Storage == {"db", "ds"}
placementForOrg(items, k) ==
  LET after == SelectSeq(SubSeq(items, k + 1, Len(items)), LAMBDA i : i.kind \notin {"label", "equ"})
  IN IF after # <<>> /\ Head(after).kind \in Storage THEN "data" ELSE "code"

BaseOf(p) == IF p.active = "data" THEN p.dataBase ELSE p.codeBase
OffsetOf(p) == IF p.active = "data" THEN p.data ELSE p.code
placementAddress(p) == (IF BaseOf(p) = Unset THEN 0 ELSE BaseOf(p)) + OffsetOf(p)

(* The first .org of a kind is its base; a later one only ever moves forward.     *)
applyOrg(p, target) ==
  IF BaseOf(p) = Unset /\ p.active = "data" THEN [p EXCEPT !.dataBase = target]
  ELSE IF BaseOf(p) = Unset THEN [p EXCEPT !.codeBase = target]
  ELSE IF target - BaseOf(p) > OffsetOf(p) THEN [p EXCEPT ![p.active] = target - BaseOf(p)]
  ELSE p
advancePlacement(p, size) == [p EXCEPT ![p.active] = @ + size]
advanceCodePlacement(p, size) == [p EXCEPT !.code = @ + size]

alignUp(n, k) == IF n % k = 0 THEN n ELSE n + (k - (n % k))
alignmentPadding(n, k) == alignUp(n, k) - n
ResolvedCodeBase(p) == IF p.codeBase = Unset THEN 0 ELSE p.codeBase
absoluteCodeAddress(p) == ResolvedCodeBase(p) + p.code
absoluteDataAddress(p) ==
  (IF p.dataBase = Unset THEN alignUp(absoluteCodeAddress(p), 2) ELSE p.dataBase) + p.data
activePlacementAddress(p) == IF p.active = "data" THEN absoluteDataAddress(p) ELSE absoluteCodeAddress(p)

(* ----------------------------- address planning ----------------------------- *)
(* p: one walk under way; names: where it looks symbols up.                       *)
PlanStart == [at |-> createPlacementState, labels |-> EmptyMap, equates |-> EmptyMap,
              origin |-> Unset, ended |-> FALSE, faulty |-> FALSE]

(* Mutant: an instruction under a data placement leaves that placement behind.     *)
advanceInstructionCodeOnly(at, size) == advanceCodePlacement(at, size)
advanceInstruction(at, size) ==
  LET coded == advanceCodePlacement(at, size)
  IN IF at.active = "data" THEN advancePlacement(coded, size) ELSE coded

PlanDefinition(p, i) ==
  LET taken == i.name \in DOMAIN p.labels \cup DOMAIN p.equates
      here == placementAddress(p.at)
  IN IF taken THEN [p EXCEPT !.faulty = TRUE]
     ELSE IF i.kind = "label" THEN [p EXCEPT !.labels = Put(@, i.name, here)]
     ELSE [p EXCEPT !.equates = Put(@, i.name, [e |-> i.e, at |-> here])]

(* An expression over symbols no walk has found yet leaves the placement alone;   *)
(* the last walk reports it.                                                      *)
PlanItem(p, i, k, names) ==
  LET active == IF i.kind = "org" THEN [p.at EXCEPT !.active = placementForOrg(source, k)] ELSE p.at
      value == evaluateExpression(i.e, placementAddress(active), names.labels, names.equates)
  IN IF p.ended \/ i.kind = "routine" THEN p
     ELSE IF i.kind \in {"label", "equ"} THEN PlanDefinition(p, i)
     ELSE IF i.kind \in {"org", "ds"} /\ value = Undefined THEN [p EXCEPT !.at = active, !.faulty = TRUE]
     ELSE IF i.kind = "org" THEN
            [p EXCEPT !.at = applyOrg(active, value),
                      !.origin = IF @ = Unset THEN value ELSE @]
     ELSE IF i.kind = "ds" THEN [p EXCEPT !.at = advancePlacement(@, value)]
     ELSE IF i.kind = "db" THEN [p EXCEPT !.at = advancePlacement(@, 1)]
     ELSE IF i.kind = "align" THEN [p EXCEPT !.at = advancePlacement(@, alignmentPadding(placementAddress(@), value))]
     ELSE IF i.kind = "instruction" THEN [p EXCEPT !.at = advanceInstruction(@, instructionSize(i.ins))]
     ELSE [p EXCEPT !.ended = TRUE]

(* The first walk has no walk before it and uses what it has found so far.        *)
buildAddressStateOnce(first) ==
  LET walk[k \in 0..Len(source)] ==
        IF k = 0 THEN PlanStart
        ELSE LET p == walk[k - 1] IN PlanItem(p, source[k], k, IF first THEN p ELSE known)
  IN walk[Len(source)]

Found(p) == [labels |-> p.labels, equates |-> p.equates, origin |-> p.origin]
MaxWalks == IF Len(source) + 1 > 4 THEN Len(source) + 1 ELSE 4

(* One walk of the loop; the loop ends when two walks in a row found the same.     *)
PlanningPass ==
  /\ stage = "planning"
  /\ LET p == buildAddressStateOnce(pass = 0)
     IN /\ known' = Found(p)
        /\ pass' = pass + 1
        /\ settled' = (pass > 0 /\ Found(p) = known)
        /\ stage' = IF (pass > 1 /\ Found(p) = known) \/ pass = MaxWalks THEN "reporting" ELSE "planning"
  /\ UNCHANGED <<source, out>>

(* ---------------------------------- emission -------------------------------- *)
EmitStart == [at |-> createPlacementState, image |-> EmptyMap, reserved |-> {}, segments |-> <<>>,
              next |-> 1, ended |-> FALSE, faulty |-> FALSE]

(* The walk whose labels are used, the only one that reports what is wrong.       *)
ReportingPass ==
  /\ stage = "reporting"
  /\ LET p == buildAddressStateOnce(FALSE)
     IN /\ known' = Found(p)
        /\ settled' = (Found(p) = known)
        /\ stage' = IF p.faulty THEN "rejected" ELSE "emitting"
  /\ out' = EmitStart
  /\ UNCHANGED <<source, pass>>

ValueOf(e, here) == evaluateExpression(e, here, known.labels, known.equates)
Written(i, here) == IF i.arg = 0 THEN i.ins ELSE [i.ins EXCEPT !.src.val = ValueOf(i.e, here)]
writeImageBytes(image, start, bytes) ==
  LET written == start..(start + Len(bytes) - 1)
  IN [a \in DOMAIN image \cup written |-> IF a \in written THEN bytes[a - start + 1] % 256 ELSE image[a]]
Run(n, b) == [k \in 1..(IF n > 0 THEN n ELSE 0) |-> b]
Segment(start, end, k) == IF end <= start THEN <<>> ELSE <<[start |-> start, end |-> end, item |-> k]>>

(* Data goes to the active placement, and advances it by what was written.        *)
EmitData(o, k, bytes, size) ==
  LET here == activePlacementAddress(o.at)
  IN [o EXCEPT !.image = writeImageBytes(@, here, bytes), !.at = advancePlacement(@, size),
               !.segments = @ \o Segment(here, here + Len(bytes), k)]
emitDs(o, k, i) ==
  LET here == activePlacementAddress(o.at)
      size == ValueOf(i.e, here)
  IN IF size = Undefined THEN [o EXCEPT !.faulty = TRUE]
     ELSE IF i.arg > 0 THEN EmitData(o, k, Run(size, i.arg - 1), size)
     ELSE [o EXCEPT !.reserved = @ \cup here..(here + size - 1), !.at = advancePlacement(@, size)]
emitOrg(o, k, i) ==
  LET active == [o.at EXCEPT !.active = placementForOrg(source, k)]
      value == ValueOf(i.e, placementAddress(active))
  IN IF value = Undefined THEN [o EXCEPT !.at = active, !.faulty = TRUE]
                          ELSE [o EXCEPT !.at = applyOrg(active, value)]

(* An instruction always goes to the code placement, assembled for that address;   *)
(* under a data placement the same bytes are also written there.                   *)
emitProgramInstruction(o, k, i) ==
  LET here == absoluteCodeAddress(o.at)
      ins == Written(i, here)
      good == ins.src.val # Undefined /\ Assembles(ins, here)
      bytes == IF good THEN Emitted(ins, here) ELSE <<>>
      size == instructionSize(ins)
      coded == [o EXCEPT !.image = writeImageBytes(@, here, bytes), !.at = advanceCodePlacement(@, size),
                         !.segments = @ \o Segment(here, here + size, k), !.faulty = @ \/ ~good]
  IN IF o.at.active = "code" THEN coded
     ELSE [coded EXCEPT !.image = writeImageBytes(@, absoluteDataAddress(o.at), bytes),
                        !.at = advancePlacement(@, size)]

EmitItem(o, k) ==
  LET i == source[k]
      here == activePlacementAddress(o.at)
  IN IF o.ended THEN o
     ELSE IF i.kind \in {"label", "equ", "routine"} THEN o
     ELSE IF i.kind = "end" THEN [o EXCEPT !.ended = TRUE]
     ELSE IF i.kind = "org" THEN emitOrg(o, k, i)
     ELSE IF i.kind = "db" THEN EmitData(o, k, <<i.e.off>>, 1)
     ELSE IF i.kind = "ds" THEN emitDs(o, k, i)
     ELSE IF i.kind = "align" THEN LET n == alignmentPadding(here, ValueOf(i.e, here)) IN EmitData(o, k, Run(n, 0), n)
     ELSE emitProgramInstruction(o, k, i)

Emit ==
  /\ stage = "emitting"
  /\ out.next <= Len(source)
  /\ out' = [EmitItem(out, out.next) EXCEPT !.next = out.next + 1]
  /\ UNCHANGED <<source, stage, pass, known, settled>>

(* The lowest address written.                                                    *)
ImageStart == IF DOMAIN out.image = {} THEN 0 ELSE CHOOSE a \in DOMAIN out.image : \A b \in DOMAIN out.image : a <= b

FinishEmission ==
  /\ stage = "emitting"
  /\ out.next > Len(source)
  /\ stage' = IF out.faulty THEN "rejected" ELSE "assembled"
  /\ UNCHANGED <<source, pass, known, settled, out>>

AssemblyInit(sources) ==
  /\ source \in sources
  /\ stage = "planning"
  /\ pass = 0
  /\ known = [labels |-> EmptyMap, equates |-> EmptyMap, origin |-> Unset]
  /\ settled = FALSE
  /\ out = EmitStart
AssemblyNext == PlanningPass \/ ReportingPass \/ Emit \/ FinishEmission
=============================================================================
