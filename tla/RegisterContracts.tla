--------------------------- MODULE RegisterContracts ---------------------------
(* AZM's register-contract analysis of a program: its routines are cut out of the  *)
(* source items, their summaries are inferred again and again until no summary     *)
(* changes, and at every call the callee's writes are held against what the caller  *)
(* still needs.  Declared contracts, monitor profiles and .expectout are left out: *)
(* every routine is a bare .routine.                                                *)
EXTENDS AzmAssembly, RoutineSummary

CONSTANT PrivateLabels   \* the labels written with a leading underscore

VARIABLES
  analysis,    \* off, summarising, liveness or checked
  routines,    \* the routines of the program, in order
  summaries,   \* what is inferred of each so far
  summaryPass, \* passes made
  live         \* per routine: the units live before and after each instruction

contractVars == <<analysis, routines, summaries, summaryPass, live>>

(* ---------------------------- cutting out routines -------------------------- *)
TargetOf(i) ==
  IF i.arg = 1 /\ i.e.sym # "$" /\ i.e.minus = "" /\ i.e.off = 0 THEN i.e.sym ELSE ""
startRoutine(l) == [name |-> l, labels |-> {l}, entryLabels |-> {l}, instructions |-> <<>>]
toInstruction(i, labels) ==
  [ins |-> i.ins, target |-> TargetOf(i), private |-> TargetOf(i) \in PrivateLabels, labels |-> labels]

(* b: a .routine waiting for its label, the routine being filled, those done.      *)
flushRoutine(b) == [b EXCEPT !.done = @ \o b.active, !.active = <<>>]
handleLabel(b, l) ==
  LET r == Head(b.active)
  IN CASE l \in PrivateLabels ->
            IF b.active = <<>> THEN b ELSE [b EXCEPT !.active = <<[r EXCEPT !.labels = @ \cup {l}]>>]
       [] b.active # <<>> /\ ~b.pending /\ r.instructions = <<>> ->
            [b EXCEPT !.active = <<[r EXCEPT !.labels = @ \cup {l}, !.entryLabels = @ \cup {l}]>>]
       [] b.pending -> [flushRoutine(b) EXCEPT !.pending = FALSE, !.active = <<startRoutine(l)>>]
       [] OTHER -> flushRoutine(b)
handleItem(b, i) ==
  CASE i.kind = "routine" -> [flushRoutine(b) EXCEPT !.pending = TRUE]
    [] i.kind = "label" -> handleLabel(b, i.name)
    [] i.kind = "instruction" /\ b.active # <<>> ->
         LET r == Head(b.active)
         IN [b EXCEPT !.active = <<[r EXCEPT !.instructions = Append(@, toInstruction(i, r.labels))]>>]
    [] OTHER -> b
buildRoutines(items) ==
  flushRoutine(FoldLeft(handleItem, [pending |-> FALSE, active |-> <<>>, done |-> <<>>], items)).done

(* --------------------------- summaries to a fixed point --------------------- *)
EntryPoints == UNION {routines[k].entryLabels : k \in DOMAIN routines}
RoutineAt(l) == CHOOSE k \in DOMAIN routines : l \in routines[k].entryLabels
OptimisticSummaries == [l \in EntryPoints |-> emptyRoutineSummary]
SummaryByName == [l \in EntryPoints |-> summaries[RoutineAt(l)]]
summarizeRoutines(byName) == [k \in DOMAIN routines |-> inferRoutineSummary(routines[k], byName)]
(* Mutant: the summaries are inferred twice, whatever the routines call.            *)
MaxPassesTwo == 1
MaxPasses == Len(routines) + 2

(* Every pass works from the summaries of the pass before; the first believes that *)
(* every routine of the program does nothing.                                      *)
SummaryPass ==
  /\ analysis = "summarising"
  /\ summaries' = summarizeRoutines(IF summaryPass = 0 THEN OptimisticSummaries ELSE SummaryByName)
  /\ summaryPass' = summaryPass + 1
  /\ analysis' = IF summaryPass > 0 /\ (summaries' = summaries \/ summaryPass = MaxPasses)
                 THEN "liveness" ELSE "summarising"
  /\ UNCHANGED <<routines, live>>

(* --------------------------------- liveness --------------------------------- *)
IsConditional(routine, k) == Instruction(routine, k).ins.arg > 0
LiveSuccessors(routine, k) ==
  IF (\E b \in boundarySummary(routine, Instruction(routine, k), SummaryByName) : b.noreturn)
       /\ ~IsConditional(routine, k)
  THEN {} ELSE instructionSuccessors(routine, k, TRUE)
(* Mutant: OR A never reads A.                                                     *)
semanticReadsNeverTested(i, e, liveAfter) ==
  IF i.mn \in {"or", "and"} /\ i.src = R8("a") THEN e.reads \ {"a"} ELSE e.reads
(* OR A only reads A for the flags it derives from it.                             *)
semanticReadsForLiveness(i, e, liveAfter) ==
  IF i.mn \in {"or", "and"} /\ i.src = R8("a") /\ liveAfter \cap {"zero", "sign", "parity"} = {}
  THEN e.reads \ {"a"} ELSE e.reads
transferLiveBefore(routine, k, liveAfter) ==
  LET item == Instruction(routine, k)
      e == EffectOf(item)
      callee == boundarySummary(routine, item, SummaryByName)
      lost == IF IsConditional(routine, k) THEN {} ELSE UNION {b.mayWrite : b \in callee}
      written == IF item.ins.mn = "call" /\ IsConditional(routine, k) THEN {} ELSE e.writes
  IN (((liveAfter \ lost) \cup UNION {b.mayRead : b \in callee}) \ written)
        \cup semanticReadsForLiveness(item.ins, e, liveAfter)

(* One backward walk over a routine, in place.                                     *)
LiveStart == [k \in DOMAIN routines |->
                [before |-> [j \in DOMAIN routines[k].instructions |-> {}],
                 after |-> [j \in DOMAIN routines[k].instructions |-> {}], passes |-> 0, changed |-> TRUE]]
WalkBack(routine, l) ==
  LET n == Len(routine.instructions)
      visit(w, j) ==
        LET k == n + 1 - j
            after == UNION {w.before[m] : m \in LiveSuccessors(routine, k)}
        IN [w EXCEPT !.after[k] = after, !.before[k] = transferLiveBefore(routine, k, after)]
  IN FoldLeft(visit, l, [j \in 1..n |-> j])
MaxLivePasses(routine) == IF 4 * Len(routine.instructions) > 8 THEN 4 * Len(routine.instructions) ELSE 8
Unsettled == {k \in DOMAIN live : live[k].changed /\ live[k].passes < MaxLivePasses(routines[k])}
LivenessPass ==
  /\ analysis = "liveness"
  /\ \E k \in Unsettled :
       /\ \A j \in Unsettled : k <= j
       /\ LET w == WalkBack(routines[k], live[k])
          IN live' = [live EXCEPT ![k] = [w EXCEPT !.passes = @ + 1,
                        !.changed = (w.before # live[k].before \/ w.after # live[k].after)]]
  /\ UNCHANGED <<analysis, routines, summaries, summaryPass>>
LivenessDone ==
  /\ analysis = "liveness" /\ Unsettled = {}
  /\ analysis' = "checked"
  /\ UNCHANGED <<routines, summaries, summaryPass, live>>

(* The units each call of a routine that returns may take from its caller.         *)
findRegisterContractsConflicts ==
  {c \in [routine : DOMAIN routines, index : UNION {DOMAIN routines[k].instructions : k \in DOMAIN routines},
          unit : Units] :
     /\ c.index \in DOMAIN routines[c.routine].instructions
     /\ Instruction(routines[c.routine], c.index).ins.mn = "call"
     /\ c.unit \in live[c.routine].after[c.index]
     /\ \E b \in boundarySummary(routines[c.routine], Instruction(routines[c.routine], c.index), SummaryByName) :
          ~b.noreturn /\ c.unit \in b.mayWrite}

ContractsInit(asked) ==
  /\ routines = IF asked THEN buildRoutines(source) ELSE <<>>
  /\ analysis = IF asked THEN "summarising" ELSE "off"
  /\ summaries = [k \in DOMAIN routines |-> emptyRoutineSummary]
  /\ summaryPass = 0
  /\ live = LiveStart
ContractsNext == SummaryPass \/ LivenessPass \/ LivenessDone
=============================================================================
