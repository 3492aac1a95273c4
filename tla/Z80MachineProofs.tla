---------------------------- MODULE Z80MachineProofs ----------------------------
(* The assembler's walks end in typed addresses, and the last bytes written are the *)
(* last instruction's: with InstructionsReadBack, what is assembled is what runs.   *)
(* An expression's value is by induction on the equates not yet being looked up, a  *)
(* walk's by induction on the items: each the least number that a set leaves out.   *)
(* And whatever the image holds, what runs it stays a processor (Z80ExecuteProofs),  *)
(* and does to the stack what the step was said to be going to do: the decoder's     *)
(* tables are matched with classifyStepOver, opcode range by opcode range.          *)
EXTENDS Z80Machine, Z80EncodingProofs, Z80ExecuteProofs, FiniteSetTheorems, WellFoundedInduction

(* ------------------------------ induction ----------------------------------- *)
NatLessRel == {ss \in Nat \X Nat : ss[1] < ss[2]}
LEMMA NatLess == IsWellFoundedOn(NatLessRel, Nat)
  BY NatLessThanWellFounded, Zenon DEF OpToRel, NatLessRel

LEMMA LeastNat ==
  ASSUME NEW S \in SUBSET Nat, S # {}
  PROVE  \E n \in S : \A m \in S : n <= m
<1>2. \E x \in S : \A y \in S : ~(<<y, x>> \in NatLessRel)
  BY NatLess, WFMin
<1>3. ASSUME NEW x \in S, NEW y \in S, ~(<<y, x>> \in NatLessRel) PROVE x <= y
  BY <1>3 DEF NatLessRel
<1> QED BY <1>2, <1>3

(* Induction over the natural numbers, the predicate given as a set.               *)
LEMMA NatSetInduction ==
  ASSUME NEW S, 0 \in S, \A n \in Nat : n \in S => n + 1 \in S
  PROVE  Nat \subseteq S
<1>1. SUFFICES ASSUME Nat \ S # {} PROVE FALSE
  OBVIOUS
<1>2. PICK n \in Nat \ S : \A m \in Nat \ S : n <= m
  BY <1>1, LeastNat
<1>3. n # 0
  BY <1>2
<1>4. n - 1 \in Nat /\ n - 1 \in S
  BY <1>2, <1>3
<1> QED BY <1>4, <1>2

(* ------------------------- the meaning of a symbol --------------------------- *)
Queries(equates) == [name : DOMAIN equates, visiting : SUBSET DOMAIN equates]
Step(q, labels, equates, value) ==
  Difference(Meaning(equates[q.name].e.sym, equates[q.name].at, labels, equates, q.visiting, value),
             Meaning(equates[q.name].e.minus, equates[q.name].at, labels, equates, q.visiting, value),
             equates[q.name].e.off)
Values(labels, equates) ==
  CHOOSE value : value = [q \in Queries(equates) |-> Step(q, labels, equates, value)]
Near(equates, n) == {q \in Queries(equates) : Cardinality(DOMAIN equates \ q.visiting) < n}

TypedNames(labels, equates) ==
  /\ \A l \in DOMAIN labels : labels[l] \in Int
  /\ IsFiniteSet(DOMAIN equates)
  /\ \A t \in DOMAIN equates : equates[t].at \in Int /\ equates[t].e.off \in Int

LEMMA SymbolByValues ==
  ASSUME NEW s, NEW here, NEW labels, NEW equates
  PROVE  evaluateSymbol(s, here, labels, equates) = Meaning(s, here, labels, equates, {}, Values(labels, equates))
  BY Zenon DEF evaluateSymbol, Values, Queries, Step

LEMMA UndefinedInt == Undefined \in Int
  BY SMT DEF Undefined

LEMMA DifferenceInt ==
  ASSUME NEW left \in Int, NEW right \in Int, NEW off \in Int
  PROVE  Difference(left, right, off) \in Int
  BY UndefinedInt DEF Difference

(* Looking an equate up, one equate fewer is left to look up.                      *)
LEMMA QueryNearer ==
  ASSUME NEW labels, NEW equates, TypedNames(labels, equates), NEW n \in Nat, NEW q \in Near(equates, n + 1),
         NEW t \in DOMAIN equates \ q.visiting
  PROVE  Query(t, q.visiting) \in Near(equates, n)
<1> DEFINE D == DOMAIN equates
<1>1. q \in Queries(equates) /\ q.visiting \in SUBSET D /\ Cardinality(D \ q.visiting) < n + 1
  BY DEF Near, Queries
<1>2. IsFiniteSet(D \ q.visiting) /\ t \in D \ q.visiting
  BY FS_Difference DEF TypedNames
<1>3. D \ (q.visiting \cup {t}) = (D \ q.visiting) \ {t}
  OBVIOUS
<1>4. Cardinality(D \ (q.visiting \cup {t})) = Cardinality(D \ q.visiting) - 1
  <2> DEFINE S == D \ q.visiting
  <2>1. IsFiniteSet(S) /\ t \in S
    BY <1>2
  <2> HIDE DEF S
  <2>2. Cardinality(S \ {t}) = Cardinality(S) - 1
    BY <2>1, FS_RemoveElement
  <2> QED BY <1>3, <2>2 DEF S
<1>5. Cardinality(D \ q.visiting) \in Nat
  BY <1>2, FS_CardinalityType
<1>6. Query(t, q.visiting) \in Queries(equates)
  BY <1>1 DEF Query, Queries
<1>7. Query(t, q.visiting).visiting = q.visiting \cup {t}
  BY DEF Query
<1>8. Cardinality(D \ Query(t, q.visiting).visiting) < n
  BY <1>1, <1>4, <1>5, <1>7
<1> QED BY <1>6, <1>8 DEF Near

LEMMA MeaningInt ==
  ASSUME NEW s, NEW here \in Int, NEW labels, NEW equates, TypedNames(labels, equates), NEW visiting, NEW value,
         \A t \in DOMAIN equates \ visiting : value[Query(t, visiting)] \in Int
  PROVE  Meaning(s, here, labels, equates, visiting, value) \in Int
<1>1. CASE s = ""
  <2>1. Meaning(s, here, labels, equates, visiting, value) = 0
    BY <1>1, Zenon DEF Meaning
  <2> QED BY <2>1
<1>2. CASE s = "$"
  BY <1>2 DEF Meaning
<1>3. CASE s \notin {"", "$"} /\ s \in DOMAIN labels
  <2>1. Meaning(s, here, labels, equates, visiting, value) = labels[s]
    BY <1>3, Zenon DEF Meaning
  <2> QED BY <1>3, <2>1 DEF TypedNames
<1>4. CASE s \notin {"", "$"} /\ s \notin DOMAIN labels /\ s \in DOMAIN equates \ visiting
  <2>1. Meaning(s, here, labels, equates, visiting, value) = value[Query(s, visiting)]
    BY <1>4, Zenon DEF Meaning
  <2> QED BY <1>4, <2>1
<1>5. CASE s \notin {"", "$"} /\ s \notin DOMAIN labels /\ s \notin DOMAIN equates \ visiting
  <2>1. Meaning(s, here, labels, equates, visiting, value) = Undefined
    BY <1>5, Zenon DEF Meaning
  <2> QED BY <2>1, UndefinedInt
<1> QED BY <1>1, <1>2, <1>3, <1>4, <1>5

LEMMA MeaningSame ==
  ASSUME NEW s, NEW here, NEW labels, NEW equates, NEW visiting, NEW v, NEW w,
         \A t \in DOMAIN equates \ visiting : v[Query(t, visiting)] = w[Query(t, visiting)]
  PROVE  Meaning(s, here, labels, equates, visiting, v) = Meaning(s, here, labels, equates, visiting, w)
  BY DEF Meaning

LEMMA StepSame ==
  ASSUME NEW q, NEW labels, NEW equates, NEW v, NEW w,
         \A t \in DOMAIN equates \ q.visiting : v[Query(t, q.visiting)] = w[Query(t, q.visiting)]
  PROVE  Step(q, labels, equates, v) = Step(q, labels, equates, w)
<1>1. \A s, here : Meaning(s, here, labels, equates, q.visiting, v) = Meaning(s, here, labels, equates, q.visiting, w)
  BY MeaningSame
<1> QED BY <1>1 DEF Step

LEMMA StepInt ==
  ASSUME NEW labels, NEW equates, TypedNames(labels, equates), NEW q \in Queries(equates), NEW v,
         \A t \in DOMAIN equates \ q.visiting : v[Query(t, q.visiting)] \in Int
  PROVE  Step(q, labels, equates, v) \in Int
<1>1. q.name \in DOMAIN equates
  BY DEF Queries
<1>2. \A s : Meaning(s, equates[q.name].at, labels, equates, q.visiting, v) \in Int
  BY <1>1, MeaningInt DEF TypedNames
<1>3. equates[q.name].e.off \in Int
  BY <1>1 DEF TypedNames
<1> QED BY <1>2, <1>3, DifferenceInt DEF Step

(* The recursion over the equates not yet being looked up is well defined.         *)
LEMMA ValuesExist ==
  ASSUME NEW labels, NEW equates, TypedNames(labels, equates)
  PROVE  Values(labels, equates) = [q \in Queries(equates) |-> Step(q, labels, equates, Values(labels, equates))]
<1> DEFINE Solved == {n \in Nat : \E v : v = [q \in Near(equates, n) |-> Step(q, labels, equates, v)]}
<1>1. 0 \in Solved
  <2>1. Near(equates, 0) = {}
    <3>1. \A q \in Queries(equates) : Cardinality(DOMAIN equates \ q.visiting) \in Nat
      BY FS_Difference, FS_CardinalityType DEF TypedNames
    <3> QED BY <3>1 DEF Near
  <2>2. [q \in {} |-> 0] = [q \in Near(equates, 0) |-> Step(q, labels, equates, [p \in {} |-> 0])]
    BY <2>1
  <2> QED BY <2>2
<1>2. \A n \in Nat : n \in Solved => n + 1 \in Solved
  <2> SUFFICES ASSUME NEW n \in Nat, n \in Solved PROVE n + 1 \in Solved
    OBVIOUS
  <2>1. PICK v : v = [q \in Near(equates, n) |-> Step(q, labels, equates, v)]
    OBVIOUS
  <2> DEFINE w == [q \in Near(equates, n + 1) |-> Step(q, labels, equates, v)]
  <2>2. Near(equates, n) \subseteq Near(equates, n + 1)
    <3>1. \A q \in Queries(equates) : Cardinality(DOMAIN equates \ q.visiting) \in Nat
      BY FS_Difference, FS_CardinalityType DEF TypedNames
    <3> QED BY <3>1 DEF Near
  <2>3. \A q \in Near(equates, n) : w[q] = v[q]
    BY <2>1, <2>2, Zenon
  <2>4. ASSUME NEW q \in Near(equates, n + 1) PROVE Step(q, labels, equates, v) = Step(q, labels, equates, w)
    <3>1. \A t \in DOMAIN equates \ q.visiting : w[Query(t, q.visiting)] = v[Query(t, q.visiting)]
      BY <2>3, QueryNearer, Zenon
    <3> HIDE DEF w
    <3> QED BY <3>1, StepSame
  <2>5. w = [q \in Near(equates, n + 1) |-> Step(q, labels, equates, w)]
    BY <2>4, Zenon
  <2> HIDE DEF w
  <2> QED BY <2>5
<1>3. PICK n \in Nat : Near(equates, n) = Queries(equates)
  <2>1. \A q \in Queries(equates) : Cardinality(DOMAIN equates \ q.visiting) <= Cardinality(DOMAIN equates)
    <3>1. \A q : DOMAIN equates \ q.visiting \subseteq DOMAIN equates
      OBVIOUS
    <3> QED BY <3>1, FS_Subset DEF TypedNames
  <2>2. Cardinality(DOMAIN equates) \in Nat
    BY FS_CardinalityType DEF TypedNames
  <2>3. \A q \in Queries(equates) : Cardinality(DOMAIN equates \ q.visiting) \in Nat
    BY FS_Difference, FS_CardinalityType DEF TypedNames
  <2>4. Near(equates, Cardinality(DOMAIN equates) + 1) = Queries(equates)
    BY <2>1, <2>2, <2>3 DEF Near
  <2> QED BY <2>2, <2>4
<1>4. n \in Solved
  <2> HIDE DEF Solved
  <2> QED BY <1>1, <1>2, NatSetInduction
<1>5. \E v : v = [q \in Queries(equates) |-> Step(q, labels, equates, v)]
  BY <1>3, <1>4, Zenon
<1> QED BY <1>5, Zenon DEF Values

LEMMA ValuesInt ==
  ASSUME NEW labels, NEW equates, TypedNames(labels, equates), NEW q \in Queries(equates)
  PROVE  Values(labels, equates)[q] \in Int
<1> DEFINE v == Values(labels, equates)
           Typed == {n \in Nat : \A p \in Near(equates, n) : v[p] \in Int}
<1>0. \A p \in Queries(equates) : v[p] = Step(p, labels, equates, v)
  BY ValuesExist, Zenon
<1>c. \A p \in Queries(equates) : Cardinality(DOMAIN equates \ p.visiting) \in Nat
  BY FS_Difference, FS_CardinalityType DEF TypedNames
<1> HIDE DEF v
<1>1. 0 \in Typed
  BY <1>c DEF Near
<1>2. \A n \in Nat : n \in Typed => n + 1 \in Typed
  <2> SUFFICES ASSUME NEW n \in Nat, n \in Typed, NEW p \in Near(equates, n + 1) PROVE v[p] \in Int
    OBVIOUS
  <2>1. \A t \in DOMAIN equates \ p.visiting : v[Query(t, p.visiting)] \in Int
    BY QueryNearer
  <2>2. p \in Queries(equates)
    BY DEF Near
  <2> QED BY <1>0, <2>1, <2>2, StepInt
<1>3. \A n \in Nat : n \in Typed
  <2> HIDE DEF Typed
  <2> QED BY <1>1, <1>2, NatSetInduction
<1>4. Cardinality(DOMAIN equates \ q.visiting) + 1 \in Typed
  <2> HIDE DEF Typed
  <2> QED BY <1>3, <1>c
<1>5. q \in Near(equates, Cardinality(DOMAIN equates \ q.visiting) + 1)
  BY <1>c DEF Near
<1> QED BY <1>4, <1>5 DEF v

(* Whatever the labels and equates, cyclic ones included, an expression has a value *)
(* or the mark of there being none (evaluateSymbol, evaluateExpression).           *)
LEMMA ExpressionInt ==
  ASSUME NEW e, e.off \in Int, NEW here \in Int, NEW labels, NEW equates, TypedNames(labels, equates)
  PROVE  evaluateExpression(e, here, labels, equates) \in Int
<1>1. \A t \in DOMAIN equates : Query(t, {}) \in Queries(equates)
  BY DEF Query, Queries
<1>2. \A s : evaluateSymbol(s, here, labels, equates) \in Int
  BY <1>1, ValuesInt, SymbolByValues, MeaningInt, Zenon
<1> QED BY <1>2, DifferenceInt DEF evaluateExpression

(* ------------------------------- placements --------------------------------- *)
IsPlacement(at) ==
  at \in [active : {"code", "data"}, code : Int, data : Int, codeBase : Int, dataBase : Int]
IsWalk(p) ==
  /\ p = [x \in {"at", "labels", "equates", "origin", "ended", "faulty"} |-> p[x]]
  /\ IsPlacement(p.at)
  /\ TypedNames(p.labels, p.equates)

LEMMA NumValue ==
  ASSUME NEW n \in Int, NEW here, NEW labels, NEW equates
  PROVE  evaluateExpression(Num(n), here, labels, equates) = n
<1>1. evaluateSymbol("", here, labels, equates) = 0
  BY SymbolByValues, Zenon DEF Meaning
<1>2. Num(n).sym = "" /\ Num(n).minus = "" /\ Num(n).off = n
  BY DEF Num, Expr
<1>3. evaluateExpression(Num(n), here, labels, equates) = Difference(0, 0, n)
  BY <1>1, <1>2 DEF evaluateExpression
<1>4. Undefined # 0
  BY SMT DEF Undefined
<1> QED BY <1>3, <1>4 DEF Difference

LEMMA PlacementStart == IsPlacement(createPlacementState)
  BY UndefinedInt DEF createPlacementState, IsPlacement, Unset

LEMMA PlacementAddresses ==
  ASSUME NEW at, IsPlacement(at)
  PROVE  /\ BaseOf(at) \in Int /\ OffsetOf(at) \in Int
         /\ placementAddress(at) \in Int /\ activePlacementAddress(at) \in Int
         /\ absoluteCodeAddress(at) \in Int /\ absoluteDataAddress(at) \in Int
<1>1. \A n \in Int : alignUp(n, 2) \in Int
  BY DEF alignUp
<1>2. BaseOf(at) \in Int /\ OffsetOf(at) \in Int
  BY DEF IsPlacement, BaseOf, OffsetOf
<1>3. placementAddress(at) \in Int
  BY <1>2 DEF placementAddress
<1>4. absoluteCodeAddress(at) \in Int
  BY DEF IsPlacement, absoluteCodeAddress, ResolvedCodeBase
<1>5. absoluteDataAddress(at) \in Int
  BY <1>1, <1>4 DEF IsPlacement, absoluteDataAddress
<1> QED BY <1>2, <1>3, <1>4, <1>5 DEF activePlacementAddress

LEMMA PaddingInt ==
  ASSUME NEW n \in Int, NEW k \in Int, k > 0
  PROVE  alignmentPadding(n, k) \in Int
  BY DEF alignmentPadding, alignUp

LEMMA PlacementMoves ==
  ASSUME NEW at, IsPlacement(at), NEW n \in Int
  PROVE  /\ IsPlacement(advancePlacement(at, n)) /\ IsPlacement(advanceCodePlacement(at, n))
         /\ IsPlacement(advanceInstruction(at, n)) /\ IsPlacement(applyOrg(at, n))
<1>1. \A p : IsPlacement(p) => IsPlacement(advancePlacement(p, n)) /\ IsPlacement(advanceCodePlacement(p, n))
  BY DEF IsPlacement, advancePlacement, advanceCodePlacement
<1>2. IsPlacement(advanceInstruction(at, n))
  BY <1>1 DEF advanceInstruction
<1>3. IsPlacement(applyOrg(at, n))
  <2>1. BaseOf(at) \in Int
    BY PlacementAddresses
  <2> QED BY <2>1 DEF IsPlacement, applyOrg
<1> QED BY <1>1, <1>2, <1>3

LEMMA PlacementForOrg ==
  ASSUME NEW at, IsPlacement(at), NEW items, NEW k
  PROVE  IsPlacement([at EXCEPT !.active = placementForOrg(items, k)])
<1>1. placementForOrg(items, k) \in {"code", "data"}
  BY Zenon DEF placementForOrg
<1> QED BY <1>1 DEF IsPlacement

LEMMA PutLookup ==
  ASSUME NEW f, NEW x, NEW v
  PROVE  /\ DOMAIN Put(f, x, v) = DOMAIN f \cup {x}
         /\ \A y \in DOMAIN f \cup {x} : Put(f, x, v)[y] = IF y = x THEN v ELSE f[y]
  BY Zenon DEF Put

LEMMA ItemFields ==
  ASSUME NEW i, IsItem(i)
  PROVE  /\ i.kind \in {"org", "label", "equ", "db", "ds", "align", "instruction", "end", "routine"}
         /\ i.e.off \in Int /\ i.arg \in Nat
         /\ i.kind = "align" => i.e = Num(i.e.off) /\ i.e.off > 0
         /\ i.kind = "instruction" => i.ins \in Instructions /\ (i.arg = 0 \/ TakesExpression(i.ins))
  BY DEF IsItem

(* -------------------------- what the source may hold ------------------------- *)
Readable == Len(source) \in Nat /\ \A k \in 1..Len(source) : IsItem(source[k])

LEMMA InstructionSizes ==
  ASSUME NEW i \in Instructions
  PROVE  /\ instructionSize(i) \in 1..4
         /\ i = Ins(i.mn, i.dst, i.src, i.arg) /\ i.src.val \in Int
<1>1. CASE Faithful(i)
  <2>1. PICK size \in 1..4 : ReadsBack(i, size)
    BY <1>1 DEF Faithful
  <2>2. i = Ins(i.mn, i.dst, i.src, i.arg) /\ i.src = Operand(i.src.kind, i.src.reg, i.src.val) /\ i.src.val \in Int
    BY <1>1 DEF Faithful, IsOperand
  <2>3. RoundTrips(WithValue(i, i.src.val), size)
    BY <2>1, <2>2 DEF ReadsBack
  <2>4. WithValue(i, i.src.val) = i
    BY <2>2, Zenon DEF WithValue
  <2>5. instructionSize(i) = size
    BY <2>3, <2>4 DEF RoundTrips
  <2> QED BY <2>2, <2>5
<1>2. ASSUME NEW r \in {"hl", "bc"}, i = Ins("ld", R16(r), R16("de"), 0)
      PROVE  instructionSize(i) = 2 /\ i = Ins(i.mn, i.dst, i.src, i.arg) /\ i.src.val = 0
  <2>1. instructionSize(i) = 2
    BY <1>2, EncodingOfPairTransfer, Sizes DEF instructionSize
  <2>2. i = Ins(i.mn, i.dst, i.src, i.arg)
    BY <1>2, Fields
  <2>3. i.src = R16("de")
    BY <1>2, Fields
  <2> QED BY <2>1, <2>2, <2>3 DEF R16, Operand
<1> QED BY <1>1, <1>2, InstructionsReadBack

(* ------------------------------ the planning walk ---------------------------- *)
NextWalk(first, k, p) == PlanItem(p, source[k], k, IF first THEN p ELSE known)
WalkStep(first, w, k) == IF k = 0 THEN PlanStart ELSE NextWalk(first, k, w[k - 1])
Walk(first) == CHOOSE w : w = [k \in 0..Len(source) |-> WalkStep(first, w, k)]

LEMMA WalkedTo ==
  ASSUME NEW first
  PROVE  buildAddressStateOnce(first) = Walk(first)[Len(source)]
  BY Zenon DEF buildAddressStateOnce, Walk, WalkStep, NextWalk

LEMMA WalkExists ==
  ASSUME NEW first, Len(source) \in Nat
  PROVE  Walk(first) = [k \in 0..Len(source) |-> WalkStep(first, Walk(first), k)]
<1> DEFINE Solved == {n \in Nat : \E w : w = [k \in 0..n |-> WalkStep(first, w, k)]}
<1>1. 0 \in Solved
  <2> DEFINE w == [k \in 0..0 |-> PlanStart]
  <2>1. \A k \in 0..0 : WalkStep(first, w, k) = PlanStart
    BY DEF WalkStep
  <2>2. w = [k \in 0..0 |-> WalkStep(first, w, k)]
    BY <2>1
  <2> QED BY <2>2
<1>2. \A n \in Nat : n \in Solved => n + 1 \in Solved
  <2> SUFFICES ASSUME NEW n \in Nat, NEW v, v = [k \in 0..n |-> WalkStep(first, v, k)] PROVE n + 1 \in Solved
    OBVIOUS
  <2> DEFINE last == NextWalk(first, n + 1, v[n])
             w == [k \in 0..(n + 1) |-> IF k = n + 1 THEN last ELSE v[k]]
  <2>1. \A k \in 0..n : w[k] = v[k]
    <3> HIDE DEF last
    <3> QED OBVIOUS
  <2>2. ASSUME NEW k \in 0..(n + 1) PROVE w[k] = WalkStep(first, w, k)
    <3>1. CASE k = n + 1
      <4>1. w[k] = last /\ k - 1 = n /\ k # 0 /\ n \in 0..n
        <5> HIDE DEF last
        <5> QED BY <3>1
      <4>2. w[k - 1] = v[n]
        BY <2>1, <4>1
      <4> HIDE DEF w
      <4> QED BY <3>1, <4>1, <4>2, Zenon DEF WalkStep
    <3>2. CASE k = 0
      <4>1. w[k] = v[k] /\ v[k] = WalkStep(first, v, k)
        BY <2>1, <3>2
      <4> HIDE DEF w
      <4> QED BY <3>2, <4>1, Zenon DEF WalkStep
    <3>3. CASE k \in 1..n
      <4>1. k \in 0..n /\ k - 1 \in 0..n /\ k # 0
        BY <3>3
      <4>2. w[k] = v[k] /\ v[k] = WalkStep(first, v, k) /\ w[k - 1] = v[k - 1]
        BY <2>1, <4>1
      <4> HIDE DEF w
      <4> QED BY <4>1, <4>2, Zenon DEF WalkStep
    <3> QED BY <3>1, <3>2, <3>3
  <2>3. w = [k \in 0..(n + 1) |-> w[k]]
    <3> HIDE DEF last
    <3> QED OBVIOUS
  <2> HIDE DEF w
  <2>4. w = [k \in 0..(n + 1) |-> WalkStep(first, w, k)]
    BY <2>2, <2>3, Zenon
  <2> QED BY <2>4
<1>3. Len(source) \in Solved
  <2> HIDE DEF Solved
  <2> QED BY <1>1, <1>2, NatSetInduction
<1>4. \E w : w = [k \in 0..Len(source) |-> WalkStep(first, w, k)]
  BY <1>3
<1> QED BY <1>4, Zenon DEF Walk

LEMMA LabelAdded ==
  ASSUME NEW labels, NEW equates, TypedNames(labels, equates), NEW l, NEW here \in Int
  PROVE  TypedNames(Put(labels, l, here), equates)
<1> DEFINE f == Put(labels, l, here)
<1>1. DOMAIN f = DOMAIN labels \cup {l} /\ \A y \in DOMAIN labels \cup {l} : f[y] = IF y = l THEN here ELSE labels[y]
  BY DEF Put
<1> HIDE DEF f
<1>2. \A y \in DOMAIN f : f[y] \in Int
  BY <1>1 DEF TypedNames
<1> QED BY <1>2, Zenon DEF TypedNames, f

LEMMA EquateAdded ==
  ASSUME NEW labels, NEW equates, TypedNames(labels, equates), NEW t, NEW equate, equate.at \in Int, equate.e.off \in Int
  PROVE  TypedNames(labels, Put(equates, t, equate))
<1> DEFINE f == Put(equates, t, equate)
<1>1. DOMAIN f = DOMAIN equates \cup {t} /\ \A y \in DOMAIN equates \cup {t} : f[y] = IF y = t THEN equate ELSE equates[y]
  BY DEF Put
<1> HIDE DEF f
<1>2. \A y \in DOMAIN f : f[y].at \in Int /\ f[y].e.off \in Int
  BY <1>1 DEF TypedNames
<1>3. IsFiniteSet(DOMAIN f)
  BY <1>1, FS_AddElement DEF TypedNames
<1>4. TypedNames(labels, f)
  BY <1>2, <1>3 DEF TypedNames
<1> QED BY <1>4 DEF f

LEMMA DefinitionTyped ==
  ASSUME NEW p, IsWalk(p), NEW i, i.e.off \in Int
  PROVE  IsWalk(PlanDefinition(p, i))
<1>1. /\ p = [x \in {"at", "labels", "equates", "origin", "ended", "faulty"} |-> p[x]]
      /\ IsPlacement(p.at) /\ TypedNames(p.labels, p.equates)
  BY DEF IsWalk
<1> DEFINE here == placementAddress(p.at)
           equate == [e |-> i.e, at |-> here]
           labels == Put(p.labels, i.name, here)
           equates == Put(p.equates, i.name, equate)
<1>2. here \in Int
  BY <1>1, PlacementAddresses
<1>3. equate.at \in Int /\ equate.e.off \in Int
  BY <1>2
<1>4. \/ PlanDefinition(p, i) = [p EXCEPT !.faulty = TRUE]
      \/ PlanDefinition(p, i) = [p EXCEPT !.labels = labels]
      \/ PlanDefinition(p, i) = [p EXCEPT !.equates = equates]
  BY <1>1 DEF PlanDefinition
<1> HIDE DEF here, equate
<1>5. TypedNames(labels, p.equates)
  BY <1>1, <1>2, LabelAdded
<1>6. TypedNames(p.labels, equates)
  BY <1>1, <1>3, EquateAdded
<1> HIDE DEF labels, equates
<1>7. IsWalk([p EXCEPT !.faulty = TRUE])
  BY <1>1 DEF IsWalk
<1>8. IsWalk([p EXCEPT !.labels = labels])
  BY <1>1, <1>5 DEF IsWalk
<1>9. IsWalk([p EXCEPT !.equates = equates])
  BY <1>1, <1>6 DEF IsWalk
<1> QED BY <1>4, <1>7, <1>8, <1>9

LEMMA WalkMoved ==
  ASSUME NEW p, IsWalk(p), NEW at, IsPlacement(at)
  PROVE  IsWalk([p EXCEPT !.at = at])
  BY DEF IsWalk
LEMMA WalkFaulted ==
  ASSUME NEW p, IsWalk(p), NEW at, IsPlacement(at)
  PROVE  IsWalk([p EXCEPT !.at = at, !.faulty = TRUE])
  BY DEF IsWalk
LEMMA WalkPlaced ==
  ASSUME NEW p, IsWalk(p), NEW at, IsPlacement(at), NEW o
  PROVE  IsWalk([p EXCEPT !.at = at, !.origin = o])
  BY DEF IsWalk
LEMMA WalkEnded ==
  ASSUME NEW p, IsWalk(p)
  PROVE  IsWalk([p EXCEPT !.ended = TRUE])
  BY DEF IsWalk

LEMMA PlanItemTyped ==
  ASSUME NEW p, IsWalk(p), NEW i, IsItem(i), NEW k, NEW names, TypedNames(names.labels, names.equates)
  PROVE  IsWalk(PlanItem(p, i, k, names))
<1> DEFINE active == IF i.kind = "org" THEN [p.at EXCEPT !.active = placementForOrg(source, k)] ELSE p.at
           value == evaluateExpression(i.e, placementAddress(active), names.labels, names.equates)
<1>1. IsPlacement(p.at) /\ i.e.off \in Int
  BY ItemFields DEF IsWalk
<1>2. IsPlacement(active)
  BY <1>1, PlacementForOrg
<1> HIDE DEF active
<1>3. value \in Int
  BY <1>1, <1>2, PlacementAddresses, ExpressionInt
<1>4. i.kind = "align" => value > 0
  BY NumValue, ItemFields
<1>5. i.kind = "instruction" => instructionSize(i.ins) \in Int
  BY InstructionSizes, ItemFields
<1> HIDE DEF value
<1>6. CASE p.ended \/ i.kind = "routine"
  BY <1>6 DEF PlanItem
<1>7. CASE ~p.ended /\ i.kind \in {"label", "equ"}
  <2>1. PlanItem(p, i, k, names) = PlanDefinition(p, i)
    BY <1>7 DEF PlanItem
  <2> QED BY <1>1, <2>1, DefinitionTyped
<1>8. CASE ~p.ended /\ i.kind \in {"org", "ds"} /\ value = Undefined
  <2>1. PlanItem(p, i, k, names) = [p EXCEPT !.at = active, !.faulty = TRUE]
    BY <1>8 DEF PlanItem, active, value
  <2>2. IsWalk([p EXCEPT !.at = active, !.faulty = TRUE])
    BY <1>2, WalkFaulted
  <2> QED BY <2>1, <2>2, Zenon
<1>9. CASE ~p.ended /\ i.kind = "org" /\ value # Undefined
  <2>1. PlanItem(p, i, k, names) = [p EXCEPT !.at = applyOrg(active, value), !.origin = IF @ = Unset THEN value ELSE @]
    BY <1>9 DEF PlanItem, active, value
  <2>2. IsPlacement(applyOrg(active, value))
    BY <1>2, <1>3, PlacementMoves
  <2>3. PlanItem(p, i, k, names) = [p EXCEPT !.at = applyOrg(active, value), !.origin = IF p.origin = Unset THEN value ELSE p.origin]
    BY <2>1 DEF IsWalk
  <2> DEFINE next == applyOrg(active, value)
             origin == IF p.origin = Unset THEN value ELSE p.origin
  <2>4. IsPlacement(next)
    BY <2>2
  <2> HIDE DEF next, origin
  <2>5. IsWalk([p EXCEPT !.at = next, !.origin = origin])
    BY <2>4, WalkPlaced
  <2> QED BY <2>3, <2>5 DEF next, origin
<1>10. CASE ~p.ended /\ i.kind = "ds" /\ value # Undefined
  <2>1. PlanItem(p, i, k, names) = [p EXCEPT !.at = advancePlacement(p.at, value)]
    BY <1>10 DEF PlanItem, active, value, IsWalk
  <2> QED BY <1>1, <1>3, <2>1, PlacementMoves, WalkMoved
<1>11. CASE ~p.ended /\ i.kind = "db"
  <2>1. PlanItem(p, i, k, names) = [p EXCEPT !.at = advancePlacement(p.at, 1)]
    BY <1>11 DEF PlanItem, IsWalk
  <2> QED BY <1>1, <2>1, PlacementMoves, WalkMoved
<1>12. CASE ~p.ended /\ i.kind = "align"
  <2>1. PlanItem(p, i, k, names) = [p EXCEPT !.at = advancePlacement(p.at, alignmentPadding(placementAddress(p.at), value))]
    BY <1>12 DEF PlanItem, active, value, IsWalk
  <2>2. alignmentPadding(placementAddress(p.at), value) \in Int
    BY <1>1, <1>3, <1>4, <1>12, PlacementAddresses, PaddingInt
  <2> QED BY <1>1, <2>1, <2>2, PlacementMoves, WalkMoved
<1>13. CASE ~p.ended /\ i.kind = "instruction"
  <2>1. PlanItem(p, i, k, names) = [p EXCEPT !.at = advanceInstruction(p.at, instructionSize(i.ins))]
    BY <1>13 DEF PlanItem, IsWalk
  <2> QED BY <1>1, <1>5, <1>13, <2>1, PlacementMoves, WalkMoved
<1>14. CASE ~p.ended /\ i.kind = "end"
  <2>1. PlanItem(p, i, k, names) = [p EXCEPT !.ended = TRUE]
    BY <1>14 DEF PlanItem
  <2> QED BY <2>1, WalkEnded
<1> QED BY <1>6, <1>7, <1>8, <1>9, <1>10, <1>11, <1>12, <1>13, <1>14, ItemFields

LEMMA WalkStartTyped == IsWalk(PlanStart)
<1>1. TypedNames(EmptyMap, EmptyMap)
  BY FS_EmptySet DEF TypedNames, EmptyMap
<1> QED BY <1>1, PlacementStart DEF PlanStart, IsWalk

(* What a walk found are addresses, whatever it looked symbols up in.              *)
LEMMA WalkTyped ==
  ASSUME NEW first \in BOOLEAN, Readable, TypedNames(known.labels, known.equates)
  PROVE  IsWalk(buildAddressStateOnce(first))
<1> DEFINE w == Walk(first)
           Typed == {n \in Nat : n <= Len(source) => IsWalk(w[n])}
<1>1. Len(source) \in Nat /\ \A k \in 0..Len(source) : w[k] = WalkStep(first, w, k)
  BY WalkExists, Zenon DEF Readable
<1> HIDE DEF w
<1>2. 0 \in Typed
  <2>1. w[0] = PlanStart
    BY <1>1 DEF WalkStep
  <2> QED BY <2>1, WalkStartTyped
<1>3. \A n \in Nat : n \in Typed => n + 1 \in Typed
  <2> SUFFICES ASSUME NEW n \in Nat, n \in Typed, n + 1 <= Len(source) PROVE IsWalk(w[n + 1])
    OBVIOUS
  <2>1. IsWalk(w[n]) /\ n + 1 \in 1..Len(source) /\ n + 1 \in 0..Len(source) /\ n + 1 - 1 = n /\ n + 1 # 0
    BY <1>1
  <2>2. w[n + 1] = PlanItem(w[n], source[n + 1], n + 1, IF first THEN w[n] ELSE known)
    <3>1. w[n + 1] = WalkStep(first, w, n + 1)
      BY <1>1, <2>1
    <3> QED BY <2>1, <3>1 DEF WalkStep, NextWalk
  <2>3. TypedNames(w[n].labels, w[n].equates)
    BY <2>1 DEF IsWalk
  <2>4. IsItem(source[n + 1])
    BY <2>1 DEF Readable
  <2> DEFINE names == IF first THEN w[n] ELSE known
  <2>5. TypedNames(names.labels, names.equates)
    BY <2>3
  <2> HIDE DEF names
  <2> QED BY <2>1, <2>2, <2>4, <2>5, PlanItemTyped DEF names
<1>4. Len(source) \in Typed
  <2> HIDE DEF Typed
  <2> QED BY <1>1, <1>2, <1>3, NatSetInduction
<1>5. IsWalk(w[Len(source)])
  BY <1>1, <1>4
<1> QED BY <1>5, WalkedTo DEF w

(* The two loads AZM writes for the transfers the Z80 has no instruction for.       *)
PairTransfer(r, k) == Ins("ld", R16(r), R16("de"), k)
TransferBytes(r) == IF r = "hl" THEN <<98, 107>> ELSE <<66, 75>>

LEMMA PairTransferBytes ==
  ASSUME NEW r \in {"hl", "bc"}, NEW k, NEW a \in Int
  PROVE  Emitted(PairTransfer(r, k), a) = TransferBytes(r)
<1> DEFINE i == PairTransfer(r, k)
<1>1. CASE r = "hl"
  <2>1. encodeZ80Instruction(i) = Encoding(2, <<Op(98), Op(107)>>)
    BY <1>1, EncodingOfPairTransfer DEF PairTransfer
  <2> HIDE DEF i
  <2>2. Emitted(i, a) = Joined(emitZ80Fragment(Op(98), a + 2), emitZ80Fragment(Op(107), a + 2))
    BY <2>1, Emitted2
  <2>3. emitZ80Fragment(Op(98), a + 2) = <<98>> /\ emitZ80Fragment(Op(107), a + 2) = <<107>>
    BY FragmentBytes
  <2>4. Joined(<<98>>, <<107>>) = <<98, 107>>
    BY Join11
  <2>5. Emitted(i, a) = <<98, 107>>
    BY <2>2, <2>3, <2>4
  <2> QED BY <1>1, <2>5, Zenon DEF i, TransferBytes
<1>2. CASE r = "bc"
  <2>1. encodeZ80Instruction(i) = Encoding(2, <<Op(66), Op(75)>>)
    BY <1>2, EncodingOfPairTransfer DEF PairTransfer
  <2> HIDE DEF i
  <2>2. Emitted(i, a) = Joined(emitZ80Fragment(Op(66), a + 2), emitZ80Fragment(Op(75), a + 2))
    BY <2>1, Emitted2
  <2>3. emitZ80Fragment(Op(66), a + 2) = <<66>> /\ emitZ80Fragment(Op(75), a + 2) = <<75>>
    BY FragmentBytes
  <2>4. Joined(<<66>>, <<75>>) = <<66, 75>>
    BY Join11
  <2>5. Emitted(i, a) = <<66, 75>>
    BY <2>2, <2>3, <2>4
  <2>6. r # "hl"
    BY <1>2
  <2> QED BY <2>5, <2>6, Zenon DEF i, TransferBytes
<1> QED BY <1>1, <1>2

LEMMA TransferBytesTyped ==
  ASSUME NEW r
  PROVE  TransferBytes(r) \in Seq(Int) /\ Len(TransferBytes(r)) = 2
<1>1. <<98, 107>> \in Seq(Int) /\ Len(<<98, 107>>) = 2 /\ <<66, 75>> \in Seq(Int) /\ Len(<<66, 75>>) = 2
  OBVIOUS
<1>2. TransferBytes(r) = <<98, 107>> \/ TransferBytes(r) = <<66, 75>>
  BY Zenon DEF TransferBytes
<1> QED BY <1>1, <1>2, Zenon

LEMMA PairTransferDecoded ==
  ASSUME NEW r \in {"hl", "bc"}, NEW k, NEW a \in Int, NEW m, Reads(m, a, Emitted(PairTransfer(r, k), a))
  PROVE  /\ decodeInstruction(m, a).ins = Ins("ld", R8(HighOf[r]), R8("d"), 0)
         /\ decodeInstruction(m, a + 1).ins = Ins("ld", R8(LowOf[r]), R8("e"), 0)
<1> DEFINE x == IF r = "hl" THEN 98 ELSE 66
           y == IF r = "hl" THEN 107 ELSE 75
           bytes == <<x, y>>
<1>1. Emitted(PairTransfer(r, k), a) = bytes
  BY PairTransferBytes DEF TransferBytes
<1>2. Len(bytes) = 2 /\ bytes[1] = x /\ bytes[2] = y
  OBVIOUS
<1>3. x \in Byte /\ y \in Byte /\ x >= 64 /\ x < 128 /\ y >= 64 /\ y < 128 /\ x # 118 /\ y # 118 /\ 2 \in 1..4
  BY DEF Byte
<1>4. /\ ByteOperand(Row(x)) = R8(HighOf[r]) /\ ByteOperand(Column(x)) = R8("d")
      /\ ByteOperand(Row(y)) = R8(LowOf[r]) /\ ByteOperand(Column(y)) = R8("e")
  <2>1. CASE r = "hl"
    <3>1. Row(x) = 4 /\ Column(x) = 2 /\ Row(y) = 5 /\ Column(y) = 3
      BY <2>1 DEF Row, Column
    <3> QED BY <2>1, <3>1 DEF ByteOperand, RegisterOrder, HighOf, LowOf
  <2>2. CASE r = "bc"
    <3>1. Row(x) = 0 /\ Column(x) = 2 /\ Row(y) = 1 /\ Column(y) = 3
      BY <2>2 DEF Row, Column
    <3> QED BY <2>2, <3>1 DEF ByteOperand, RegisterOrder, HighOf, LowOf
  <2> QED BY <2>1, <2>2
<1> HIDE DEF bytes, x, y
<1>5. Reads(m, a, bytes)
  BY <1>1
<1>6. At(m, a) = LowByte(bytes[1]) /\ (2 > 1 => At(m, a + 1) = LowByte(bytes[2]))
  BY <1>2, <1>3, <1>5, ReadsBytes
<1>7. At(m, a) = x /\ At(m, a + 1) = y
  BY <1>2, <1>3, <1>6, ByteMod
<1>8. decodeInstruction(m, a) = MatrixPrimary(x) /\ decodeInstruction(m, a + 1) = MatrixPrimary(y)
  BY <1>3, <1>7, DecodePrimary DEF Byte
<1>9. /\ MatrixPrimary(x) = Decoded(Ins("ld", R8(HighOf[r]), R8("d"), 0), 1)
      /\ MatrixPrimary(y) = Decoded(Ins("ld", R8(LowOf[r]), R8("e"), 0), 1)
  BY <1>3, <1>4 DEF MatrixPrimary
<1> QED BY <1>8, <1>9 DEF Decoded

(* ------------------------ the instruction as it is written -------------------- *)
LEMMA ValueWritten ==
  ASSUME NEW i, i = Ins(i.mn, i.dst, i.src, i.arg), IsOperand(i.src), NEW v
  PROVE  [i EXCEPT !.src.val = v] = WithValue(i, v)
<1> DEFINE o == [i.src EXCEPT !.val = v]
           g == [i EXCEPT !.src = o]
<1>1. i.src = [x \in {"kind", "reg", "val"} |-> i.src[x]]
  BY DEF IsOperand, Operand
<1>2. o = [x \in {"kind", "reg", "val"} |-> IF x = "val" THEN v ELSE i.src[x]]
  BY <1>1
<1>3. o.kind = i.src.kind /\ o.reg = i.src.reg /\ o.val = v /\ o = [kind |-> o.kind, reg |-> o.reg, val |-> o.val]
  BY <1>2
<1>4. o = Operand(i.src.kind, i.src.reg, v)
  BY <1>3 DEF Operand
<1>5. [i EXCEPT !.src.val = v] = g
  OBVIOUS
<1> HIDE DEF o
<1>6. i = [x \in {"mn", "dst", "src", "arg"} |-> i[x]]
  BY DEF Ins
<1>7. g = [x \in {"mn", "dst", "src", "arg"} |-> IF x = "src" THEN o ELSE i[x]]
  BY <1>6
<1>8. g.mn = i.mn /\ g.dst = i.dst /\ g.src = o /\ g.arg = i.arg /\ g = [mn |-> g.mn, dst |-> g.dst, src |-> g.src, arg |-> g.arg]
  BY <1>7
<1>9. g = Ins(i.mn, i.dst, o, i.arg)
  BY <1>8 DEF Ins
<1> QED BY <1>4, <1>5, <1>9 DEF WithValue

LEMMA WrittenBytesRead ==
  ASSUME NEW image, NEW bytes, NEW n \in 1..4, Len(bytes) = n, NEW a \in RoomFor(n)
  PROVE  Reads(writeImageBytes(image, a, bytes), a, bytes)
<1> DEFINE m == writeImageBytes(image, a, bytes)
           written == a..(a + n - 1)
<1>1. m = [x \in DOMAIN image \cup written |-> IF x \in written THEN bytes[x - a + 1] % 256 ELSE image[x]]
  BY DEF writeImageBytes
<1> HIDE DEF m
<1>2. ASSUME NEW k \in 1..n PROVE At(m, a + k - 1) = LowByte(bytes[k])
  <2> DEFINE x == a + k - 1
  <2>1. x \in written /\ x % 65536 = x /\ x - a + 1 = k
    BY DEF RoomFor
  <2> HIDE DEF x, written
  <2>2. x \in DOMAIN m /\ m[x] = bytes[k] % 256
    BY <1>1, <2>1
  <2> QED BY <2>1, <2>2 DEF At, LowByte, x
<1> QED BY <1>2 DEF Reads, m

(* What is written for an item is its instruction, with a value an expression gave.  *)
LEMMA WrittenInstruction ==
  ASSUME NEW it, IsItem(it), it.kind = "instruction", NEW here \in Int, TypedNames(known.labels, known.equates)
  PROVE  /\ Faithful(it.ins) => \E v \in Int : (v = it.ins.src.val \/ TakesExpression(it.ins)) /\ Written(it, here) = WithValue(it.ins, v)
         /\ ~TakesExpression(it.ins) => Written(it, here) = it.ins
<1>1. it.ins \in Instructions /\ (it.arg = 0 \/ TakesExpression(it.ins)) /\ it.e.off \in Int
  BY ItemFields
<1>2. CASE it.arg = 0
  <2>1. Written(it, here) = it.ins
    BY <1>2 DEF Written
  <2>2. Faithful(it.ins) => it.ins.src.val \in Int /\ it.ins = WithValue(it.ins, it.ins.src.val)
    BY Zenon DEF Faithful, IsOperand, WithValue
  <2> QED BY <2>1, <2>2
<1>3. CASE it.arg # 0
  <2> DEFINE v == ValueOf(it.e, here)
  <2>1. v \in Int
    BY <1>1, ExpressionInt DEF ValueOf
  <2>2. Written(it, here) = [it.ins EXCEPT !.src.val = v]
    BY <1>3 DEF Written
  <2> HIDE DEF v
  <2>3. Faithful(it.ins) => Written(it, here) = WithValue(it.ins, v)
    BY <2>2, ValueWritten DEF Faithful
  <2> QED BY <1>1, <1>3, <2>1, <2>3
<1> QED BY <1>2, <1>3

LEMMA PairTransferItem ==
  ASSUME NEW r, NEW k
  PROVE  ~TakesExpression(PairTransfer(r, k))
<1>1. PairTransfer(r, k).src = R16("de")
  BY Fields DEF PairTransfer
<1>2. R16("de").kind = "reg16"
  BY Told
<1> QED BY <1>1, <1>2 DEF TakesExpression

LEMMA WrittenSize ==
  ASSUME NEW it, IsItem(it), it.kind = "instruction", NEW here \in Int, TypedNames(known.labels, known.equates)
  PROVE  /\ instructionSize(Written(it, here)) = instructionSize(it.ins)
         /\ instructionSize(it.ins) \in 1..4
         /\ Emitted(Written(it, here), here) \in Seq(Int)
<1>1. it.ins \in Instructions
  BY ItemFields
<1>2. CASE Faithful(it.ins)
  <2>1. PICK v \in Int : (v = it.ins.src.val \/ TakesExpression(it.ins)) /\ Written(it, here) = WithValue(it.ins, v)
    BY <1>2, WrittenInstruction
  <2>2. PICK size \in 1..4 : ReadsBack(it.ins, size)
    BY <1>2 DEF Faithful
  <2>3. RoundTrips(WithValue(it.ins, v), size) /\ RoundTrips(WithValue(it.ins, it.ins.src.val), size)
    BY <1>2, <2>1, <2>2 DEF ReadsBack, Faithful, IsOperand
  <2>4. WithValue(it.ins, it.ins.src.val) = it.ins
    BY <1>2, Zenon DEF Faithful, IsOperand, WithValue
  <2> QED BY <2>1, <2>3, <2>4 DEF RoundTrips
<1>3. CASE ~Faithful(it.ins)
  <2>1. PICK r \in {"hl", "bc"} : it.ins = PairTransfer(r, 0)
    BY <1>1, <1>3, InstructionsReadBack DEF PairTransfer
  <2>2. Written(it, here) = it.ins
    BY <2>1, PairTransferItem, WrittenInstruction
  <2>3. instructionSize(it.ins) \in 1..4
    BY <1>1, InstructionSizes
  <2>4. Emitted(it.ins, here) \in Seq(Int)
    BY <2>1, PairTransferBytes, TransferBytesTyped
  <2> QED BY <2>2, <2>3, <2>4
<1> QED BY <1>2, <1>3

LEMMA PairNamed == \A r : R16(r).reg = r
  BY DEF R16, Operand

(* Written where the processor finds it whole, an instruction that assembles is the *)
(* one the processor decodes there.                                                 *)
LEMMA InstructionFound ==
  ASSUME NEW it, IsItem(it), it.kind = "instruction", TypedNames(known.labels, known.equates),
         NEW here \in RoomFor(instructionSize(it.ins)), Assembles(Written(it, here), here),
         NEW image, NEW m, m = writeImageBytes(image, here, Emitted(Written(it, here), here))
  PROVE  FoundAt(m, here, Written(it, here), instructionSize(it.ins))
<1> DEFINE i == Written(it, here)
           size == instructionSize(it.ins)
<1>0. size \in 1..4 /\ here \in RoomFor(size) /\ here \in Addresses /\ here \in Int
  <2>1. size \in 1..4
    BY InstructionSizes, ItemFields
  <2>2. here \in RoomFor(size)
    BY DEF size
  <2> HIDE DEF size
  <2> QED BY <2>1, <2>2 DEF RoomFor, Addresses
<1>1. instructionSize(i) = size /\ Emitted(i, here) \in Seq(Int)
  BY <1>0, WrittenSize
<1>2. Faithful(it.ins) => \E v \in Int : (v = it.ins.src.val \/ TakesExpression(it.ins)) /\ i = WithValue(it.ins, v)
  BY <1>0, WrittenInstruction
<1>3. Faithful(it.ins) \/ \E r \in {"hl", "bc"} : i = PairTransfer(r, 0)
  <2>1. SUFFICES ASSUME ~Faithful(it.ins) PROVE \E r \in {"hl", "bc"} : i = PairTransfer(r, 0)
    OBVIOUS
  <2>2. PICK r \in {"hl", "bc"} : it.ins = PairTransfer(r, 0)
    BY <2>1, InstructionsReadBack, ItemFields DEF PairTransfer
  <2>3. i = it.ins
    BY <1>0, <2>2, PairTransferItem, WrittenInstruction
  <2> QED BY <2>2, <2>3
<1> HIDE DEF i, size
<1>4. CASE TwoTransfers(i)
  <2>1. i = Ins(i.mn, i.dst, i.src, i.arg)
    <3>1. CASE Faithful(it.ins)
      BY <1>2, <3>1, Fields DEF WithValue
    <3>2. ASSUME NEW r \in {"hl", "bc"}, i = PairTransfer(r, 0) PROVE i = Ins(i.mn, i.dst, i.src, i.arg)
      BY <3>2, Fields DEF PairTransfer
    <3> QED BY <1>3, <3>1, <3>2
  <2>2. PICK r \in {"hl", "bc"} : i.dst = R16(r)
    BY <1>4 DEF TwoTransfers
  <2>3. i.mn = "ld" /\ i.src = R16("de") /\ i.dst.reg = r
    <3>1. i.mn = "ld" /\ i.src = R16("de")
      BY <1>4, Zenon DEF TwoTransfers
    <3> QED BY <2>2, <3>1, PairNamed
  <2> DEFINE k == i.arg
  <2>4. i = PairTransfer(r, k)
    BY <2>1, <2>2, <2>3 DEF PairTransfer
  <2> HIDE DEF k
  <2>5. Emitted(i, here) = TransferBytes(r)
    BY <1>0, <2>4, PairTransferBytes
  <2>6. size = 2
    <3>1. \E f : encodeZ80Instruction(i) = Encoding(2, f)
      BY <2>4, EncodingOfPairTransfer DEF PairTransfer
    <3> QED BY <1>1, <3>1, Sizes DEF instructionSize
  <2>7. Reads(m, here, Emitted(i, here))
    <3> DEFINE bytes == Emitted(i, here)
    <3>1. Len(bytes) = size
      BY <2>5, <2>6, TransferBytesTyped
    <3>3. m = writeImageBytes(image, here, bytes)
      BY DEF i
    <3> HIDE DEF bytes
    <3>4. Reads(writeImageBytes(image, here, bytes), here, bytes)
      BY <1>0, <3>1, WrittenBytesRead
    <3> QED BY <3>3, <3>4, Zenon DEF bytes
  <2>8. /\ decodeInstruction(m, here).ins = Ins("ld", R8(HighOf[r]), R8("d"), 0)
        /\ decodeInstruction(m, here + 1).ins = Ins("ld", R8(LowOf[r]), R8("e"), 0)
    BY <1>0, <2>4, <2>7, PairTransferDecoded
  <2> QED BY <1>4, <2>3, <2>8 DEF i, FoundAt
<1>5. CASE ~TwoTransfers(i)
  <2>1. Faithful(it.ins)
    <3>1. \A r \in {"hl", "bc"} : TwoTransfers(PairTransfer(r, 0))
      BY EncodingOfPairTransfer DEF PairTransfer
    <3> QED BY <1>3, <1>5, <3>1
  <2>2. PICK v \in Int : (v = it.ins.src.val \/ TakesExpression(it.ins)) /\ i = WithValue(it.ins, v)
    BY <1>2, <2>1
  <2>3. PICK n \in 1..4 : ReadsBack(it.ins, n)
    BY <2>1 DEF Faithful
  <2>4. RoundTrips(i, n)
    BY <2>2, <2>3 DEF ReadsBack
  <2>5. n = size /\ Len(Emitted(i, here)) = n
    BY <1>0, <1>1, <2>4 DEF RoundTrips
  <2>6. here \in RoomFor(n)
    BY <1>0, <2>5
  <2>7. Reads(m, here, Emitted(i, here))
    BY <2>5, <2>6, WrittenBytesRead DEF i
  <2>8. here \in Addresses /\ Assembles(i, here)
    BY <1>0 DEF i
  <2>9. Decodes(i, n, m, here)
    BY <2>4, <2>7, <2>8, Zenon DEF RoundTrips
  <2> QED BY <1>5, <2>5, <2>9, Zenon DEF Decodes, i, size, FoundAt
<1> QED BY <1>4, <1>5

(* ------------------------------ the emission walk ---------------------------- *)
SegmentOf(n) == [start : Int, end : Int, item : 0..(n - 1)]
SegmentsBelow(n) == Seq(SegmentOf(n))
IsEmission(o, n) ==
  /\ o = [x \in {"at", "image", "reserved", "segments", "next", "ended", "faulty"} |-> o[x]]
  /\ IsPlacement(o.at)
  /\ o.segments \in SegmentsBelow(n)

LEMMA SegmentsMore ==
  ASSUME NEW n \in Nat \ {0}
  PROVE  SegmentsBelow(n) \subseteq SegmentsBelow(n + 1)
<1>1. SegmentOf(n) \subseteq SegmentOf(n + 1)
  BY DEF SegmentOf
<1> QED BY <1>1, SeqMonotonic DEF SegmentsBelow

LEMMA SegmentTyped ==
  ASSUME NEW n \in Nat \ {0}, NEW start \in Int, NEW end \in Int
  PROVE  /\ Segment(start, end, n) \in SegmentsBelow(n + 1)
         /\ Segment(start, end, n) = <<>> \/ (Len(Segment(start, end, n)) = 1 /\ Segment(start, end, n)[1].start = start)
<1> DEFINE r == [start |-> start, end |-> end, item |-> n]
           S == SegmentOf(n + 1)
<1>1. r \in S /\ r.start = start
  BY DEF SegmentOf
<1>2. Segment(start, end, n) = <<>> \/ Segment(start, end, n) = <<r>>
  BY Zenon DEF Segment
<1> HIDE DEF r, S
<1>3. <<>> \in Seq(S) /\ <<r>> \in Seq(S) /\ Len(<<r>>) = 1 /\ <<r>>[1] = r
  BY <1>1
<1>4. Seq(S) = SegmentsBelow(n + 1)
  BY Zenon DEF SegmentsBelow, S
<1> QED BY <1>1, <1>2, <1>3, <1>4

LEMMA SegmentsAdded ==
  ASSUME NEW n \in Nat \ {0}, NEW segments \in SegmentsBelow(n), NEW start \in Int, NEW end \in Int
  PROVE  /\ segments \o Segment(start, end, n) \in SegmentsBelow(n + 1)
         /\ \A j \in DOMAIN (segments \o Segment(start, end, n)) :
              (segments \o Segment(start, end, n))[j].item = n => (segments \o Segment(start, end, n))[j].start = start
<1> DEFINE S == SegmentOf(n + 1)
           T == SegmentOf(n)
           new == Segment(start, end, n)
           all == segments \o new
<1>0. Seq(S) = SegmentsBelow(n + 1) /\ Seq(T) = SegmentsBelow(n)
  BY Zenon DEF SegmentsBelow, S, T
<1> HIDE DEF S, T
<1>1. segments \in Seq(S) /\ new \in Seq(S)
  BY <1>0, SegmentsMore, SegmentTyped
<1>2. new = <<>> \/ (Len(new) = 1 /\ new[1].start = start)
  BY SegmentTyped
<1>3. \A j \in 1..Len(segments) : segments[j].item # n
  <2>1. segments \in Seq(T)
    BY <1>0
  <2>2. \A j \in 1..Len(segments) : segments[j] \in T
    BY <2>1, ElementOfSeq
  <2>3. \A r \in T : r.item # n
    BY DEF SegmentOf, T
  <2> QED BY <2>2, <2>3
<1> HIDE DEF new
<1>4. all \in Seq(S) /\ DOMAIN all = 1..(Len(segments) + Len(new)) /\ Len(segments) \in Nat /\ Len(new) \in Nat
  BY <1>1, ConcatProperties, LenProperties
<1>5. \A j \in DOMAIN all : all[j] = IF j <= Len(segments) THEN segments[j] ELSE new[j - Len(segments)]
  BY <1>1, <1>4, ConcatProperties
<1>6. ASSUME NEW j \in DOMAIN all, all[j].item = n PROVE all[j].start = start
  <2> HIDE DEF all
  <2>1. j \in 1..(Len(segments) + Len(new))
    BY <1>4
  <2>2. CASE j <= Len(segments)
    BY <1>3, <1>4, <1>5, <1>6, <2>1, <2>2
  <2>3. CASE ~(j <= Len(segments))
    <3>0. Len(<<>>) = 0
      OBVIOUS
    <3>1. Len(new) = 1 /\ j = Len(segments) + 1 /\ new[1].start = start
      <4>1. new # <<>>
        <5> SUFFICES ASSUME new = <<>> PROVE FALSE
          OBVIOUS
        <5>1. Len(new) = 0
          BY <3>0
        <5> QED BY <1>4, <2>1, <2>3, <5>1
      <4>2. Len(new) = 1 /\ new[1].start = start
        BY <1>2, <4>1, Zenon
      <4> QED BY <1>4, <2>1, <2>3, <4>2
    <3>2. all[j] = new[1]
      BY <1>4, <1>5, <2>3, <3>1
    <3> QED BY <3>1, <3>2
  <2> QED BY <2>2, <2>3
<1> QED BY <1>0, <1>4, <1>6 DEF new

LEMMA EmissionMoved ==
  ASSUME NEW o, NEW n, IsEmission(o, n), NEW at, IsPlacement(at)
  PROVE  IsEmission([o EXCEPT !.at = at], n)
  BY DEF IsEmission
LEMMA EmissionFaulted ==
  ASSUME NEW o, NEW n, IsEmission(o, n), NEW at, IsPlacement(at)
  PROVE  IsEmission([o EXCEPT !.at = at, !.faulty = TRUE], n)
  BY DEF IsEmission
LEMMA EmissionRejected ==
  ASSUME NEW o, NEW n, IsEmission(o, n)
  PROVE  IsEmission([o EXCEPT !.faulty = TRUE], n)
  BY DEF IsEmission
LEMMA EmissionEnded ==
  ASSUME NEW o, NEW n, IsEmission(o, n)
  PROVE  IsEmission([o EXCEPT !.ended = TRUE], n)
  BY DEF IsEmission
LEMMA EmissionReserved ==
  ASSUME NEW o, NEW n, IsEmission(o, n), NEW at, IsPlacement(at), NEW reserved
  PROVE  IsEmission([o EXCEPT !.reserved = reserved, !.at = at], n)
  BY DEF IsEmission
LEMMA EmissionData ==
  ASSUME NEW o, NEW n, NEW k, IsEmission(o, n), NEW at, IsPlacement(at), NEW image, NEW segments \in SegmentsBelow(k)
  PROVE  IsEmission([o EXCEPT !.image = image, !.at = at, !.segments = segments], k)
  BY DEF IsEmission
LEMMA EmissionCoded ==
  ASSUME NEW o, NEW n, NEW k, IsEmission(o, n), NEW at, IsPlacement(at), NEW image, NEW segments \in SegmentsBelow(k), NEW faulty
  PROVE  IsEmission([o EXCEPT !.image = image, !.at = at, !.segments = segments, !.faulty = faulty], k)
  BY DEF IsEmission
LEMMA EmissionBoth ==
  ASSUME NEW o, NEW n, IsEmission(o, n), NEW at, IsPlacement(at), NEW image
  PROVE  IsEmission([o EXCEPT !.image = image, !.at = at], n)
  BY DEF IsEmission
LEMMA EmissionMore ==
  ASSUME NEW o, NEW n \in Nat \ {0}, IsEmission(o, n)
  PROVE  IsEmission(o, n + 1)
  BY SegmentsMore DEF IsEmission
LEMMA EmissionNext ==
  ASSUME NEW o, NEW n, IsEmission(o, n)
  PROVE  LET e == [o EXCEPT !.next = n]
         IN IsEmission(e, n) /\ e.next = n /\ e.at = o.at /\ e.image = o.image /\ e.segments = o.segments /\ e.faulty = o.faulty
  BY DEF IsEmission

(* ----------------------------- one item emitted ------------------------------ *)
LEMMA RunLength ==
  ASSUME NEW n \in Int, NEW b
  PROVE  Len(Run(n, b)) \in Int
<1>1. CASE n > 0
  BY <1>1 DEF Run
<1>2. CASE ~(n > 0)
  BY <1>2 DEF Run
<1> QED BY <1>1, <1>2

LEMMA DataEmitted ==
  ASSUME NEW o, NEW k \in Nat \ {0}, IsEmission(o, k), NEW bytes, Len(bytes) \in Int, NEW size \in Int
  PROVE  IsEmission(EmitData(o, k, bytes, size), k + 1)
<1> DEFINE here == activePlacementAddress(o.at)
           image == writeImageBytes(o.image, here, bytes)
           at == advancePlacement(o.at, size)
           segments == o.segments \o Segment(here, here + Len(bytes), k)
<1>1. IsPlacement(o.at) /\ o.segments \in SegmentsBelow(k)
  BY DEF IsEmission
<1>2. here \in Int /\ here + Len(bytes) \in Int /\ IsPlacement(at)
  <2>1. here \in Int
    BY <1>1, PlacementAddresses
  <2>2. IsPlacement(at)
    BY <1>1, PlacementMoves
  <2> HIDE DEF here
  <2> QED BY <2>1, <2>2
<1>3. EmitData(o, k, bytes, size) = [o EXCEPT !.image = image, !.at = at, !.segments = segments]
  BY DEF EmitData, IsEmission
<1> HIDE DEF here
<1>4. segments \in SegmentsBelow(k + 1)
  BY <1>1, <1>2, SegmentsAdded
<1> HIDE DEF image, at, segments
<1>5. IsEmission([o EXCEPT !.image = image, !.at = at, !.segments = segments], k + 1)
  BY <1>2, <1>4, EmissionData
<1> QED BY <1>3, <1>5

LEMMA DsEmitted ==
  ASSUME NEW o, NEW k \in Nat \ {0}, IsEmission(o, k), NEW i, IsItem(i), TypedNames(known.labels, known.equates)
  PROVE  IsEmission(emitDs(o, k, i), k + 1)
<1> DEFINE here == activePlacementAddress(o.at)
           size == ValueOf(i.e, here)
           run == Run(size, i.arg - 1)
           reserved == o.reserved \cup here..(here + size - 1)
           at == advancePlacement(o.at, size)
<1>1. IsPlacement(o.at)
  BY DEF IsEmission
<1>2. here \in Int
  BY <1>1, PlacementAddresses
<1>3. size \in Int
  BY <1>2, ItemFields, ExpressionInt DEF ValueOf
<1>4. \/ emitDs(o, k, i) = [o EXCEPT !.faulty = TRUE]
      \/ emitDs(o, k, i) = EmitData(o, k, run, size)
      \/ emitDs(o, k, i) = [o EXCEPT !.reserved = reserved, !.at = at]
  BY DEF emitDs, IsEmission
<1> HIDE DEF here, size
<1>5. Len(run) \in Int /\ IsPlacement(at)
  BY <1>1, <1>3, RunLength, PlacementMoves
<1> HIDE DEF run, reserved, at
<1>6. IsEmission(EmitData(o, k, run, size), k + 1)
  BY <1>3, <1>5, DataEmitted
<1>7. IsEmission(o, k + 1)
  BY EmissionMore
<1>8. IsEmission([o EXCEPT !.reserved = reserved, !.at = at], k + 1)
  BY <1>5, <1>7, EmissionReserved
<1>9. IsEmission([o EXCEPT !.faulty = TRUE], k + 1)
  BY <1>7, EmissionRejected
<1> QED BY <1>4, <1>6, <1>8, <1>9, Zenon

LEMMA OrgEmitted ==
  ASSUME NEW o, NEW k \in Nat \ {0}, IsEmission(o, k), NEW i, IsItem(i), TypedNames(known.labels, known.equates)
  PROVE  IsEmission(emitOrg(o, k, i), k + 1)
<1> DEFINE active == [o.at EXCEPT !.active = placementForOrg(source, k)]
           value == ValueOf(i.e, placementAddress(active))
           at == applyOrg(active, value)
<1>1. IsPlacement(active)
  BY PlacementForOrg DEF IsEmission
<1>2. \/ emitOrg(o, k, i) = [o EXCEPT !.at = active, !.faulty = TRUE]
      \/ emitOrg(o, k, i) = [o EXCEPT !.at = at]
  BY DEF emitOrg
<1> HIDE DEF active
<1>3. value \in Int
  BY <1>1, PlacementAddresses, ItemFields, ExpressionInt DEF ValueOf
<1> HIDE DEF value
<1>4. IsPlacement(at)
  BY <1>1, <1>3, PlacementMoves
<1> HIDE DEF at
<1>5. IsEmission(o, k + 1)
  BY EmissionMore
<1>6. IsEmission([o EXCEPT !.at = active, !.faulty = TRUE], k + 1)
  BY <1>1, <1>5, EmissionFaulted
<1>7. IsEmission([o EXCEPT !.at = at], k + 1)
  BY <1>4, <1>5, EmissionMoved
<1> QED BY <1>2, <1>6, <1>7, Zenon

(* Under a code placement an instruction's bytes are the last thing written.        *)
LEMMA InstructionEmitted ==
  ASSUME NEW o, NEW k \in Nat \ {0}, IsEmission(o, k), NEW i, IsItem(i), i.kind = "instruction",
         TypedNames(known.labels, known.equates)
  PROVE  LET e == emitProgramInstruction(o, k, i)
             here == absoluteCodeAddress(o.at)
         IN /\ IsEmission(e, k + 1)
            /\ e.at.active = "code" /\ ~e.faulty =>
                 /\ e.image = writeImageBytes(o.image, here, Emitted(Written(i, here), here))
                 /\ Assembles(Written(i, here), here)
            /\ e.at.active = "code" => \A j \in DOMAIN e.segments : e.segments[j].item = k => e.segments[j].start = here
<1> DEFINE here == absoluteCodeAddress(o.at)
           ins == Written(i, here)
           good == ins.src.val # Undefined /\ Assembles(ins, here)
           bytes == IF good THEN Emitted(ins, here) ELSE <<>>
           size == instructionSize(ins)
           image == writeImageBytes(o.image, here, bytes)
           at == advanceCodePlacement(o.at, size)
           segments == o.segments \o Segment(here, here + size, k)
           faulty == o.faulty \/ ~good
           coded == [o EXCEPT !.image = image, !.at = at, !.segments = segments, !.faulty = faulty]
           image2 == writeImageBytes(image, absoluteDataAddress(o.at), bytes)
           at2 == advancePlacement(at, size)
           both == [coded EXCEPT !.image = image2, !.at = at2]
<1>1. IsPlacement(o.at) /\ o.segments \in SegmentsBelow(k)
  BY DEF IsEmission
<1>2. here \in Int /\ absoluteDataAddress(o.at) \in Int
  BY <1>1, PlacementAddresses
<1>3. size \in Int
  <2> HIDE DEF here
  <2>1. size = instructionSize(i.ins) /\ instructionSize(i.ins) \in 1..4
    BY <1>2, WrittenSize
  <2> HIDE DEF size
  <2> QED BY <2>1
<1>4. coded.image = image /\ coded.at = at
  <2> HIDE DEF image, at, segments, faulty
  <2> QED BY DEF IsEmission
<1>5. emitProgramInstruction(o, k, i) = IF o.at.active = "code" THEN coded ELSE both
  <2>1. emitProgramInstruction(o, k, i) =
          LET c == [o EXCEPT !.image = writeImageBytes(@, here, bytes), !.at = advanceCodePlacement(@, size),
                             !.segments = @ \o Segment(here, here + size, k), !.faulty = @ \/ ~good]
          IN IF o.at.active = "code" THEN c
             ELSE [c EXCEPT !.image = writeImageBytes(@, absoluteDataAddress(o.at), bytes), !.at = advancePlacement(@, size)]
    BY Zenon DEF emitProgramInstruction
  <2>2. [o EXCEPT !.image = writeImageBytes(@, here, bytes), !.at = advanceCodePlacement(@, size),
                  !.segments = @ \o Segment(here, here + size, k), !.faulty = @ \/ ~good] = coded
    <3> HIDE DEF here, bytes, size, good
    <3> QED BY DEF IsEmission
  <2> HIDE DEF coded
  <2>3. [coded EXCEPT !.image = writeImageBytes(@, absoluteDataAddress(o.at), bytes), !.at = advancePlacement(@, size)] = both
    BY <1>4
  <2> QED BY <2>1, <2>2, <2>3, Zenon
<1>6. IsPlacement(at) /\ IsPlacement(at2)
  <2> HIDE DEF size, here
  <2> QED BY <1>1, <1>3, PlacementMoves
<1>7. at.active = o.at.active /\ at2.active = o.at.active
  <2>1. \A n : IsPlacement(advanceCodePlacement(o.at, n)) => advanceCodePlacement(o.at, n).active = o.at.active
    BY <1>1 DEF IsPlacement, advanceCodePlacement
  <2>2. at.active = o.at.active
    BY <1>6, <2>1
  <2>3. \A p, n : IsPlacement(p) => advancePlacement(p, n).active = p.active
    BY DEF IsPlacement, advancePlacement
  <2> HIDE DEF at
  <2> QED BY <1>6, <2>2, <2>3
<1>8. /\ segments \in SegmentsBelow(k + 1)
      /\ \A j \in DOMAIN segments : segments[j].item = k => segments[j].start = here
  <2>1. here + size \in Int
    <3> HIDE DEF here, size
    <3> QED BY <1>2, <1>3
  <2> DEFINE end == here + size
  <2> HIDE DEF end
  <2>2. end \in Int
    BY <2>1 DEF end
  <2> HIDE DEF here
  <2>3. /\ o.segments \o Segment(here, end, k) \in SegmentsBelow(k + 1)
        /\ \A j \in DOMAIN (o.segments \o Segment(here, end, k)) :
             (o.segments \o Segment(here, end, k))[j].item = k => (o.segments \o Segment(here, end, k))[j].start = here
    BY <1>1, <1>2, <2>2, SegmentsAdded
  <2> QED BY <2>3, Zenon DEF end
<1>9. faulty \/ (good /\ bytes = Emitted(ins, here))
  BY Zenon
<1>10. ~faulty => Assembles(ins, here) /\ image = writeImageBytes(o.image, here, Emitted(ins, here))
  BY <1>9, Zenon
<1> DEFINE a == absoluteDataAddress(o.at)
<1> HIDE DEF image, at, segments, faulty, image2, at2
<1>11. IsEmission(coded, k + 1) /\ coded.at = at /\ coded.image = image /\ coded.segments = segments /\ coded.faulty = faulty
  <2>1. IsEmission(coded, k + 1)
    BY <1>6, <1>8, EmissionCoded
  <2>2. coded.at = at /\ coded.image = image /\ coded.segments = segments /\ coded.faulty = faulty
    BY DEF IsEmission
  <2> QED BY <2>1, <2>2
<1> HIDE DEF coded
<1>12. IsEmission(both, k + 1)
  BY <1>6, <1>11, EmissionBoth
<1>13. both.at = at2
  BY <1>11 DEF IsEmission
<1> HIDE DEF both
<1> DEFINE e == emitProgramInstruction(o, k, i)
<1>14. e = coded \/ (e = both /\ o.at.active # "code")
  BY <1>5
<1> HIDE DEF e, here, ins
<1>15. IsEmission(e, k + 1)
  BY <1>11, <1>12, <1>14, Zenon
<1>16. e.at.active = "code" => e = coded
  BY <1>7, <1>13, <1>14
<1> QED BY <1>8, <1>10, <1>11, <1>15, <1>16, Zenon DEF e, here, ins

LEMMA ItemEmitted ==
  ASSUME NEW o, NEW k \in Nat \ {0}, IsEmission(o, k), IsItem(source[k]), TypedNames(known.labels, known.equates)
  PROVE  IsEmission(EmitItem(o, k), k + 1)
<1> DEFINE i == source[k]
           here == activePlacementAddress(o.at)
           pad == alignmentPadding(here, ValueOf(i.e, here))
<1> HIDE DEF i
<1>0. IsItem(i) /\ i.e.off \in Int
  BY ItemFields DEF i
<1>1. here \in Int
  BY PlacementAddresses DEF IsEmission
<1>2. IsEmission(o, k + 1)
  BY EmissionMore
<1>3. EmitItem(o, k) =
        IF o.ended THEN o
        ELSE IF i.kind \in {"label", "equ", "routine"} THEN o
        ELSE IF i.kind = "end" THEN [o EXCEPT !.ended = TRUE]
        ELSE IF i.kind = "org" THEN emitOrg(o, k, i)
        ELSE IF i.kind = "db" THEN EmitData(o, k, <<i.e.off>>, 1)
        ELSE IF i.kind = "ds" THEN emitDs(o, k, i)
        ELSE IF i.kind = "align" THEN EmitData(o, k, Run(pad, 0), pad)
        ELSE emitProgramInstruction(o, k, i)
  BY Zenon DEF EmitItem, i
<1> HIDE DEF here
<1>4. IsEmission([o EXCEPT !.ended = TRUE], k + 1)
  BY <1>2, EmissionEnded
<1>5. IsEmission(emitOrg(o, k, i), k + 1)
  BY <1>0, OrgEmitted
<1>6. IsEmission(EmitData(o, k, <<i.e.off>>, 1), k + 1)
  <2> DEFINE bytes == <<i.e.off>>
  <2>1. Len(bytes) \in Int /\ 1 \in Int
    OBVIOUS
  <2> HIDE DEF bytes
  <2>2. IsEmission(EmitData(o, k, bytes, 1), k + 1)
    BY <2>1, DataEmitted
  <2> QED BY <2>2 DEF bytes
<1>7. IsEmission(emitDs(o, k, i), k + 1)
  BY <1>0, DsEmitted
<1>8. i.kind = "align" => IsEmission(EmitData(o, k, Run(pad, 0), pad), k + 1)
  <2> SUFFICES ASSUME i.kind = "align" PROVE IsEmission(EmitData(o, k, Run(pad, 0), pad), k + 1)
    OBVIOUS
  <2>1. ValueOf(i.e, here) \in Int /\ ValueOf(i.e, here) > 0
    BY <1>0, <1>1, NumValue, ItemFields DEF ValueOf
  <2>2. pad \in Int
    BY <1>1, <2>1, PaddingInt
  <2> HIDE DEF pad
  <2> DEFINE bytes == Run(pad, 0)
  <2>3. Len(bytes) \in Int
    BY <2>2, RunLength
  <2> HIDE DEF bytes
  <2>4. IsEmission(EmitData(o, k, bytes, pad), k + 1)
    BY <2>2, <2>3, DataEmitted
  <2> QED BY <2>4 DEF bytes
<1>9. i.kind = "instruction" => IsEmission(emitProgramInstruction(o, k, i), k + 1)
  BY <1>0, InstructionEmitted
<1>10. i.kind \in {"org", "label", "equ", "db", "ds", "align", "instruction", "end", "routine"}
  BY <1>0, ItemFields
<1> HIDE DEF pad
<1> QED BY <1>2, <1>3, <1>4, <1>5, <1>6, <1>7, <1>8, <1>9, <1>10

(* ------------------------------- the invariant -------------------------------- *)
(* Source and symbols as the parser and the last walk left them, an emission under  *)
(* way whose segments are those of the items before the next, and none while the    *)
(* symbols can still change.                                                        *)
AssemblyInv ==
  /\ Readable
  /\ TypedNames(known.labels, known.equates)
  /\ out.next \in Nat \ {0} /\ IsEmission(out, out.next)
  /\ stage = "planning" => out.segments = <<>>
LEMMA EmissionAtStart == IsEmission(EmitStart, 1) /\ EmitStart.next = 1 /\ EmitStart.segments = <<>>
<1>1. <<>> \in SegmentsBelow(1)
  BY DEF SegmentsBelow
<1> QED BY <1>1, PlacementStart DEF EmitStart, IsEmission

LEMMA JobReadable ==
  ASSUME NEW j \in Jobs
  PROVE  Len(j.source) \in Nat /\ \A k \in 1..Len(j.source) : IsItem(j.source[k])
<1> DEFINE S == {i \in {j.source[k] : k \in DOMAIN j.source} : IsItem(i)}
<1>1. j.source \in Seq(S)
  BY JobsAssumption
<1>2. \A i \in S : IsItem(i)
  OBVIOUS
<1> HIDE DEF S
<1>3. Len(j.source) \in Nat /\ \A k \in 1..Len(j.source) : j.source[k] \in S
  BY <1>1, LenProperties, ElementOfSeq
<1> QED BY <1>2, <1>3

LEMMA AssemblyStarts == Init => AssemblyInv /\ AssembledAsWritten
<1> SUFFICES ASSUME Init PROVE AssemblyInv /\ AssembledAsWritten
  OBVIOUS
<1>1. job \in Jobs /\ source = job.source /\ out = EmitStart /\ known = [labels |-> EmptyMap, equates |-> EmptyMap, origin |-> Unset]
  BY DEF Init, AssemblyInit
<1>2. Readable
  BY <1>1, JobReadable DEF Readable
<1>3. TypedNames(EmptyMap, EmptyMap)
  BY FS_EmptySet DEF TypedNames, EmptyMap
<1>4. known.labels = EmptyMap /\ known.equates = EmptyMap
  BY <1>1
<1>5. IsEmission(out, out.next) /\ out.next = 1 /\ out.segments = <<>>
  BY <1>1, EmissionAtStart
<1>6. AssembledAsWritten
  BY <1>5 DEF AssembledAsWritten
<1> QED BY <1>2, <1>3, <1>4, <1>5, <1>6 DEF AssemblyInv

LEMMA PlanningKeeps ==
  ASSUME AssemblyInv, AssembledAsWritten, PlanningPass
  PROVE  (AssemblyInv /\ AssembledAsWritten)'
<1> DEFINE p == buildAddressStateOnce(pass = 0)
<1>1. known' = Found(p) /\ source' = source /\ out' = out /\ stage = "planning"
  BY Zenon DEF PlanningPass
<1>2. IsWalk(p)
  BY WalkTyped DEF AssemblyInv
<1> HIDE DEF p
<1>3. known'.labels = p.labels /\ known'.equates = p.equates
  BY <1>1 DEF Found
<1>4. TypedNames(known'.labels, known'.equates)
  BY <1>2, <1>3 DEF IsWalk
<1>5. out'.segments = <<>>
  BY <1>1 DEF AssemblyInv
<1>6. Readable'
  BY <1>1 DEF AssemblyInv, Readable
<1>8. AssembledAsWritten'
  BY <1>5 DEF AssembledAsWritten
<1> QED BY <1>1, <1>4, <1>5, <1>6, <1>8 DEF AssemblyInv

LEMMA ReportingKeeps ==
  ASSUME AssemblyInv, AssembledAsWritten, ReportingPass
  PROVE  (AssemblyInv /\ AssembledAsWritten)'
<1> DEFINE p == buildAddressStateOnce(FALSE)
<1>1. known' = Found(p) /\ source' = source /\ out' = EmitStart
  BY Zenon DEF ReportingPass
<1>2. IsWalk(p)
  BY WalkTyped DEF AssemblyInv
<1> HIDE DEF p
<1>3. known'.labels = p.labels /\ known'.equates = p.equates
  BY <1>1 DEF Found
<1>4. TypedNames(known'.labels, known'.equates)
  BY <1>2, <1>3 DEF IsWalk
<1>5. out'.segments = <<>> /\ out'.next = 1 /\ IsEmission(out', 1)
  BY <1>1, EmissionAtStart
<1>6. Readable'
  BY <1>1 DEF AssemblyInv, Readable
<1>8. AssembledAsWritten'
  BY <1>5 DEF AssembledAsWritten
<1> QED BY <1>1, <1>4, <1>5, <1>6, <1>8 DEF AssemblyInv

LEMMA OthersKeep ==
  ASSUME AssemblyInv, AssembledAsWritten, UNCHANGED <<source, known, out>>, stage' = "planning" => stage = "planning"
  PROVE  (AssemblyInv /\ AssembledAsWritten)'
<1>1. AssemblyInv'
  BY DEF AssemblyInv, Readable
<1>2. AssembledAsWritten'
  <2>1. \A x, here : Written(x, here)' = Written(x, here)
    BY DEF Written, ValueOf
  <2> QED BY <2>1 DEF AssembledAsWritten, JustWritten
<1> QED BY <1>1, <1>2

LEMMA EmitKeeps ==
  ASSUME AssemblyInv, AssembledAsWritten, Emit
  PROVE  (AssemblyInv /\ AssembledAsWritten)'
<1> DEFINE k == out.next
           e == EmitItem(out, k)
<1>1. /\ k <= Len(source) /\ out' = [e EXCEPT !.next = k + 1]
      /\ source' = source /\ known' = known /\ stage' = stage /\ stage = "emitting"
  BY DEF Emit
<1>2. k \in Nat \ {0} /\ IsEmission(out, k) /\ IsItem(source[k]) /\ TypedNames(known.labels, known.equates)
  BY <1>1 DEF AssemblyInv, Readable
<1> HIDE DEF k
<1>3. IsEmission(e, k + 1)
  BY <1>2, ItemEmitted
<1> HIDE DEF e
<1>4. /\ IsEmission(out', k + 1) /\ out'.next = k + 1 /\ out'.at = e.at /\ out'.image = e.image
      /\ out'.segments = e.segments /\ out'.faulty = e.faulty
  BY <1>1, <1>3, EmissionNext
<1>5. AssemblyInv'
  BY <1>1, <1>2, <1>4 DEF AssemblyInv, Readable
<1>6. ASSUME NEW j \in DOMAIN e.segments, e.segments[j].item = k, source[k].kind = "instruction", e.at.active = "code",
             ~e.faulty, e.segments[j].start \in RoomFor(instructionSize(source[k].ins))
      PROVE  FoundAt(e.image, e.segments[j].start, Written(source[k], e.segments[j].start), instructionSize(source[k].ins))
  <2> DEFINE s == e.segments[j]
             i == source[k]
  <2> DEFINE here == absoluteCodeAddress(out.at)
             w == Written(i, here)
  <2>1. ~out.ended
    <3> SUFFICES ASSUME out.ended PROVE FALSE
      OBVIOUS
    <3>1. e = out
      BY Zenon DEF EmitItem, e
    <3>2. out.segments \in Seq(SegmentOf(k)) /\ j \in DOMAIN out.segments /\ s = out.segments[j]
      BY <1>2, <1>6, <3>1 DEF IsEmission, SegmentsBelow
    <3>3. s \in SegmentOf(k)
      BY <3>2, ElementOfSeq, LenProperties
    <3>4. s.item = k
      BY <1>6
    <3> HIDE DEF s
    <3> QED BY <1>2, <3>3, <3>4 DEF SegmentOf
  <2>2. e = emitProgramInstruction(out, k, i)
    <3>1. i.kind = "instruction"
      BY <1>6
    <3>2. i.kind \notin {"label", "equ", "routine"} /\ i.kind # "end" /\ i.kind # "org" /\ i.kind # "db" /\ i.kind # "ds" /\ i.kind # "align"
      BY <3>1
    <3> QED BY <2>1, <3>2, Zenon DEF EmitItem, e
  <2>3. /\ e.image = writeImageBytes(out.image, here, Emitted(w, here)) /\ Assembles(w, here)
        /\ s.start = here
    BY <1>2, <1>6, <2>2, InstructionEmitted
  <2> HIDE DEF s, i, here
  <2>4. here \in RoomFor(instructionSize(i.ins)) /\ IsItem(i)
    BY <1>2, <1>6, <2>3 DEF i, s
  <2>5. i.kind = "instruction"
    BY <1>6 DEF i
  <2> HIDE DEF w
  <2>6. Assembles(Written(i, here), here) /\ e.image = writeImageBytes(out.image, here, Emitted(Written(i, here), here))
    BY <2>3 DEF w
  <2>7. FoundAt(e.image, here, Written(i, here), instructionSize(i.ins))
    BY <1>2, <2>4, <2>5, <2>6, InstructionFound
  <2> QED BY <2>3, <2>7 DEF s, i
<1>7. AssembledAsWritten'
  <2>1. \A x, here : Written(x, here)' = Written(x, here)
    BY <1>1 DEF Written, ValueOf
  <2>2. k + 1 - 1 = k
    BY <1>2
  <2> SUFFICES ASSUME NEW s \in {e.segments[j] : j \in DOMAIN e.segments}, JustWritten(s)'
               PROVE  FoundAt(e.image, s.start, Written(source[s.item], s.start), instructionSize(source[s.item].ins))
    BY <1>1, <1>4, <2>1 DEF AssembledAsWritten
  <2>3. PICK j \in DOMAIN e.segments : s = e.segments[j]
    OBVIOUS
  <2>4. /\ s.item = k /\ source[s.item].kind = "instruction" /\ e.at.active = "code" /\ ~e.faulty
        /\ s.start \in RoomFor(instructionSize(source[s.item].ins))
    <3>1. /\ s.item = out'.next - 1 /\ source'[s.item].kind = "instruction" /\ out'.at.active = "code" /\ ~out'.faulty
          /\ s.start \in RoomFor(instructionSize(source'[s.item].ins))
      BY Zenon DEF JustWritten
    <3>2. out'.next - 1 = k
      BY <1>2, <1>4
    <3> QED BY <1>1, <1>4, <3>1, <3>2
  <2> QED BY <1>6, <2>3, <2>4
<1> QED BY <1>5, <1>7

LEMMA AssemblyKept == AssemblyInv /\ AssembledAsWritten /\ [Next]_vars => (AssemblyInv /\ AssembledAsWritten)'
<1> SUFFICES ASSUME AssemblyInv, AssembledAsWritten, [Next]_vars PROVE (AssemblyInv /\ AssembledAsWritten)'
  OBVIOUS
<1>1. CASE PlanningPass
  BY <1>1, PlanningKeeps
<1>2. CASE ReportingPass
  BY <1>2, ReportingKeeps
<1>3. CASE Emit
  BY <1>3, EmitKeeps
<1>4. CASE FinishEmission
  <2>1. UNCHANGED <<source, known, out>> /\ (stage' = "planning" => stage = "planning")
    BY <1>4 DEF FinishEmission
  <2> QED BY <2>1, OthersKeep
<1>5. CASE Analyse \/ Load \/ StepRuntime \/ Iterate \/ UNCHANGED vars
  <2>1. UNCHANGED <<source, known, out>> /\ stage' = stage
    BY <1>5 DEF Analyse, Load, StepRuntime, Iterate, vars, assemblyVars
  <2> QED BY <2>1, OthersKeep
<1> QED BY <1>1, <1>2, <1>3, <1>4, <1>5 DEF Next, Assemble, AssemblyNext

(* Whatever the source, its symbols and the values of its expressions, the bytes   *)
(* the assembler writes for an instruction are decoded by the emulator as that      *)
(* instruction (encodeZ80Instruction, emitProgramInstruction, decodeInstruction).   *)
THEOREM AssembledAsWrittenCorrect == Spec => []AssembledAsWritten
<1> QED BY AssemblyStarts, AssemblyKept, PTL DEF Spec

(* ----------------------------- labels and bytes ------------------------------- *)
(* No bytes go under a data placement that has no base yet.                        *)
Anchored(at) == at.active = "data" => at.dataBase # Unset

LEMMA AnchoredAddress ==
  ASSUME NEW at, IsPlacement(at), Anchored(at)
  PROVE  placementAddress(at) = activePlacementAddress(at)
<1>1. CASE at.active = "data"
  <2>1. at.dataBase # Unset
    BY <1>1 DEF Anchored
  <2> QED BY <1>1, <2>1 DEF placementAddress, BaseOf, OffsetOf, activePlacementAddress, absoluteDataAddress
<1>2. CASE at.active = "code"
  BY <1>2 DEF placementAddress, BaseOf, OffsetOf, activePlacementAddress, absoluteCodeAddress, ResolvedCodeBase
<1> QED BY <1>1, <1>2 DEF IsPlacement

LEMMA AnchoredStart == Anchored(createPlacementState)
  BY DEF Anchored, createPlacementState

LEMMA AnchoredMoves ==
  ASSUME NEW at, IsPlacement(at), Anchored(at), NEW n \in Int
  PROVE  Anchored(advancePlacement(at, n)) /\ Anchored(advanceCodePlacement(at, n)) /\ Anchored(advanceInstruction(at, n))
<1>1. \A p : IsPlacement(p) => /\ advancePlacement(p, n).active = p.active /\ advancePlacement(p, n).dataBase = p.dataBase
                               /\ advanceCodePlacement(p, n).active = p.active /\ advanceCodePlacement(p, n).dataBase = p.dataBase
  BY DEF IsPlacement, advancePlacement, advanceCodePlacement
<1>2. \A p : IsPlacement(p) => advanceInstruction(p, n).active = p.active /\ advanceInstruction(p, n).dataBase = p.dataBase
  BY <1>1, PlacementMoves DEF advanceInstruction
<1> QED BY <1>1, <1>2 DEF Anchored

LEMMA AnchoredOrg ==
  ASSUME NEW at, IsPlacement(at), NEW n \in Int, n # Undefined
  PROVE  Anchored(applyOrg(at, n))
<1>1. CASE BaseOf(at) = Unset /\ at.active = "data"
  <2>1. applyOrg(at, n) = [at EXCEPT !.dataBase = n]
    BY <1>1 DEF applyOrg
  <2>2. applyOrg(at, n).dataBase = n
    BY <2>1 DEF IsPlacement
  <2> QED BY <2>2 DEF Anchored, Unset
<1>2. CASE BaseOf(at) = Unset /\ at.active # "data"
  <2>1. applyOrg(at, n) = [at EXCEPT !.codeBase = n]
    BY <1>2 DEF applyOrg
  <2>2. applyOrg(at, n).active = at.active
    BY <2>1 DEF IsPlacement
  <2> QED BY <1>2, <2>2 DEF Anchored
<1>3. CASE BaseOf(at) # Unset
  <2>1. Anchored(at)
    BY <1>3 DEF Anchored, BaseOf
  <2>2. applyOrg(at, n) = at \/ \E x : applyOrg(at, n) = [at EXCEPT ![at.active] = x]
    BY <1>3 DEF applyOrg
  <2>3. \A x : [at EXCEPT ![at.active] = x].active = at.active /\ [at EXCEPT ![at.active] = x].dataBase = at.dataBase
    BY DEF IsPlacement
  <2>4. applyOrg(at, n).active = at.active /\ applyOrg(at, n).dataBase = at.dataBase
    BY <2>2, <2>3, Zenon
  <2> QED BY <2>1, <2>4 DEF Anchored
<1> QED BY <1>1, <1>2, <1>3

(* What the second walk does to its placement, item by item.                       *)
LEMMA DataPlaced ==
  ASSUME NEW o, NEW n, IsEmission(o, n), NEW k, NEW bytes, NEW size
  PROVE  /\ EmitData(o, k, bytes, size).at = advancePlacement(o.at, size)
         /\ EmitData(o, k, bytes, size).ended = o.ended
         /\ EmitData(o, k, bytes, size).faulty = o.faulty
<1> DEFINE here == activePlacementAddress(o.at)
           image == writeImageBytes(o.image, here, bytes)
           at == advancePlacement(o.at, size)
           segments == o.segments \o Segment(here, here + Len(bytes), k)
<1>1. EmitData(o, k, bytes, size) = [o EXCEPT !.image = image, !.at = at, !.segments = segments]
  BY DEF EmitData, IsEmission
<1> HIDE DEF here, image, at, segments
<1>2. [o EXCEPT !.image = image, !.at = at, !.segments = segments].at = at
  BY DEF IsEmission
<1>3. /\ [o EXCEPT !.image = image, !.at = at, !.segments = segments].ended = o.ended
      /\ [o EXCEPT !.image = image, !.at = at, !.segments = segments].faulty = o.faulty
  BY DEF IsEmission
<1> QED BY <1>1, <1>2, <1>3, Zenon DEF at

LEMMA InstructionPlaced ==
  ASSUME NEW o, NEW n, IsEmission(o, n), NEW k, NEW i, IsItem(i), i.kind = "instruction",
         TypedNames(known.labels, known.equates)
  PROVE  /\ emitProgramInstruction(o, k, i).at = advanceInstruction(o.at, instructionSize(i.ins))
         /\ emitProgramInstruction(o, k, i).ended = o.ended
         /\ o.faulty => emitProgramInstruction(o, k, i).faulty
<1> DEFINE here == absoluteCodeAddress(o.at)
           ins == Written(i, here)
           good == ins.src.val # Undefined /\ Assembles(ins, here)
           bytes == IF good THEN Emitted(ins, here) ELSE <<>>
           size == instructionSize(ins)
           image == writeImageBytes(o.image, here, bytes)
           at == advanceCodePlacement(o.at, size)
           segments == o.segments \o Segment(here, here + size, k)
           faulty == o.faulty \/ ~good
           coded == [o EXCEPT !.image = image, !.at = at, !.segments = segments, !.faulty = faulty]
           image2 == writeImageBytes(image, absoluteDataAddress(o.at), bytes)
           at2 == advancePlacement(at, size)
           both == [coded EXCEPT !.image = image2, !.at = at2]
<1>1. IsPlacement(o.at)
  BY DEF IsEmission
<1>2. here \in Int
  BY <1>1, PlacementAddresses
<1>3. size = instructionSize(i.ins)
  <2> HIDE DEF here
  <2> QED BY <1>2, WrittenSize
<1>4. coded = [x \in {"at", "image", "reserved", "segments", "next", "ended", "faulty"} |-> coded[x]]
      /\ coded.image = image /\ coded.at = at /\ coded.ended = o.ended /\ coded.faulty = faulty
  <2> HIDE DEF image, at, segments, faulty
  <2> QED BY DEF IsEmission
<1>5. emitProgramInstruction(o, k, i) = IF o.at.active = "code" THEN coded ELSE both
  <2>1. emitProgramInstruction(o, k, i) =
          LET c == [o EXCEPT !.image = writeImageBytes(@, here, bytes), !.at = advanceCodePlacement(@, size),
                             !.segments = @ \o Segment(here, here + size, k), !.faulty = @ \/ ~good]
          IN IF o.at.active = "code" THEN c
             ELSE [c EXCEPT !.image = writeImageBytes(@, absoluteDataAddress(o.at), bytes), !.at = advancePlacement(@, size)]
    BY Zenon DEF emitProgramInstruction
  <2>2. [o EXCEPT !.image = writeImageBytes(@, here, bytes), !.at = advanceCodePlacement(@, size),
                  !.segments = @ \o Segment(here, here + size, k), !.faulty = @ \/ ~good] = coded
    <3> HIDE DEF here, bytes, size, good
    <3> QED BY DEF IsEmission
  <2> HIDE DEF coded
  <2>3. [coded EXCEPT !.image = writeImageBytes(@, absoluteDataAddress(o.at), bytes), !.at = advancePlacement(@, size)] = both
    BY <1>4
  <2> QED BY <2>1, <2>2, <2>3, Zenon
<1> HIDE DEF coded, image2
<1>6. both.at = at2 /\ both.ended = o.ended /\ both.faulty = faulty
  <2> HIDE DEF at2, at, faulty
  <2> QED BY <1>4
<1> HIDE DEF both
<1>7. advanceInstruction(o.at, size) = IF o.at.active = "data" THEN at2 ELSE at
  BY Zenon DEF advanceInstruction
<1>8. o.at.active = "code" \/ o.at.active = "data"
  BY <1>1 DEF IsPlacement
<1>9. o.faulty => faulty
  BY Zenon
<1> HIDE DEF at, at2, size, faulty
<1> QED BY <1>9, <1>3, <1>4, <1>5, <1>6, <1>7, <1>8

(* The two walks do the same to their placements, as long as nothing is at fault.   *)
LEMMA OrgPlaced ==
  ASSUME NEW o, NEW n, IsEmission(o, n), NEW k, NEW i, IsItem(i), i.kind = "org", NEW p, IsWalk(p),
         p.at = o.at, ~p.ended, TypedNames(known.labels, known.equates), ~emitOrg(o, k, i).faulty
  PROVE  /\ PlanItem(p, i, k, known).at = emitOrg(o, k, i).at
         /\ PlanItem(p, i, k, known).ended = p.ended /\ emitOrg(o, k, i).ended = o.ended
         /\ Anchored(emitOrg(o, k, i).at)
<1> DEFINE active == [o.at EXCEPT !.active = placementForOrg(source, k)]
           value == ValueOf(i.e, placementAddress(active))
           at == applyOrg(active, value)
           origin == IF p.origin = Unset THEN value ELSE p.origin
<1>1. IsPlacement(active)
  BY PlacementForOrg DEF IsEmission
<1>2. emitOrg(o, k, i) = IF value = Undefined THEN [o EXCEPT !.at = active, !.faulty = TRUE] ELSE [o EXCEPT !.at = at]
  BY DEF emitOrg
<1>3. PlanItem(p, i, k, known) =
        IF value = Undefined THEN [p EXCEPT !.at = active, !.faulty = TRUE]
        ELSE [p EXCEPT !.at = at, !.origin = IF @ = Unset THEN value ELSE @]
  BY Zenon DEF PlanItem, ValueOf
<1> HIDE DEF active
<1>4. value \in Int
  BY <1>1, PlacementAddresses, ItemFields, ExpressionInt DEF ValueOf
<1> HIDE DEF value, at
<1>5. value # Undefined
  <2>1. [o EXCEPT !.at = active, !.faulty = TRUE].faulty = TRUE
    BY DEF IsEmission
  <2> QED BY <1>2, <2>1
<1>6. Anchored(at)
  BY <1>1, <1>4, <1>5, AnchoredOrg DEF at
<1>7. [o EXCEPT !.at = at].at = at /\ [o EXCEPT !.at = at].ended = o.ended
  BY DEF IsEmission
<1>8. [p EXCEPT !.at = at, !.origin = IF @ = Unset THEN value ELSE @] = [p EXCEPT !.at = at, !.origin = origin]
  BY DEF IsWalk
<1> HIDE DEF origin
<1>9. [p EXCEPT !.at = at, !.origin = origin].at = at /\ [p EXCEPT !.at = at, !.origin = origin].ended = p.ended
  BY DEF IsWalk
<1> QED BY <1>2, <1>3, <1>5, <1>6, <1>7, <1>8, <1>9

LEMMA DsPlaced ==
  ASSUME NEW o, NEW n, IsEmission(o, n), NEW k, NEW i, IsItem(i), i.kind = "ds", NEW p, IsWalk(p),
         p.at = o.at, ~p.ended, Anchored(o.at), TypedNames(known.labels, known.equates), ~emitDs(o, k, i).faulty
  PROVE  /\ PlanItem(p, i, k, known).at = emitDs(o, k, i).at
         /\ PlanItem(p, i, k, known).ended = p.ended /\ emitDs(o, k, i).ended = o.ended
         /\ Anchored(emitDs(o, k, i).at)
<1> DEFINE here == activePlacementAddress(o.at)
           size == ValueOf(i.e, here)
           run == Run(size, i.arg - 1)
           reserved == o.reserved \cup here..(here + size - 1)
           at == advancePlacement(o.at, size)
<1>1. IsPlacement(o.at) /\ here = placementAddress(p.at) /\ here \in Int
  BY AnchoredAddress, PlacementAddresses DEF IsEmission
<1>2. size \in Int
  <2> HIDE DEF here
  <2> QED BY <1>1, ItemFields, ExpressionInt DEF ValueOf
<1>3. \/ emitDs(o, k, i) = [o EXCEPT !.faulty = TRUE]
      \/ size # Undefined /\ emitDs(o, k, i) = EmitData(o, k, run, size)
      \/ size # Undefined /\ emitDs(o, k, i) = [o EXCEPT !.reserved = reserved, !.at = at]
  BY DEF emitDs, IsEmission
<1>4. size # Undefined => PlanItem(p, i, k, known) = [p EXCEPT !.at = advancePlacement(@, size)]
  <2> HIDE DEF here
  <2> QED BY <1>1 DEF PlanItem, ValueOf
<1> HIDE DEF here, size
<1>5. EmitData(o, k, run, size).at = at /\ EmitData(o, k, run, size).ended = o.ended
  BY DataPlaced DEF at
<1> HIDE DEF run, reserved
<1>6. Anchored(at)
  BY <1>1, <1>2, AnchoredMoves
<1>7. [p EXCEPT !.at = advancePlacement(@, size)] = [p EXCEPT !.at = at]
  BY DEF IsWalk
<1> HIDE DEF at
<1>8. [o EXCEPT !.reserved = reserved, !.at = at].at = at /\ [o EXCEPT !.reserved = reserved, !.at = at].ended = o.ended
  BY DEF IsEmission
<1>9. [o EXCEPT !.faulty = TRUE].faulty = TRUE
  BY DEF IsEmission
<1>10. [p EXCEPT !.at = at].at = at /\ [p EXCEPT !.at = at].ended = p.ended
  BY DEF IsWalk
<1> QED BY <1>3, <1>4, <1>5, <1>6, <1>7, <1>8, <1>9, <1>10, Zenon

LEMMA WalksAgree ==
  ASSUME NEW k \in Nat \ {0}, NEW o, IsEmission(o, k), NEW p, IsWalk(p), p.at = o.at, p.ended = o.ended, Anchored(o.at),
         IsItem(source[k]), TypedNames(known.labels, known.equates), ~EmitItem(o, k).faulty
  PROVE  /\ PlanItem(p, source[k], k, known).at = EmitItem(o, k).at
         /\ PlanItem(p, source[k], k, known).ended = EmitItem(o, k).ended
         /\ Anchored(EmitItem(o, k).at)
<1> DEFINE i == source[k]
           here == activePlacementAddress(o.at)
           q == PlanItem(p, i, k, known)
           e == EmitItem(o, k)
           Agree == q.at = e.at /\ q.ended = e.ended /\ Anchored(e.at)
<1> SUFFICES Agree
  OBVIOUS
<1>0. IsItem(i) /\ ~e.faulty
  OBVIOUS
<1> HIDE DEF i, e, q
<1>1. IsPlacement(o.at) /\ here = placementAddress(p.at) /\ here \in Int
  BY AnchoredAddress, PlacementAddresses DEF IsEmission
<1>2. CASE o.ended \/ i.kind = "routine"
  <2>1. q = p
    BY <1>2 DEF PlanItem, q
  <2>2. e = o
    BY <1>2, Zenon DEF EmitItem, e, i
  <2> QED BY <2>1, <2>2
<1>3. CASE ~o.ended /\ i.kind \in {"label", "equ"}
  <2>1. q = PlanDefinition(p, i)
    BY <1>3 DEF PlanItem, q
  <2>2. e = o
    BY <1>3, Zenon DEF EmitItem, e, i
  <2>3. PlanDefinition(p, i).at = p.at /\ PlanDefinition(p, i).ended = p.ended
    BY DEF PlanDefinition, IsWalk
  <2> QED BY <2>1, <2>2, <2>3
<1>4. CASE ~o.ended /\ i.kind = "end"
  <2>1. q = [p EXCEPT !.ended = TRUE]
    BY <1>4 DEF PlanItem, q
  <2>2. e = [o EXCEPT !.ended = TRUE]
    <3>1. i.kind \notin {"label", "equ", "routine"}
      BY <1>4
    <3> QED BY <1>4, <3>1, Zenon DEF EmitItem, e, i
  <2>3. [p EXCEPT !.ended = TRUE].at = p.at /\ [p EXCEPT !.ended = TRUE].ended = TRUE
    BY DEF IsWalk
  <2>4. [o EXCEPT !.ended = TRUE].at = o.at /\ [o EXCEPT !.ended = TRUE].ended = TRUE
    BY DEF IsEmission
  <2> QED BY <2>1, <2>2, <2>3, <2>4
<1>5. CASE ~o.ended /\ i.kind = "org"
  <2>1. e = emitOrg(o, k, i)
    <3>1. i.kind \notin {"label", "equ", "routine"} /\ i.kind # "end"
      BY <1>5
    <3> QED BY <1>5, <3>1, Zenon DEF EmitItem, e, i
  <2> QED BY <1>0, <1>5, <2>1, OrgPlaced DEF q
<1>6. CASE ~o.ended /\ i.kind = "ds"
  <2>1. e = emitDs(o, k, i)
    <3>1. i.kind \notin {"label", "equ", "routine"} /\ i.kind # "end" /\ i.kind # "org" /\ i.kind # "db"
      BY <1>6
    <3> QED BY <1>6, <3>1, Zenon DEF EmitItem, e, i
  <2> QED BY <1>0, <1>6, <2>1, DsPlaced DEF q
<1>7. CASE ~o.ended /\ i.kind = "db"
  <2>1. e = EmitData(o, k, <<i.e.off>>, 1)
    <3>1. i.kind \notin {"label", "equ", "routine"} /\ i.kind # "end" /\ i.kind # "org"
      BY <1>7
    <3> QED BY <1>7, <3>1, Zenon DEF EmitItem, e, i
  <2>2. q = [p EXCEPT !.at = advancePlacement(p.at, 1)]
    BY <1>7 DEF PlanItem, IsWalk, q
  <2> DEFINE at == advancePlacement(o.at, 1)
  <2>3. e.at = at /\ e.ended = o.ended
    BY <2>1, DataPlaced
  <2>4. Anchored(at)
    BY <1>1, AnchoredMoves
  <2>5. q = [p EXCEPT !.at = at]
    BY <2>2
  <2> HIDE DEF at
  <2>6. [p EXCEPT !.at = at].at = at /\ [p EXCEPT !.at = at].ended = p.ended
    BY DEF IsWalk
  <2> QED BY <2>3, <2>4, <2>5, <2>6
<1>8. CASE ~o.ended /\ i.kind = "align"
  <2> DEFINE value == ValueOf(i.e, here)
             pad == alignmentPadding(here, value)
             at == advancePlacement(o.at, pad)
  <2>0. value \in Int /\ value > 0
    BY <1>0, <1>8, NumValue, ItemFields DEF ValueOf
  <2>1. e = EmitData(o, k, Run(pad, 0), pad)
    <3>1. i.kind \notin {"label", "equ", "routine"} /\ i.kind # "end" /\ i.kind # "org" /\ i.kind # "db" /\ i.kind # "ds"
      BY <1>8
    <3> QED BY <1>8, <3>1, Zenon DEF EmitItem, e, i
  <2>2. q = [p EXCEPT !.at = advancePlacement(p.at, alignmentPadding(placementAddress(p.at), value))]
    <3> HIDE DEF here
    <3> QED BY <1>1, <1>8 DEF PlanItem, IsWalk, ValueOf, q
  <2> HIDE DEF here, value
  <2>3. q = [p EXCEPT !.at = at]
    BY <1>1, <2>2
  <2>4. pad \in Int
    BY <1>1, <2>0, PaddingInt
  <2> HIDE DEF pad
  <2>5. e.at = at /\ e.ended = o.ended
    BY <2>1, DataPlaced
  <2>6. Anchored(at)
    BY <1>1, <2>4, AnchoredMoves
  <2> HIDE DEF at
  <2>7. [p EXCEPT !.at = at].at = at /\ [p EXCEPT !.at = at].ended = p.ended
    BY DEF IsWalk
  <2> QED BY <2>3, <2>5, <2>6, <2>7
<1>9. CASE ~o.ended /\ i.kind = "instruction"
  <2> DEFINE size == instructionSize(i.ins)
             at == advanceInstruction(o.at, size)
  <2>0. size \in Int
    BY <1>0, <1>9, ItemFields, InstructionSizes
  <2>1. e = emitProgramInstruction(o, k, i)
    <3>1. i.kind \notin {"label", "equ", "routine"} /\ i.kind # "end" /\ i.kind # "org" /\ i.kind # "db" /\ i.kind # "ds" /\ i.kind # "align"
      BY <1>9
    <3> QED BY <1>9, <3>1, Zenon DEF EmitItem, e, i
  <2>2. q = [p EXCEPT !.at = advanceInstruction(p.at, instructionSize(i.ins))]
    BY <1>9 DEF PlanItem, IsWalk, q
  <2>3. e.at = at /\ e.ended = o.ended
    BY <1>0, <1>9, <2>1, InstructionPlaced
  <2> HIDE DEF size
  <2>4. Anchored(at)
    BY <1>1, <2>0, AnchoredMoves
  <2>5. q = [p EXCEPT !.at = at]
    BY <2>2 DEF size
  <2> HIDE DEF at
  <2>6. [p EXCEPT !.at = at].at = at /\ [p EXCEPT !.at = at].ended = p.ended
    BY DEF IsWalk
  <2> QED BY <2>3, <2>4, <2>5, <2>6
<1> QED BY <1>0, <1>2, <1>3, <1>4, <1>5, <1>6, <1>7, <1>8, <1>9, ItemFields

(* What a walk has found it keeps, and what it found wrong too.                    *)
Keeps(p, q) ==
  /\ p.faulty => q.faulty
  /\ \A t \in DOMAIN p.labels : t \in DOMAIN q.labels /\ q.labels[t] = p.labels[t]

LEMMA DefinitionKeeps ==
  ASSUME NEW p, IsWalk(p), NEW i
  PROVE  Keeps(p, PlanDefinition(p, i))
<1> DEFINE here == placementAddress(p.at)
           equates == Put(p.equates, i.name, [e |-> i.e, at |-> here])
           labels == Put(p.labels, i.name, here)
<1>1. \/ PlanDefinition(p, i) = [p EXCEPT !.faulty = TRUE]
      \/ i.name \notin DOMAIN p.labels /\ PlanDefinition(p, i) = [p EXCEPT !.labels = labels]
      \/ PlanDefinition(p, i) = [p EXCEPT !.equates = equates]
  BY DEF PlanDefinition, IsWalk
<1> HIDE DEF equates, here
<1>2. i.name \notin DOMAIN p.labels => \A t \in DOMAIN p.labels : t \in DOMAIN labels /\ labels[t] = p.labels[t]
  <2>1. /\ DOMAIN labels = DOMAIN p.labels \cup {i.name}
        /\ \A t \in DOMAIN p.labels \cup {i.name} : labels[t] = IF t = i.name THEN here ELSE p.labels[t]
    BY DEF Put, labels
  <2> HIDE DEF labels
  <2> QED BY <2>1
<1> HIDE DEF labels
<1>3. [p EXCEPT !.faulty = TRUE].labels = p.labels /\ [p EXCEPT !.faulty = TRUE].faulty
  BY DEF IsWalk
<1>4. [p EXCEPT !.labels = labels].labels = labels /\ [p EXCEPT !.labels = labels].faulty = p.faulty
  BY DEF IsWalk
<1>5. [p EXCEPT !.equates = equates].labels = p.labels /\ [p EXCEPT !.equates = equates].faulty = p.faulty
  BY DEF IsWalk
<1> HIDE DEF IsWalk
<1> QED BY <1>1, <1>2, <1>3, <1>4, <1>5 DEF Keeps

LEMMA ItemKeeps ==
  ASSUME NEW p, IsWalk(p), NEW i, NEW k, NEW names
  PROVE  Keeps(p, PlanItem(p, i, k, names))
<1> DEFINE active == IF i.kind = "org" THEN [p.at EXCEPT !.active = placementForOrg(source, k)] ELSE p.at
           value == evaluateExpression(i.e, placementAddress(active), names.labels, names.equates)
           q == PlanItem(p, i, k, names)
           x1 == applyOrg(active, value)
           x2 == IF p.origin = Unset THEN value ELSE p.origin
           x3 == advancePlacement(p.at, value)
           x4 == advancePlacement(p.at, 1)
           x5 == advancePlacement(p.at, alignmentPadding(placementAddress(p.at), value))
           x6 == advanceInstruction(p.at, instructionSize(i.ins))
<1>1. \/ q = p
      \/ q = PlanDefinition(p, i)
      \/ q = [p EXCEPT !.at = active, !.faulty = TRUE]
      \/ q = [p EXCEPT !.at = x1, !.origin = x2]
      \/ \E x \in {x3, x4, x5, x6} : q = [p EXCEPT !.at = x]
      \/ q = [p EXCEPT !.ended = TRUE]
  <2> HIDE DEF value, active
  <2>1. /\ p.at = p["at"] /\ p.origin = p["origin"]
    OBVIOUS
  <2>2. q = IF p.ended \/ i.kind = "routine" THEN p
            ELSE IF i.kind \in {"label", "equ"} THEN PlanDefinition(p, i)
            ELSE IF i.kind \in {"org", "ds"} /\ value = Undefined THEN [p EXCEPT !.at = active, !.faulty = TRUE]
            ELSE IF i.kind = "org" THEN [p EXCEPT !.at = applyOrg(active, value), !.origin = IF @ = Unset THEN value ELSE @]
            ELSE IF i.kind = "ds" THEN [p EXCEPT !.at = advancePlacement(@, value)]
            ELSE IF i.kind = "db" THEN [p EXCEPT !.at = advancePlacement(@, 1)]
            ELSE IF i.kind = "align" THEN [p EXCEPT !.at = advancePlacement(@, alignmentPadding(placementAddress(@), value))]
            ELSE IF i.kind = "instruction" THEN [p EXCEPT !.at = advanceInstruction(@, instructionSize(i.ins))]
            ELSE [p EXCEPT !.ended = TRUE]
    BY Zenon DEF PlanItem, active, value
  <2>3. [p EXCEPT !.at = applyOrg(active, value), !.origin = IF @ = Unset THEN value ELSE @] = [p EXCEPT !.at = x1, !.origin = x2]
    BY DEF IsWalk
  <2>4. /\ [p EXCEPT !.at = advancePlacement(@, value)] = [p EXCEPT !.at = x3]
        /\ [p EXCEPT !.at = advancePlacement(@, 1)] = [p EXCEPT !.at = x4]
    BY DEF IsWalk
  <2>5. [p EXCEPT !.at = advancePlacement(@, alignmentPadding(placementAddress(@), value))] = [p EXCEPT !.at = x5]
    BY DEF IsWalk
  <2>6. [p EXCEPT !.at = advanceInstruction(@, instructionSize(i.ins))] = [p EXCEPT !.at = x6]
    BY DEF IsWalk
  <2> HIDE DEF q, x1, x2, x3, x4, x5, x6
  <2> QED BY <2>2, <2>3, <2>4, <2>5, <2>6, Zenon
<1> HIDE DEF active, value, q, x1, x2, x3, x4, x5, x6
<1>2. \A x : [p EXCEPT !.at = x].labels = p.labels /\ [p EXCEPT !.at = x].faulty = p.faulty
  BY DEF IsWalk
<1>3. [p EXCEPT !.at = x1, !.origin = x2].labels = p.labels /\ [p EXCEPT !.at = x1, !.origin = x2].faulty = p.faulty
  BY DEF IsWalk
<1>4. [p EXCEPT !.at = active, !.faulty = TRUE].labels = p.labels /\ [p EXCEPT !.at = active, !.faulty = TRUE].faulty = TRUE
  BY DEF IsWalk
<1>5. [p EXCEPT !.ended = TRUE].labels = p.labels /\ [p EXCEPT !.ended = TRUE].faulty = p.faulty
  BY DEF IsWalk
<1>6. Keeps(p, PlanDefinition(p, i))
  BY DefinitionKeeps
<1>7. q = PlanDefinition(p, i) \/ (q.labels = p.labels /\ (p.faulty => q.faulty))
  <2>1. \A x : q = [p EXCEPT !.at = x] => q.labels = p.labels /\ q.faulty = p.faulty
    BY <1>2
  <2>2. q = p => q.labels = p.labels /\ q.faulty = p.faulty
    OBVIOUS
  <2>3. q = [p EXCEPT !.at = x1, !.origin = x2] => q.labels = p.labels /\ q.faulty = p.faulty
    BY <1>3
  <2>4. q = [p EXCEPT !.at = active, !.faulty = TRUE] => q.labels = p.labels /\ q.faulty
    BY <1>4
  <2>5. q = [p EXCEPT !.ended = TRUE] => q.labels = p.labels /\ q.faulty = p.faulty
    BY <1>5
  <2> QED BY <1>1, <2>1, <2>2, <2>3, <2>4, <2>5, Zenon
<1>8. Keeps(p, q)
  BY <1>6, <1>7 DEF Keeps
<1> QED BY <1>8 DEF q

(* While the last walk's findings are those it looked symbols up in, walking again  *)
(* finds the same: the second walk is held against that walk.                      *)
LastWalk == Walk(FALSE)
Settled == stage = "emitting" /\ settled
WalkStands ==
  Settled => /\ known.labels = LastWalk[Len(source)].labels
             /\ ~LastWalk[Len(source)].faulty
WalksTogether ==
  Settled /\ ~out.faulty =>
    /\ out.next <= Len(source) + 1
    /\ out.at = LastWalk[out.next - 1].at
    /\ out.ended = LastWalk[out.next - 1].ended
    /\ Anchored(out.at)
LabelInv == AssemblyInv /\ WalkStands /\ WalksTogether

LEMMA WalkSteps ==
  ASSUME Readable
  PROVE  /\ LastWalk[0] = PlanStart
         /\ \A k \in 1..Len(source) : LastWalk[k] = PlanItem(LastWalk[k - 1], source[k], k, known)
<1> DEFINE w == LastWalk
<1>1. Len(source) \in Nat /\ \A k \in 0..Len(source) : w[k] = WalkStep(FALSE, w, k)
  BY WalkExists, Zenon DEF Readable, LastWalk
<1> HIDE DEF w
<1>2. \A k : WalkStep(FALSE, w, k) = IF k = 0 THEN PlanStart ELSE PlanItem(w[k - 1], source[k], k, known)
  BY Zenon DEF WalkStep, NextWalk
<1>3. \A k \in 0..Len(source) : w[k] = IF k = 0 THEN PlanStart ELSE PlanItem(w[k - 1], source[k], k, known)
  BY <1>1, <1>2, Zenon
<1>4. w[0] = PlanStart /\ \A k \in 1..Len(source) : w[k] = PlanItem(w[k - 1], source[k], k, known)
  BY <1>1, <1>3
<1> QED BY <1>4 DEF w

LEMMA WalkSoFarTyped ==
  ASSUME Readable, TypedNames(known.labels, known.equates), NEW k \in 0..Len(source)
  PROVE  IsWalk(LastWalk[k])
<1> DEFINE Typed == {n \in Nat : n <= Len(source) => IsWalk(LastWalk[n])}
<1>1. 0 \in Typed
  BY WalkSteps, WalkStartTyped
<1>2. \A n \in Nat : n \in Typed => n + 1 \in Typed
  <2> SUFFICES ASSUME NEW n \in Nat, n \in Typed, n + 1 <= Len(source) PROVE IsWalk(LastWalk[n + 1])
    OBVIOUS
  <2>1. IsWalk(LastWalk[n]) /\ n + 1 \in 1..Len(source) /\ n + 1 - 1 = n
    BY DEF Readable
  <2>2. IsItem(source[n + 1]) /\ LastWalk[n + 1] = PlanItem(LastWalk[n], source[n + 1], n + 1, known)
    BY <2>1, WalkSteps DEF Readable
  <2> QED BY <2>1, <2>2, PlanItemTyped
<1> HIDE DEF Typed
<1>3. k \in Typed
  BY <1>1, <1>2, NatSetInduction DEF Readable
<1> QED BY <1>3 DEF Typed

LEMMA WalkKeeps ==
  ASSUME Readable, TypedNames(known.labels, known.equates), NEW k \in 0..Len(source)
  PROVE  Keeps(LastWalk[k], LastWalk[Len(source)])
<1> DEFINE Kept == {n \in Nat : k + n <= Len(source) => Keeps(LastWalk[k], LastWalk[k + n])}
<1>1. 0 \in Kept
  <2>1. Keeps(LastWalk[k], LastWalk[k])
    BY DEF Keeps
  <2>2. k + 0 = k
    BY DEF Readable
  <2> QED BY <2>1, <2>2
<1>2. \A n \in Nat : n \in Kept => n + 1 \in Kept
  <2> SUFFICES ASSUME NEW n \in Nat, n \in Kept, k + (n + 1) <= Len(source)
               PROVE  Keeps(LastWalk[k], LastWalk[k + (n + 1)])
    OBVIOUS
  <2> DEFINE m == k + (n + 1)
  <2>1. m \in 1..Len(source) /\ m - 1 = k + n /\ k + n <= Len(source) /\ m - 1 \in 0..Len(source)
    BY DEF Readable
  <2>2. Keeps(LastWalk[k], LastWalk[m - 1])
    BY <2>1
  <2> HIDE DEF m
  <2>3. LastWalk[m] = PlanItem(LastWalk[m - 1], source[m], m, known) /\ IsWalk(LastWalk[m - 1])
    BY <2>1, WalkSteps, WalkSoFarTyped
  <2>4. Keeps(LastWalk[m - 1], LastWalk[m])
    BY <2>3, ItemKeeps
  <2>5. Keeps(LastWalk[k], LastWalk[m])
    BY <2>2, <2>4 DEF Keeps
  <2> QED BY <2>5 DEF m
<1> HIDE DEF Kept
<1>3. Len(source) - k \in Kept
  BY <1>1, <1>2, NatSetInduction DEF Readable
<1>4. k + (Len(source) - k) = Len(source)
  BY DEF Readable
<1> QED BY <1>3, <1>4 DEF Kept, Readable

LEMMA LabelsPointed ==
  ASSUME LabelInv
  PROVE  LabelsPointAtTheirBytes
<1> SUFFICES ASSUME stage = "emitting", settled, ~out.ended, ~out.faulty, out.next <= Len(source), source[out.next].kind = "label"
             PROVE  known.labels[source[out.next].name] = activePlacementAddress(out.at)
  BY DEF LabelsPointAtTheirBytes
<1> DEFINE k == out.next
           p == LastWalk[k - 1]
           q == LastWalk[k]
           i == source[k]
           here == placementAddress(p.at)
<1>1. Readable /\ TypedNames(known.labels, known.equates) /\ k \in 1..Len(source) /\ k - 1 \in 0..Len(source) /\ k \in 0..Len(source)
  BY DEF LabelInv, AssemblyInv, Readable
<1>2. Settled
  BY DEF Settled
<1>3. known.labels = LastWalk[Len(source)].labels /\ ~LastWalk[Len(source)].faulty
  BY <1>2 DEF LabelInv, WalkStands
<1>4. out.at = p.at /\ out.ended = p.ended /\ Anchored(out.at)
  BY <1>2 DEF LabelInv, WalksTogether
<1> HIDE DEF k
<1>5. IsWalk(p) /\ Keeps(q, LastWalk[Len(source)])
  BY <1>1, WalkSoFarTyped, WalkKeeps
<1>6. q = PlanItem(p, i, k, known)
  BY <1>1, WalkSteps
<1>7. i.kind = "label"
  BY DEF k
<1> HIDE DEF p, q, i
<1>8. q = PlanDefinition(p, i)
  BY <1>4, <1>6, <1>7 DEF PlanItem
<1>9. ~q.faulty
  BY <1>3, <1>5 DEF Keeps
<1>10. q = [p EXCEPT !.labels = Put(@, i.name, here)]
  <2>1. [p EXCEPT !.faulty = TRUE].faulty
    BY <1>5 DEF IsWalk
  <2>2. q = [p EXCEPT !.faulty = TRUE] \/ q = [p EXCEPT !.labels = Put(@, i.name, here)]
    BY <1>7, <1>8 DEF PlanDefinition
  <2> QED BY <1>9, <2>1, <2>2
<1> HIDE DEF here
<1>11. q.labels = Put(p.labels, i.name, here)
  BY <1>5, <1>10 DEF IsWalk
<1>12. i.name \in DOMAIN q.labels /\ q.labels[i.name] = here
  BY <1>11 DEF Put
<1>13. known.labels[i.name] = here
  BY <1>3, <1>5, <1>12 DEF Keeps
<1>14. here = activePlacementAddress(out.at)
  BY <1>4, <1>5, AnchoredAddress DEF IsWalk, here
<1> QED BY <1>13, <1>14 DEF i, k

(* The walk of the next state is this state's, while source and symbols stay.        *)
LEMMA ItemUnmoved ==
  ASSUME source' = source, NEW p, NEW i, NEW k, NEW names
  PROVE  PlanItem(p, i, k, names)' = PlanItem(p, i, k, names)
  BY DEF PlanItem

LEMMA WalkStepsHere ==
  Readable => /\ LastWalk[0] = PlanStart
              /\ \A k \in 1..Len(source) : LastWalk[k] = PlanItem(LastWalk[k - 1], source[k], k, known)
  BY WalkSteps
LEMMA WalkStepsNext ==
  (Readable => /\ LastWalk[0] = PlanStart
               /\ \A k \in 1..Len(source) : LastWalk[k] = PlanItem(LastWalk[k - 1], source[k], k, known))'
  BY WalkStepsHere, PTL

LEMMA WalkUnmoved ==
  ASSUME Readable, source' = source, known' = known, NEW k \in 0..Len(source)
  PROVE  LastWalk'[k] = LastWalk[k]
<1> DEFINE w == LastWalk
           v == LastWalk'
           Same == {n \in Nat : n <= Len(source) => v[n] = w[n]}
<1>1. w[0] = PlanStart /\ \A n \in 1..Len(source) : w[n] = PlanItem(w[n - 1], source[n], n, known)
  BY WalkSteps
<1>2. v[0] = PlanStart /\ \A n \in 1..Len(source) : v[n] = PlanItem(v[n - 1], source[n], n, known)
  <2>1. Readable'
    BY DEF Readable
  <2>2. PlanStart' = PlanStart
    BY Zenon DEF PlanStart
  <2>3. v[0] = PlanStart' /\ \A n \in 1..Len(source') : v[n] = PlanItem(LastWalk[n - 1], source[n], n, known)'
    BY <2>1, WalkStepsNext
  <2>4. \A n : PlanItem(LastWalk[n - 1], source[n], n, known)' = PlanItem(v[n - 1], source[n], n, known)
    BY ItemUnmoved
  <2> QED BY <2>2, <2>3, <2>4
<1> HIDE DEF w, v
<1>3. 0 \in Same
  BY <1>1, <1>2
<1>4. \A n \in Nat : n \in Same => n + 1 \in Same
  <2> SUFFICES ASSUME NEW n \in Nat, n \in Same, n + 1 <= Len(source) PROVE v[n + 1] = w[n + 1]
    OBVIOUS
  <2>1. v[n] = w[n] /\ n + 1 \in 1..Len(source) /\ n + 1 - 1 = n
    BY DEF Readable
  <2> QED BY <1>1, <1>2, <2>1
<1> HIDE DEF Same
<1>5. k \in Same
  BY <1>3, <1>4, NatSetInduction DEF Readable
<1> QED BY <1>5 DEF Same, w, v, Readable

LEMMA FaultStays ==
  ASSUME NEW o, NEW n, IsEmission(o, n), NEW k, IsItem(source[k]), TypedNames(known.labels, known.equates), o.faulty
  PROVE  EmitItem(o, k).faulty
<1> DEFINE i == source[k]
           here == activePlacementAddress(o.at)
           pad == alignmentPadding(here, ValueOf(i.e, here))
<1> HIDE DEF i
<1>1. EmitItem(o, k) =
        IF o.ended THEN o
        ELSE IF i.kind \in {"label", "equ", "routine"} THEN o
        ELSE IF i.kind = "end" THEN [o EXCEPT !.ended = TRUE]
        ELSE IF i.kind = "org" THEN emitOrg(o, k, i)
        ELSE IF i.kind = "db" THEN EmitData(o, k, <<i.e.off>>, 1)
        ELSE IF i.kind = "ds" THEN emitDs(o, k, i)
        ELSE IF i.kind = "align" THEN EmitData(o, k, Run(pad, 0), pad)
        ELSE emitProgramInstruction(o, k, i)
  BY Zenon DEF EmitItem, i
<1>2. \A bytes, size : EmitData(o, k, bytes, size).faulty
  BY DataPlaced
<1>3. [o EXCEPT !.ended = TRUE].faulty
  BY DEF IsEmission
<1>4. emitOrg(o, k, i).faulty
  <2> DEFINE active == [o.at EXCEPT !.active = placementForOrg(source, k)]
             value == ValueOf(i.e, placementAddress(active))
             at == applyOrg(active, value)
  <2>1. emitOrg(o, k, i) = [o EXCEPT !.at = active, !.faulty = TRUE] \/ emitOrg(o, k, i) = [o EXCEPT !.at = at]
    BY DEF emitOrg
  <2> HIDE DEF active, at
  <2>2. [o EXCEPT !.at = active, !.faulty = TRUE].faulty
    BY DEF IsEmission
  <2>3. [o EXCEPT !.at = at].faulty
    BY DEF IsEmission
  <2> QED BY <2>1, <2>2, <2>3, Zenon
<1>5. emitDs(o, k, i).faulty
  <2> DEFINE size == ValueOf(i.e, here)
             run == Run(size, i.arg - 1)
             reserved == o.reserved \cup here..(here + size - 1)
             at == advancePlacement(o.at, size)
  <2>1. \/ emitDs(o, k, i) = [o EXCEPT !.faulty = TRUE]
        \/ emitDs(o, k, i) = EmitData(o, k, run, size)
        \/ emitDs(o, k, i) = [o EXCEPT !.reserved = reserved, !.at = at]
    BY DEF emitDs, IsEmission
  <2> HIDE DEF run, reserved, at, size
  <2>2. [o EXCEPT !.faulty = TRUE].faulty
    BY DEF IsEmission
  <2>3. [o EXCEPT !.reserved = reserved, !.at = at].faulty
    BY DEF IsEmission
  <2> QED BY <1>2, <2>1, <2>2, <2>3, Zenon
<1>6. i.kind = "instruction" => emitProgramInstruction(o, k, i).faulty
  BY InstructionPlaced DEF i
<1>7. i.kind \in {"org", "label", "equ", "db", "ds", "align", "instruction", "end", "routine"}
  BY ItemFields DEF i
<1> HIDE DEF pad, here
<1> QED BY <1>1, <1>2, <1>3, <1>4, <1>5, <1>6, <1>7

LEMMA LabelsAfterReporting ==
  ASSUME AssemblyInv, ReportingPass
  PROVE  (WalkStands /\ WalksTogether)'
<1> SUFFICES ASSUME Settled' PROVE (WalkStands /\ WalksTogether)'
  BY DEF WalkStands, WalksTogether
<1> DEFINE p == buildAddressStateOnce(FALSE)
<1>1. /\ known' = Found(p) /\ source' = source /\ out' = EmitStart
      /\ settled' = (Found(p) = known) /\ stage' = IF p.faulty THEN "rejected" ELSE "emitting"
  BY Zenon DEF ReportingPass
<1>2. p = LastWalk[Len(source)]
  BY WalkedTo, Zenon DEF LastWalk
<1> HIDE DEF p
<1>3. known' = known /\ known = Found(p) /\ ~p.faulty
  BY <1>1 DEF Settled
<1>4. Readable /\ Len(source) \in Nat
  BY DEF AssemblyInv, Readable
<1>5. \A k \in 0..Len(source) : LastWalk'[k] = LastWalk[k]
  BY <1>1, <1>3, <1>4, WalkUnmoved
<1>6. WalkStands'
  <2>1. LastWalk'[Len(source)] = p
    BY <1>2, <1>4, <1>5
  <2> QED BY <1>1, <1>3, <2>1 DEF WalkStands, Found
<1>7. WalksTogether'
  <2>1. LastWalk'[0] = PlanStart
    BY <1>4, <1>5, WalkSteps
  <2>2. /\ EmitStart.next = 1 /\ EmitStart.at = createPlacementState /\ EmitStart.ended = FALSE
        /\ PlanStart.at = createPlacementState /\ PlanStart.ended = FALSE
    BY DEF EmitStart, PlanStart
  <2>3. 1 <= Len(source') + 1 /\ 1 - 1 = 0
    BY <1>1, <1>4
  <2>4. out'.next = 1 /\ out'.at = createPlacementState /\ out'.ended = FALSE
    BY <1>1, <2>2
  <2> QED BY <2>1, <2>2, <2>3, <2>4, AnchoredStart DEF WalksTogether
<1> QED BY <1>6, <1>7

LEMMA LabelsAfterEmit ==
  ASSUME LabelInv, Emit
  PROVE  (WalkStands /\ WalksTogether)'
<1> SUFFICES ASSUME Settled' PROVE (WalkStands /\ WalksTogether)'
  BY DEF WalkStands, WalksTogether
<1> DEFINE k == out.next
           e == EmitItem(out, k)
<1>1. /\ k <= Len(source) /\ out' = [e EXCEPT !.next = k + 1]
      /\ source' = source /\ known' = known /\ stage' = stage /\ settled' = settled
  BY DEF Emit
<1>2. /\ k \in Nat \ {0} /\ IsEmission(out, k) /\ IsItem(source[k]) /\ TypedNames(known.labels, known.equates)
      /\ Readable /\ k \in 1..Len(source) /\ k - 1 \in 0..Len(source) /\ k \in 0..Len(source) /\ Len(source) \in Nat
  BY <1>1 DEF LabelInv, AssemblyInv, Readable
<1>3. Settled
  BY <1>1 DEF Settled
<1> HIDE DEF k
<1>4. IsEmission(e, k + 1)
  BY <1>2, ItemEmitted
<1> HIDE DEF e
<1>5. out'.next = k + 1 /\ out'.at = e.at /\ out'.faulty = e.faulty /\ out'.ended = e.ended
  <2>1. out'.next = k + 1 /\ out'.at = e.at /\ out'.faulty = e.faulty
    BY <1>1, <1>4, EmissionNext
  <2>2. [e EXCEPT !.next = k + 1].ended = e.ended
    BY <1>4 DEF IsEmission
  <2> QED BY <1>1, <2>1, <2>2
<1>6. \A n \in 0..Len(source) : LastWalk'[n] = LastWalk[n]
  BY <1>1, <1>2, WalkUnmoved
<1>7. WalkStands'
  <2>1. LastWalk'[Len(source)] = LastWalk[Len(source)]
    BY <1>2, <1>6
  <2> QED BY <1>1, <1>3, <2>1 DEF LabelInv, WalkStands
<1>8. WalksTogether'
  <2> SUFFICES ASSUME ~out'.faulty PROVE WalksTogether'
    BY DEF WalksTogether
  <2>1. ~e.faulty /\ ~out.faulty
    BY <1>2, <1>5, FaultStays DEF e
  <2>2. out.at = LastWalk[k - 1].at /\ out.ended = LastWalk[k - 1].ended /\ Anchored(out.at)
    BY <1>3, <2>1 DEF LabelInv, WalksTogether, k
  <2>3. IsWalk(LastWalk[k - 1]) /\ LastWalk[k] = PlanItem(LastWalk[k - 1], source[k], k, known)
    BY <1>2, WalkSteps, WalkSoFarTyped
  <2>4. LastWalk[k].at = e.at /\ LastWalk[k].ended = e.ended /\ Anchored(e.at)
    BY <1>2, <2>1, <2>2, <2>3, WalksAgree DEF e
  <2>5. LastWalk'[k] = LastWalk[k]
    BY <1>2, <1>6
  <2>6. k + 1 - 1 = k /\ k + 1 <= Len(source') + 1
    BY <1>1, <1>2
  <2>7. out'.next - 1 = k /\ out'.next <= Len(source') + 1
    <3>1. out'.next = k + 1
      BY <1>5
    <3> QED BY <1>2, <2>6, <3>1
  <2> QED BY <1>5, <2>4, <2>5, <2>7 DEF WalksTogether
<1> QED BY <1>7, <1>8

LEMMA LabelsKept == LabelInv /\ AssemblyInv' /\ [Next]_vars => LabelInv'
<1> SUFFICES ASSUME LabelInv, AssemblyInv', [Next]_vars PROVE LabelInv'
  OBVIOUS
<1>0. AssemblyInv
  BY DEF LabelInv
<1>1. CASE PlanningPass
  <2>1. stage' # "emitting"
    BY <1>1, Zenon DEF PlanningPass
  <2> QED BY <2>1 DEF LabelInv, WalkStands, WalksTogether, Settled
<1>2. CASE ReportingPass
  BY <1>0, <1>2, LabelsAfterReporting DEF LabelInv
<1>3. CASE Emit
  BY <1>3, LabelsAfterEmit DEF LabelInv
<1>4. CASE FinishEmission
  <2>1. stage' # "emitting"
    BY <1>4, Zenon DEF FinishEmission
  <2> QED BY <2>1 DEF LabelInv, WalkStands, WalksTogether, Settled
<1>5. CASE Analyse \/ Load \/ StepRuntime \/ Iterate \/ UNCHANGED vars
  <2>1. UNCHANGED <<source, known, out>> /\ stage' = stage /\ settled' = settled
    BY <1>5 DEF Analyse, Load, StepRuntime, Iterate, vars, assemblyVars
  <2>2. Readable /\ Len(source) \in Nat /\ out.next \in Nat \ {0}
    BY <1>0 DEF AssemblyInv, Readable
  <2>3. \A n \in 0..Len(source) : LastWalk'[n] = LastWalk[n]
    BY <2>1, <2>2, WalkUnmoved
  <2>4. WalkStands'
    <3>1. LastWalk'[Len(source)] = LastWalk[Len(source)]
      BY <2>2, <2>3
    <3> QED BY <2>1, <3>1 DEF LabelInv, WalkStands, Settled
  <2>5. WalksTogether'
    <3>1. out.next <= Len(source) + 1 => LastWalk'[out.next - 1] = LastWalk[out.next - 1]
      BY <2>2, <2>3
    <3> QED BY <2>1, <3>1 DEF LabelInv, WalksTogether, Settled
  <2> QED BY <2>4, <2>5 DEF LabelInv
<1> QED BY <1>1, <1>2, <1>3, <1>4, <1>5 DEF Next, Assemble, AssemblyNext

LEMMA LabelsStart == Init => LabelInv
<1> SUFFICES ASSUME Init PROVE LabelInv
  OBVIOUS
<1>1. AssemblyInv
  BY AssemblyStarts
<1>2. stage = "planning"
  BY DEF Init, AssemblyInit
<1> QED BY <1>1, <1>2 DEF LabelInv, WalkStands, WalksTogether, Settled

(* For every source: the two walks over it agree on where a label's bytes are, as   *)
(* long as the symbols had settled and nothing was found at fault                  *)
(* (buildAddressState, emitProgramImage).                                          *)
THEOREM LabelsCorrect == Spec => []LabelsPointAtTheirBytes
<1>1. Init => AssemblyInv /\ AssembledAsWritten /\ LabelInv
  BY AssemblyStarts, LabelsStart
<1>2. (AssemblyInv /\ AssembledAsWritten /\ LabelInv) /\ [Next]_vars => (AssemblyInv /\ AssembledAsWritten /\ LabelInv)'
  BY AssemblyKept, LabelsKept
<1>3. LabelInv => LabelsPointAtTheirBytes
  BY LabelsPointed
<1> QED BY <1>1, <1>2, <1>3, PTL DEF Spec
(* ------------------------------ the bytes written ---------------------------- *)
IsBytes(bytes) == Len(bytes) \in Int /\ \A k \in 1..Len(bytes) : bytes[k] \in Int

LEMMA WrittenImage ==
  ASSUME NEW image, IsByteMap(image), NEW start \in Int, NEW bytes, IsBytes(bytes)
  PROVE  IsByteMap(writeImageBytes(image, start, bytes))
<1> DEFINE written == start..(start + Len(bytes) - 1)
           m == writeImageBytes(image, start, bytes)
<1>1. m = [a \in DOMAIN image \cup written |-> IF a \in written THEN bytes[a - start + 1] % 256 ELSE image[a]]
  BY Zenon DEF writeImageBytes
<1>2. ASSUME NEW a \in written PROVE bytes[a - start + 1] % 256 \in Byte
  <2>1. a - start + 1 \in 1..Len(bytes)
    BY DEF IsBytes
  <2>2. bytes[a - start + 1] \in Int
    BY <2>1 DEF IsBytes
  <2>3. \A v \in Int : v % 256 \in Byte
    BY DEF Byte
  <2> QED BY <2>2, <2>3
<1>3. \A a \in DOMAIN image : image[a] \in Byte
  BY DEF IsByteMap
<1> HIDE DEF written, m
<1>4. DOMAIN m = DOMAIN image \cup written /\ \A a \in DOMAIN m : m[a] \in Byte
  BY <1>1, <1>2, <1>3
<1>5. m = [a \in DOMAIN m |-> m[a]]
  BY <1>1
<1>6. IsByteMap(m)
  BY <1>4, <1>5 DEF IsByteMap
<1> QED BY <1>6 DEF m

LEMMA RunBytes ==
  ASSUME NEW n \in Int, NEW b \in Int
  PROVE  IsBytes(Run(n, b))
<1> DEFINE r == Run(n, b)
           last == IF n > 0 THEN n ELSE 0
<1>1. r = [k \in 1..last |-> b]
  BY DEF Run
<1>2. last \in Nat
  OBVIOUS
<1> HIDE DEF last, r
<1>3. r \in Seq(Int) /\ Len(r) = last
  BY <1>1, <1>2
<1>4. \A k \in 1..last : r[k] = b
  BY <1>1
<1>5. IsBytes(r)
  BY <1>2, <1>3, <1>4 DEF IsBytes
<1> QED BY <1>5 DEF r

LEMMA SeqBytes == ASSUME NEW bytes \in Seq(Int) PROVE IsBytes(bytes)
  BY DEF IsBytes

LEMMA DataImage ==
  ASSUME NEW o, NEW n, IsEmission(o, n), IsByteMap(o.image), NEW k, NEW bytes, IsBytes(bytes), NEW size
  PROVE  IsByteMap(EmitData(o, k, bytes, size).image)
<1> DEFINE here == activePlacementAddress(o.at)
<1>1. here \in Int
  BY PlacementAddresses DEF IsEmission
<1>2. EmitData(o, k, bytes, size).image = writeImageBytes(o.image, here, bytes)
  BY DEF EmitData, IsEmission
<1> QED BY <1>1, <1>2, WrittenImage

LEMMA DsImage ==
  ASSUME NEW o, NEW n, IsEmission(o, n), IsByteMap(o.image), NEW k, NEW i, IsItem(i), TypedNames(known.labels, known.equates)
  PROVE  IsByteMap(emitDs(o, k, i).image)
<1> DEFINE here == activePlacementAddress(o.at)
           size == ValueOf(i.e, here)
           run == Run(size, i.arg - 1)
           reserved == o.reserved \cup here..(here + size - 1)
           at == advancePlacement(o.at, size)
<1>1. here \in Int
  BY PlacementAddresses DEF IsEmission
<1>2. size \in Int
  BY <1>1, ItemFields, ExpressionInt DEF ValueOf
<1>3. \/ emitDs(o, k, i) = [o EXCEPT !.faulty = TRUE]
      \/ emitDs(o, k, i) = EmitData(o, k, run, size)
      \/ emitDs(o, k, i) = [o EXCEPT !.reserved = reserved, !.at = at]
  BY DEF emitDs, IsEmission
<1>4. i.arg - 1 \in Int
  BY ItemFields
<1> HIDE DEF here, size
<1>5. IsBytes(run)
  BY <1>2, <1>4, RunBytes
<1> HIDE DEF run, reserved, at
<1>6. [o EXCEPT !.faulty = TRUE].image = o.image /\ [o EXCEPT !.reserved = reserved, !.at = at].image = o.image
  BY DEF IsEmission
<1>7. IsByteMap(EmitData(o, k, run, size).image)
  BY <1>5, DataImage
<1> QED BY <1>3, <1>6, <1>7

LEMMA OrgImage ==
  ASSUME NEW o, NEW n, IsEmission(o, n), NEW k, NEW i
  PROVE  emitOrg(o, k, i).image = o.image
<1> DEFINE active == [o.at EXCEPT !.active = placementForOrg(source, k)]
           at == applyOrg(active, ValueOf(i.e, placementAddress(active)))
<1>1. \/ emitOrg(o, k, i) = [o EXCEPT !.at = active, !.faulty = TRUE]
      \/ emitOrg(o, k, i) = [o EXCEPT !.at = at]
  BY DEF emitOrg
<1> HIDE DEF active, at
<1>2. [o EXCEPT !.at = active, !.faulty = TRUE].image = o.image /\ [o EXCEPT !.at = at].image = o.image
  BY DEF IsEmission
<1> QED BY <1>1, <1>2

LEMMA InstructionImage ==
  ASSUME NEW o, NEW n, IsEmission(o, n), IsByteMap(o.image), NEW k, NEW i, IsItem(i), i.kind = "instruction",
         TypedNames(known.labels, known.equates)
  PROVE  IsByteMap(emitProgramInstruction(o, k, i).image)
<1> DEFINE here == absoluteCodeAddress(o.at)
           ins == Written(i, here)
           good == ins.src.val # Undefined /\ Assembles(ins, here)
           bytes == IF good THEN Emitted(ins, here) ELSE <<>>
           size == instructionSize(ins)
           image == writeImageBytes(o.image, here, bytes)
           there == absoluteDataAddress(o.at)
<1>1. here \in Int /\ there \in Int
  BY PlacementAddresses DEF IsEmission
<1>2. IsBytes(bytes)
  <2> HIDE DEF here
  <2>1. Emitted(ins, here) \in Seq(Int)
    BY <1>1, WrittenSize
  <2>2. <<>> \in Seq(Int)
    OBVIOUS
  <2> QED BY <2>1, <2>2, SeqBytes
<1>3. emitProgramInstruction(o, k, i) =
        LET c == [o EXCEPT !.image = writeImageBytes(@, here, bytes), !.at = advanceCodePlacement(@, size),
                           !.segments = @ \o Segment(here, here + size, k), !.faulty = @ \/ ~good]
        IN IF o.at.active = "code" THEN c
           ELSE [c EXCEPT !.image = writeImageBytes(@, there, bytes), !.at = advancePlacement(@, size)]
  BY Zenon DEF emitProgramInstruction
<1> HIDE DEF here, there, bytes, size, good
<1> DEFINE c == [o EXCEPT !.image = writeImageBytes(@, here, bytes), !.at = advanceCodePlacement(@, size),
                          !.segments = @ \o Segment(here, here + size, k), !.faulty = @ \/ ~good]
<1>4. c.image = image /\ c = [x \in {"at", "image", "reserved", "segments", "next", "ended", "faulty"} |-> c[x]]
  BY DEF IsEmission
<1>5. emitProgramInstruction(o, k, i) \in {c, [c EXCEPT !.image = writeImageBytes(@, there, bytes), !.at = advancePlacement(@, size)]}
  BY <1>3, Zenon
<1> HIDE DEF c
<1>6. [c EXCEPT !.image = writeImageBytes(@, there, bytes), !.at = advancePlacement(@, size)].image = writeImageBytes(image, there, bytes)
  BY <1>4
<1>7. IsByteMap(image) /\ IsByteMap(writeImageBytes(image, there, bytes))
  BY <1>1, <1>2, WrittenImage
<1> QED BY <1>4, <1>5, <1>6, <1>7

LEMMA ItemImage ==
  ASSUME NEW o, NEW n, IsEmission(o, n), IsByteMap(o.image), NEW k, IsItem(source[k]), TypedNames(known.labels, known.equates)
  PROVE  IsByteMap(EmitItem(o, k).image)
<1> DEFINE i == source[k]
           here == activePlacementAddress(o.at)
           pad == alignmentPadding(here, ValueOf(i.e, here))
<1> HIDE DEF i
<1>0. IsItem(i) /\ i.e.off \in Int
  BY ItemFields DEF i
<1>1. here \in Int
  BY PlacementAddresses DEF IsEmission
<1>3. EmitItem(o, k) =
        IF o.ended THEN o
        ELSE IF i.kind \in {"label", "equ", "routine"} THEN o
        ELSE IF i.kind = "end" THEN [o EXCEPT !.ended = TRUE]
        ELSE IF i.kind = "org" THEN emitOrg(o, k, i)
        ELSE IF i.kind = "db" THEN EmitData(o, k, <<i.e.off>>, 1)
        ELSE IF i.kind = "ds" THEN emitDs(o, k, i)
        ELSE IF i.kind = "align" THEN EmitData(o, k, Run(pad, 0), pad)
        ELSE emitProgramInstruction(o, k, i)
  BY Zenon DEF EmitItem, i
<1> HIDE DEF here
<1>4. [o EXCEPT !.ended = TRUE].image = o.image
  BY DEF IsEmission
<1>5. emitOrg(o, k, i).image = o.image
  BY OrgImage
<1>6. IsByteMap(EmitData(o, k, <<i.e.off>>, 1).image)
  <2>1. <<i.e.off>> \in Seq(Int)
    BY <1>0
  <2> QED BY <2>1, SeqBytes, DataImage
<1>7. IsByteMap(emitDs(o, k, i).image)
  BY <1>0, DsImage
<1>8. i.kind = "align" => IsByteMap(EmitData(o, k, Run(pad, 0), pad).image)
  <2> SUFFICES ASSUME i.kind = "align" PROVE IsByteMap(EmitData(o, k, Run(pad, 0), pad).image)
    OBVIOUS
  <2>1. ValueOf(i.e, here) \in Int /\ ValueOf(i.e, here) > 0
    BY <1>0, <1>1, NumValue, ItemFields DEF ValueOf
  <2>2. pad \in Int
    BY <1>1, <2>1, PaddingInt
  <2> HIDE DEF pad
  <2> QED BY <2>2, RunBytes, DataImage
<1>9. i.kind = "instruction" => IsByteMap(emitProgramInstruction(o, k, i).image)
  BY <1>0, InstructionImage
<1>10. i.kind \in {"org", "label", "equ", "db", "ds", "align", "instruction", "end", "routine"}
  BY <1>0, ItemFields
<1> HIDE DEF pad
<1> QED BY <1>3, <1>4, <1>5, <1>6, <1>7, <1>8, <1>9, <1>10
(* ----------------------------- type correctness ------------------------------ *)
LEMMA InitialImage == IsByteMap(EmptyMap)
<1>1. DOMAIN EmptyMap = {}
  BY DEF EmptyMap
<1>2. \A m : DOMAIN m = {} /\ m = [x \in {} |-> 0] => m \in [{} -> Byte]
  OBVIOUS
<1> QED BY <1>1, <1>2 DEF EmptyMap, IsByteMap

LEMMA LeastOf ==
  ASSUME NEW S, S \subseteq Addresses, S # {}
  PROVE  (CHOOSE a \in S : \A b \in S : a <= b) \in Addresses
<1>1. S \in SUBSET Nat
  <2>1. Addresses \subseteq Nat
    BY SMT DEF Addresses
  <2> QED BY <2>1
<1>2. \E a \in S : \A b \in S : a <= b
  BY <1>1, LeastNat
<1>3. (CHOOSE a \in S : \A b \in S : a <= b) \in S
  BY <1>2, Zenon
<1> QED BY <1>3

LEMMA ImageStartTyped == FitsMemory => ImageStart \in Addresses
<1>1. 0 \in Addresses
  BY DEF Addresses
<1> QED BY <1>1, LeastOf, Zenon DEF FitsMemory, ImageStart

LEMMA LoadedTyped ==
  ASSUME NEW c, IsCpu(c), NEW entry, IsByteMap(out.image), FitsMemory
  PROVE  IsCpu(loadProgram(c, entry))
<1> DEFINE pc == IF entry \in Addresses THEN entry ELSE ImageStart
           image == out.image
<1>1. pc \in Addresses
  BY ImageStartTyped, Zenon
<1>2. DOMAIN image \subseteq Addresses
  BY Zenon DEF FitsMemory
<1>3. loadProgram(c, entry) = [c EXCEPT !.mem = image, !.pc = pc, !.halted = FALSE]
  BY Zenon DEF loadProgram
<1>4. IsByteMap(image)
  OBVIOUS
<1> HIDE DEF pc, image
<1>5. IsCpu([c EXCEPT !.mem = image, !.pc = pc, !.halted = FALSE])
  BY <1>1, <1>2, <1>4 DEF IsCpu, CpuFields
<1> QED BY <1>3, <1>5

(* A step of the assembler leaves an image of bytes, and a stage there is.          *)
ImageTyped ==
  /\ stage \in {"planning", "reporting", "emitting", "assembled", "rejected"}
  /\ IsByteMap(out.image)
LEMMA ImageKept ==
  ASSUME AssemblyInv, ImageTyped, AssemblyNext
  PROVE  ImageTyped'
<1>1. CASE PlanningPass
  <2>1. out' = out /\ stage' \in {"reporting", "planning"}
    BY <1>1, Zenon DEF PlanningPass
  <2> QED BY <2>1 DEF ImageTyped
<1>2. CASE ReportingPass
  <2>1. out' = EmitStart /\ stage' \in {"rejected", "emitting"}
    BY <1>2, Zenon DEF ReportingPass
  <2>2. EmitStart.image = EmptyMap
    BY DEF EmitStart
  <2> QED BY <2>1, <2>2, InitialImage DEF ImageTyped
<1>3. CASE Emit
  <2> DEFINE k == out.next
             e == EmitItem(out, k)
  <2>1. k <= Len(source) /\ out' = [e EXCEPT !.next = k + 1] /\ stage' = stage
    BY <1>3 DEF Emit
  <2>2. k \in Nat \ {0} /\ IsEmission(out, k) /\ IsItem(source[k]) /\ TypedNames(known.labels, known.equates)
    BY <2>1 DEF AssemblyInv, Readable
  <2> HIDE DEF k
  <2>3. IsEmission(e, k + 1) /\ IsByteMap(e.image)
    BY <2>2, ItemEmitted, ItemImage DEF ImageTyped
  <2> HIDE DEF e
  <2>4. out'.image = e.image
    BY <2>1, <2>3, EmissionNext
  <2> QED BY <2>1, <2>3, <2>4 DEF ImageTyped
<1>4. CASE FinishEmission
  <2>1. out' = out /\ stage' \in {"rejected", "assembled"}
    BY <1>4, Zenon DEF FinishEmission
  <2> QED BY <2>1 DEF ImageTyped
<1> QED BY <1>1, <1>2, <1>3, <1>4 DEF AssemblyNext

LEMMA AnalysisKept ==
  ASSUME analysis \in {"off", "summarising", "liveness", "checked"}, ContractsNext
  PROVE  analysis' \in {"off", "summarising", "liveness", "checked"}
  BY Zenon DEF ContractsNext, SummaryPass, LivenessPass, LivenessDone

LEMMA TypeStarts == Init => TypeOK
<1> SUFFICES ASSUME Init PROVE TypeOK
  OBVIOUS
<1>1. job \in Jobs /\ cpu = job.cpu /\ step.before = job.cpu /\ out = EmitStart /\ stage = "planning" /\ mode = "off"
  BY DEF Init, AssemblyInit
<1>2. analysis \in {"off", "summarising"}
  BY Zenon DEF Init, ContractsInit
<1>3. IsCpu(cpu) /\ IsCpu(step.before)
  BY <1>1, JobsAssumption
<1>4. IsByteMap(out.image)
  BY <1>1, InitialImage DEF EmitStart
<1> QED BY <1>1, <1>2, <1>3, <1>4 DEF TypeOK

LEMMA StepBeginTyped ==
  ASSUME TypeOK, StepRuntime
  PROVE  TypeOK'
<1>1. step' = [trace |-> classifyStepOver(cpu), before |-> cpu, interrupted |-> FALSE]
  BY DEF StepRuntime
<1>2. step'.before = cpu
  BY <1>1
<1>3. mode' = "stepping" /\ UNCHANGED <<stage, analysis, cpu, out>>
  BY DEF StepRuntime, assemblyVars, contractVars
<1> QED BY <1>2, <1>3 DEF TypeOK

LEMMA IterateTyped ==
  ASSUME TypeOK, Iterate
  PROVE  TypeOK'
<1>1. PICK pressed \in BOOLEAN : cpu' = Ticked(execute(cpu), pressed) /\ step' = [step EXCEPT !.interrupted = @ \/ pressed]
  BY Zenon DEF Iterate
<1>2. IsCpu(execute(cpu))
  BY ExecutionTyped DEF TypeOK
<1>3. IsCpu(nmi(execute(cpu)))
  BY <1>2, ExecutionTyped
<1>4. IsCpu(cpu')
  BY <1>1, <1>2, <1>3, Zenon DEF Ticked
<1>5. step'.before = step.before
  BY <1>1
<1>6. mode' \in {"halted", "stepping", "idle"}
  BY Zenon DEF Iterate
<1>7. UNCHANGED <<stage, analysis, out>>
  BY DEF Iterate, assemblyVars, contractVars
<1> QED BY <1>4, <1>5, <1>6, <1>7 DEF TypeOK

LEMMA TypeKept == AssemblyInv /\ TypeOK /\ [Next]_vars => TypeOK'
<1> SUFFICES ASSUME AssemblyInv, TypeOK, [Next]_vars PROVE TypeOK'
  OBVIOUS
<1>1. CASE Analyse
  <2>1. analysis' \in {"off", "summarising", "liveness", "checked"}
    BY <1>1, AnalysisKept DEF Analyse, TypeOK
  <2>2. UNCHANGED <<stage, mode, cpu, step, out>>
    BY <1>1 DEF Analyse, assemblyVars
  <2> QED BY <2>1, <2>2 DEF TypeOK
<1>2. CASE Assemble
  <2>1. AssemblyNext /\ UNCHANGED <<analysis, mode, cpu, step>>
    BY <1>2 DEF Assemble, contractVars
  <2>2. ImageTyped
    BY DEF TypeOK, ImageTyped
  <2>3. ImageTyped'
    BY <2>1, <2>2, ImageKept
  <2> QED BY <2>1, <2>3 DEF TypeOK, ImageTyped
<1>3. CASE Load
  <2>1. cpu' = loadProgram(cpu, job.entry) /\ FitsMemory /\ mode' = "idle" /\ UNCHANGED <<stage, analysis, step, out>>
    BY <1>3 DEF Load, assemblyVars, contractVars
  <2>2. IsCpu(cpu')
    BY <2>1, LoadedTyped DEF TypeOK
  <2> QED BY <2>1, <2>2 DEF TypeOK
<1>4. CASE StepRuntime
  BY <1>4, StepBeginTyped
<1>5. CASE Iterate
  BY <1>5, IterateTyped
<1>6. CASE UNCHANGED vars
  BY <1>6 DEF TypeOK, vars, assemblyVars, contractVars, machineVars
<1> QED BY <1>1, <1>2, <1>3, <1>4, <1>5, <1>6 DEF Next

(* Whatever the program, and whatever code or data its bytes are executed as, every *)
(* byte of the image, every register, flag, pair and memory cell of the processor   *)
(* stays in its range (emitProgramImage, loadProgram, execute and its handlers,     *)
(* nmi).                                                                            *)
THEOREM TypeCorrect == Spec => []TypeOK
<1> QED BY AssemblyStarts, AssemblyKept, TypeStarts, TypeKept, PTL DEF Spec
(* --------------------- what a step is said to be going to do ------------------ *)
(* The instructions that call and those that return.                                *)
Calling == {"call", "rst", "ret", "reti", "retn"}

LEMMA MnemonicOf ==
  \A mn, t, s, k, n : Decoded(Ins(mn, t, s, k), n).ins.mn = mn /\ Decoded(Bare(mn), n).ins.mn = mn /\ Decoded(Nop, n).ins.mn = "nop"
  BY DEF Decoded, Ins, Bare, Nop
LEMMA QuietNames ==
  /\ \A mn \in AluMnemonics \cup RotateMnemonics \cup CoreNames \cup BlockTransfers : mn \notin Calling
  /\ \A mn \in {"nop", "ex", "djnz", "jr", "jp", "ld", "add", "adc", "sbc", "inc", "dec", "bit", "res", "set", "in", "out", "im",
                "push", "pop", "halt", "neg", "exx", "di", "ei"} : mn \notin Calling
  BY BlockNames DEF Calling, AluMnemonics, RotateMnemonics, CoreNames
LEMMA LowQuiet ==
  ASSUME NEW m, NEW pc, NEW op \in Byte
  PROVE  LowPrimary(m, pc, op).ins.mn \notin Calling
<1> DEFINE p == R16(PairOf(op))
           r == ByteOperand(Row(op))
           t == Target(m, pc)
           w == WordAt(m, pc + 1)
           n == At(m, pc + 1)
           rotate == <<"rlca", "rrca", "rla", "rra", "daa", "cpl", "scf", "ccf">>[Row(op) + 1]
<1>1. rotate \in CoreNames
  <2>1. Row(op) + 1 \in 1..8
    BY NumbersOf
  <2> QED BY <2>1, Mnemonics
<1>2. LowPrimary(m, pc, op) \in
        {Decoded(Nop, 1), Decoded(Ins("ex", R16("af"), R16("af"), 0), 1), Decoded(Ins("djnz", None, t, 0), 2), Decoded(Ins("jr", None, t, 0), 2),
         Decoded(Ins("jr", None, t, Row(op) - 3), 2), Decoded(Ins("ld", p, Imm(w), 0), 3), Decoded(Ins("add", R16("hl"), p, 0), 1),
         Decoded(Ins("ld", Indirect(p.reg), R8("a"), 0), 1), Decoded(Ins("ld", R8("a"), Indirect(p.reg), 0), 1),
         Decoded(Ins("ld", Abs(w), R16("hl"), 0), 3), Decoded(Ins("ld", R16("hl"), Abs(w), 0), 3),
         Decoded(Ins("ld", Abs(w), R8("a"), 0), 3), Decoded(Ins("ld", R8("a"), Abs(w), 0), 3),
         Decoded(Ins("inc", p, None, 0), 1), Decoded(Ins("dec", p, None, 0), 1), Decoded(Ins("inc", r, None, 0), 1), Decoded(Ins("dec", r, None, 0), 1),
         Decoded(Ins("ld", r, Imm(n), 0), 2), Decoded(Bare(rotate), 1)}
  BY DEF LowPrimary, p, r, t, w, n, rotate
<1> HIDE DEF p, r, t, w, n, rotate
<1>3. LowPrimary(m, pc, op).ins.mn \in {"nop", "ex", "djnz", "jr", "ld", "add", "inc", "dec", rotate}
  BY <1>2, MnemonicOf
<1> QED BY <1>1, <1>3, QuietNames
LEMMA MatrixQuiet ==
  ASSUME NEW op \in Byte
  PROVE  MatrixPrimary(op).ins.mn \notin Calling
<1> DEFINE r == ByteOperand(Row(op))
           s == ByteOperand(Column(op))
           mn == AluOrder[Row(op) + 1]
<1>1. mn \in AluMnemonics
  <2>1. Row(op) + 1 \in 1..8
    BY NumbersOf
  <2> QED BY <2>1, OrderTyped, Zenon
<1>2. MatrixPrimary(op) \in {Decoded(Bare("halt"), 1), Decoded(Ins("ld", r, s, 0), 1), Decoded(Ins(mn, R8("a"), s, 0), 1)}
  BY DEF MatrixPrimary
<1> HIDE DEF r, s, mn
<1>3. MatrixPrimary(op).ins.mn \in {"halt", "ld", mn}
  BY <1>2, MnemonicOf
<1> QED BY <1>1, <1>3, QuietNames
LEMMA CbQuiet ==
  ASSUME NEW m, IsByteMap(m), NEW pc, NEW x
  PROVE  CbTable(m, pc).ins.mn \notin Calling /\ DdcbTable(m, pc, x).ins.mn \notin Calling
<1>1. ASSUME NEW op \in Byte, NEW o, NEW t, NEW n PROVE Decoded(CbInstruction(op, o, t), n).ins.mn \notin Calling
  <2> DEFINE k == Row(op)
             mn == RotateOrder[Row(op) + 1]
  <2>1. mn \in RotateMnemonics
    <3>1. Row(op) + 1 \in 1..8
      BY NumbersOf
    <3> QED BY <3>1, OrderTyped, Zenon
  <2>2. CbInstruction(op, o, t) \in {Ins(mn, t, o, 0), Ins("bit", None, o, k), Ins("res", t, o, k), Ins("set", t, o, k)}
    BY DEF CbInstruction
  <2> HIDE DEF k, mn
  <2>3. Decoded(CbInstruction(op, o, t), n).ins.mn \in {mn, "bit", "res", "set"}
    BY <2>2, MnemonicOf
  <2> QED BY <2>1, <2>3, QuietNames
<1>2. At(m, pc + 1) \in Byte /\ At(m, pc + 3) \in Byte
  BY MemoryTyped, Zenon
<1> QED BY <1>1, <1>2, Zenon DEF CbTable, DdcbTable
LEMMA DdQuiet ==
  ASSUME NEW m, IsByteMap(m), NEW pc, NEW x
  PROVE  DdTable(m, pc, x).ins.mn \notin Calling
<1> DEFINE op == At(m, pc + 1)
<1>1. op \in Byte
  BY MemoryTyped, Zenon
<1> HIDE DEF op
<1>2. DdLow(m, pc, op, x).ins.mn \in {"add", "ld", "inc", "dec", "nop"}
  <2> DEFINE h == HalfOperand(Row(op), x)
             xd == Indexed(x, Signed(At(m, pc + 2)))
             nn == WordAt(m, pc + 2)
             p == PairOf(op)
             q == IF p = "hl" THEN x ELSE p
             n == At(m, pc + 2)
             k == At(m, pc + 3)
  <2>1. DdLow(m, pc, op, x) \in
          {Decoded(Ins("add", R16(x), R16(q), 0), 2), Decoded(Ins("ld", R16(x), Imm(nn), 0), 4), Decoded(Ins("ld", Abs(nn), R16(x), 0), 4),
           Decoded(Ins("ld", R16(x), Abs(nn), 0), 4), Decoded(Ins("inc", R16(x), None, 0), 2), Decoded(Ins("dec", R16(x), None, 0), 2),
           Decoded(Ins("inc", h, None, 0), 2), Decoded(Ins("dec", h, None, 0), 2), Decoded(Ins("ld", h, Imm(n), 0), 3),
           Decoded(Ins("inc", xd, None, 0), 3), Decoded(Ins("dec", xd, None, 0), 3), Decoded(Ins("ld", xd, Imm(k), 0), 4), Decoded(Nop, 2)}
    BY DEF DdLow
  <2> HIDE DEF h, xd, nn, p, q, n, k
  <2> QED BY <2>1, MnemonicOf
<1>3. DdMatrix(m, pc, op, x).ins.mn \notin Calling
  <2> DEFINE r == ByteOperand(Row(op))
             s == ByteOperand(Column(op))
             hr == HalfOperand(Row(op), x)
             hs == HalfOperand(Column(op), x)
             xd == Indexed(x, Signed(At(m, pc + 2)))
             mn == AluOrder[Row(op) + 1]
  <2>1. mn \in AluMnemonics
    <3>1. Row(op) + 1 \in 1..8
      BY <1>1, NumbersOf
    <3> QED BY <3>1, OrderTyped, Zenon
  <2>2. DdMatrix(m, pc, op, x) \in
          {Decoded(Nop, 2), Decoded(Ins("ld", r, xd, 0), 3), Decoded(Ins("ld", xd, s, 0), 3), Decoded(Ins("ld", hr, hs, 0), 2),
           Decoded(Ins(mn, R8("a"), xd, 0), 3), Decoded(Ins(mn, R8("a"), hs, 0), 2)}
    BY DEF DdMatrix
  <2> HIDE DEF r, s, hr, hs, xd, mn
  <2>3. DdMatrix(m, pc, op, x).ins.mn \in {"nop", "ld", mn}
    BY <2>2, MnemonicOf
  <2> QED BY <2>1, <2>3, QuietNames
<1>4. DdHigh(m, pc, op, x).ins.mn \notin Calling
  <2>1. DdHigh(m, pc, op, x) \in
          {DdcbTable(m, pc, x), Decoded(Ins("pop", R16(x), None, 0), 2), Decoded(Ins("ex", Indirect("sp"), R16(x), 0), 2),
           Decoded(Ins("push", R16(x), None, 0), 2), Decoded(Ins("jp", None, R16(x), 0), 2), Decoded(Ins("ld", R16("sp"), R16(x), 0), 2), Decoded(Nop, 2)}
    BY DEF DdHigh
  <2>2. DdHigh(m, pc, op, x) = DdcbTable(m, pc, x) \/ DdHigh(m, pc, op, x).ins.mn \in {"pop", "ex", "push", "jp", "ld", "nop"}
    BY <2>1, MnemonicOf
  <2> QED BY <2>2, CbQuiet, QuietNames
<1>5. DdTable(m, pc, x) \in {DdLow(m, pc, op, x), DdMatrix(m, pc, op, x), DdHigh(m, pc, op, x)}
  BY DEF DdTable, op
<1> QED BY <1>2, <1>3, <1>4, <1>5, QuietNames
LEMMA BareAs == \A mn : Bare(mn) = Ins(mn, None, None, 0) /\ Bare(mn).mn = mn /\ Bare(mn).arg = 0
  BY DEF Bare, Ins
LEMMA DecodedParts == \A i, n : Decoded(i, n).ins = i /\ Decoded(i, n).len = n
  BY DEF Decoded
LEMMA BlockOf ==
  ASSUME NEW op \in Byte, op >= 160, op < 192, Column(op) < 4
  PROVE  EdBlock(op).mn \in BlockTransfers
<1> DEFINE names == <<<<"ldi", "cpi", "ini", "outi">>, <<"ldd", "cpd", "ind", "outd">>,
                      <<"ldir", "cpir", "inir", "otir">>, <<"lddr", "cpdr", "indr", "otdr">>>>
           k == Row(op) - 3
           n == Column(op) + 1
<1>1. k \in 1..4 /\ n \in 1..4
  <2>1. Row(op) \in 4..7
    BY DEF Row, Byte
  <2> QED BY <2>1, NumbersOf
<1>2. EdBlock(op) = Bare(names[k][n])
  BY DEF EdBlock
<1> HIDE DEF k, n
<1>3. names[k][n] \in BlockTransfers
  BY <1>1, BlockNames
<1> QED BY <1>2, <1>3, BareAs
LEMMA EdReturns ==
  ASSUME NEW m, IsByteMap(m), NEW pc
  PROVE  IF At(m, pc + 1) >= 64 /\ At(m, pc + 1) < 128 /\ Column(At(m, pc + 1)) = 5
         THEN EdTable(m, pc) \in {Decoded(Bare("reti"), 2), Decoded(Bare("retn"), 2)}
         ELSE EdTable(m, pc).ins.mn \notin Calling
<1> DEFINE op == At(m, pc + 1)
           p == R16(PairOf(op))
           nn == Abs(WordAt(m, pc + 2))
           which == <<0, 0, 1, 2, 0, 0, 1, 2>>[Row(op) + 1]
           special == <<Ins("ld", Special("i"), R8("a"), 0), Ins("ld", Special("r"), R8("a"), 0),
                        Ins("ld", R8("a"), Special("i"), 0), Ins("ld", R8("a"), Special("r"), 0),
                        Bare("rrd"), Bare("rld")>>[Row(op) + 1]
<1>1. op \in Byte
  BY MemoryTyped, Zenon
<1>2. op \in 64..127 /\ Column(op) = 5 => EdTable(m, pc) \in {Decoded(Bare("reti"), 2), Decoded(Bare("retn"), 2)}
  BY <1>1 DEF EdTable, Byte, Column
<1>3. ~(op \in 64..127 /\ Column(op) = 5) =>
      \/ EdTable(m, pc) \in {Decoded(EdPort(op), 2), Decoded(Ins("adc", R16("hl"), p, 0), 2), Decoded(Ins("sbc", R16("hl"), p, 0), 2),
                             Decoded(Ins("ld", p, nn, 0), 4), Decoded(Ins("ld", nn, p, 0), 4), Decoded(Bare("neg"), 2),
                             Decoded(Ins("im", None, None, which), 2), Decoded(Nop, 2)}
      \/ op < 112 /\ op >= 64 /\ EdTable(m, pc) = Decoded(special, 2)
      \/ op >= 160 /\ op < 192 /\ Column(op) < 4 /\ EdTable(m, pc) = Decoded(EdBlock(op), 2)
  BY <1>1 DEF EdTable, Byte, Column
<1> HIDE DEF op, which, special
<1>4. op < 112 /\ op >= 64 => special.mn \in {"ld", "rrd", "rld"}
  <2>1. op < 112 /\ op >= 64 => Row(op) + 1 \in 1..6
    <3>1. op < 112 /\ op >= 64 => Row(op) \in 0..5
      BY <1>1 DEF Row, Byte
    <3> QED BY <3>1
  <2>2. Ins("ld", Special("i"), R8("a"), 0).mn = "ld" /\ Ins("ld", Special("r"), R8("a"), 0).mn = "ld"
    BY InsParts
  <2>3. Ins("ld", R8("a"), Special("i"), 0).mn = "ld" /\ Ins("ld", R8("a"), Special("r"), 0).mn = "ld"
    BY InsParts
  <2>4. Bare("rrd").mn = "rrd" /\ Bare("rld").mn = "rld"
    BY BareAs
  <2> QED BY <2>1, <2>2, <2>3, <2>4 DEF special
<1>5. EdPort(op).mn \in {"in", "out"}
  <2> DEFINE r == IF Row(op) = 6 THEN None ELSE ByteOperand(Row(op))
  <2>1. EdPort(op) = Ins("in", r, PortC, 0) \/ \E s : EdPort(op) = Ins("out", PortC, s, 0)
    BY DEF EdPort
  <2> HIDE DEF r
  <2> QED BY <2>1, InsParts
<1>6. op >= 160 /\ op < 192 /\ Column(op) < 4 => EdBlock(op).mn \in BlockTransfers
  BY <1>1, BlockOf, Zenon
<1> HIDE DEF p, nn
<1>7. ~(op \in 64..127 /\ Column(op) = 5) => EdTable(m, pc).ins.mn \in {"in", "out", "adc", "sbc", "ld", "neg", "im", "nop", "rrd", "rld"} \cup BlockTransfers
  BY <1>3, <1>4, <1>5, <1>6, MnemonicOf, DecodedParts
<1>8. "rrd" \notin Calling /\ "rld" \notin Calling
  BY DEF Calling
<1>9. ~(op \in 64..127 /\ Column(op) = 5) => EdTable(m, pc).ins.mn \notin Calling
  BY <1>7, <1>8, QuietNames
<1>10. op \in 64..127 <=> op >= 64 /\ op < 128
  BY <1>1 DEF Byte
<1> QED BY <1>2, <1>9, <1>10, Zenon DEF op
(* The repeating block instructions are what isBlockRepeatInstruction takes them for. *)
LEMMA RepeatDecoded ==
  ASSUME NEW c, IsCpu(c), NEW pc, isBlockRepeatInstruction(c, pc)
  PROVE  decodeInstruction(c.mem, pc).ins.mn \in BlockTransfers
<1> DEFINE op == At(c.mem, pc + 1)
<1>1. At(c.mem, pc) = 237 /\ op \in {176, 177, 178, 179, 184, 185, 186, 187}
  BY DEF isBlockRepeatInstruction
<1>2. decodeInstruction(c.mem, pc) = EdTable(c.mem, pc)
  BY <1>1 DEF decodeInstruction
<1>3. op \in Byte /\ op >= 160 /\ op < 192 /\ Column(op) < 4
  <2> HIDE DEF op
  <2> QED BY <1>1 DEF Byte, Column
<1>4. EdTable(c.mem, pc) = Decoded(EdBlock(op), 2)
  <2> HIDE DEF op
  <2>1. /\ ~(op >= 64 /\ op < 128) /\ op # 77 /\ ~(op >= 64 /\ op < 112)
    BY <1>1
  <2> QED BY <1>3, <2>1 DEF EdTable, op
<1> HIDE DEF op
<1> QED BY <1>2, <1>3, <1>4, BlockOf, DecodedParts

(* What is decoded among the last 64 opcodes.                                       *)
LEMMA HighCalls ==
  ASSUME NEW m, NEW pc, NEW op \in Byte, op >= 192
  PROVE  LET d == HighPrimary(m, pc, op)
             nn == Imm(WordAt(m, pc + 1))
         IN /\ op = 205 => d = Decoded(Ins("call", None, nn, 0), 3)
            /\ Column(op) = 4 => d = Decoded(Ins("call", None, nn, Row(op) + 1), 3)
            /\ Column(op) = 7 => d = Decoded(Ins("rst", None, Imm(8 * Row(op)), 0), 1)
            /\ op = 201 => d = Decoded(Bare("ret"), 1)
            /\ Column(op) = 0 => d = Decoded(Ins("ret", None, None, Row(op) + 1), 1)
<1> DEFINE q == <<"bc", "de", "hl", "af">>[((op \div 16) % 4) + 1]
           d == HighPrimary(m, pc, op)
           nn == Imm(WordAt(m, pc + 1))
           col == Column(op)
           v == 8 * Row(op)
<1>1. col = op % 8
  BY DEF Column
<1>2. op \in 192..255
  BY DEF Byte
<1>3. op = 205 => d = Decoded(Ins("call", None, nn, 0), 3)
  <2>1. Column(205) = 5
    BY DEF Column
  <2> QED BY <2>1 DEF HighPrimary
<1>4. op = 201 => d = Decoded(Bare("ret"), 1)
  <2>1. Column(201) = 1
    BY DEF Column
  <2> QED BY <2>1 DEF HighPrimary
<1>5. col = 0 => d = Decoded(Ins("ret", None, None, Row(op) + 1), 1)
  BY DEF HighPrimary
<1>6. col = 4 => op \notin {201, 217, 233, 249, 195, 211, 219, 227, 235, 243, 251}
  BY <1>1, <1>2
<1>7. col = 7 => op \notin {201, 217, 233, 249, 195, 211, 219, 227, 235, 243, 251, 205}
  BY <1>1, <1>2
<1>8. col = 4 => d = Decoded(Ins("call", None, nn, Row(op) + 1), 3)
  BY <1>6 DEF HighPrimary
<1>9. col = 7 => d = Decoded(Ins("rst", None, Imm(v), 0), 1)
  BY <1>7 DEF HighPrimary
<1> QED BY <1>3, <1>4, <1>5, <1>8, <1>9, Zenon DEF d, nn, col, v
LEMMA HighQuiet ==
  ASSUME NEW m, NEW pc, NEW op \in Byte, op >= 192, op \notin {201, 203, 205}, Column(op) \notin {0, 4, 7}
  PROVE  HighPrimary(m, pc, op).ins.mn \notin Calling
<1> DEFINE stacked == R16(<<"bc", "de", "hl", "af">>[((op \div 16) % 4) + 1])
           nn == Imm(WordAt(m, pc + 1))
           n == At(m, pc + 1)
           cc == Row(op) + 1
           mn == AluOrder[Row(op) + 1]
<1>1. mn \in AluMnemonics
  <2>1. Row(op) + 1 \in 1..8
    BY NumbersOf
  <2> QED BY <2>1, OrderTyped, Zenon
<1>2. Column(op) \in {1, 2, 3, 5, 6}
  BY NumbersOf
<1>3. Column(op) = 3 => op \in {195, 211, 219, 227, 235, 243, 251}
  BY DEF Column, Byte
<1>4. HighPrimary(m, pc, op) \in
        {Decoded(Bare("exx"), 1), Decoded(Ins("jp", None, R16("hl"), 0), 1),
         Decoded(Ins("ld", R16("sp"), R16("hl"), 0), 1), Decoded(Ins("pop", stacked, None, 0), 1), Decoded(Ins("jp", None, nn, cc), 3),
         Decoded(Ins("jp", None, nn, 0), 3), Decoded(Ins("out", PortN(n), R8("a"), 0), 2), Decoded(Ins("in", R8("a"), PortN(n), 0), 2),
         Decoded(Ins("ex", Indirect("sp"), R16("hl"), 0), 1), Decoded(Ins("ex", R16("de"), R16("hl"), 0), 1), Decoded(Bare("di"), 1), Decoded(Bare("ei"), 1),
         Decoded(Ins("push", stacked, None, 0), 1), Decoded(Ins(mn, R8("a"), Imm(n), 0), 2)}
  BY <1>2, <1>3 DEF HighPrimary
<1> HIDE DEF stacked, nn, n, cc, mn
<1>5. HighPrimary(m, pc, op).ins.mn \in {"exx", "jp", "ld", "pop", "out", "in", "ex", "di", "ei", "push", mn}
  BY <1>4, MnemonicOf
<1> QED BY <1>1, <1>5, QuietNames

(* What classifyStepOver says, and what is decoded at the same place.               *)
NextOf(c) == (c.pc + decodeInstruction(c.mem, c.pc).len) % 65536
Classified(c) ==
  LET t == classifyStepOver(c)
      i == decodeInstruction(c.mem, c.pc).ins
  IN \/ t.kind = "none" /\ i.mn \notin Calling
     \/ t.kind = "call" /\ i.mn = "call" /\ (t.taken <=> Holds(c.f, i.arg)) /\ t.returnAddress = NextOf(c)
     \/ t.kind = "rst" /\ i.mn = "rst" /\ t.taken /\ t.returnAddress = NextOf(c)
     \/ t.kind = "ret" /\ i.mn \in ReturnMnemonics /\ (t.taken <=> Holds(c.f, i.arg))
LEMMA AlwaysHolds == \A f : Holds(f, 0)
  BY DEF Holds
LEMMA InfoCall ==
  ASSUME NEW c, At(c.mem, c.pc) = 205
  PROVE  classifyStepOver(c).kind = "call" /\ classifyStepOver(c).taken /\ classifyStepOver(c).returnAddress = (c.pc + 3) % 65536
<1> DEFINE t == classifyStepOver(c)
<1>1. t = StepInfo("call", TRUE, (c.pc + 3) % 65536)
  BY DEF classifyStepOver
<1> HIDE DEF t
<1>2. t.kind = "call" /\ t.taken /\ t.returnAddress = (c.pc + 3) % 65536
  BY <1>1 DEF StepInfo
<1> QED BY <1>2 DEF t
LEMMA InfoCallIf ==
  ASSUME NEW c, At(c.mem, c.pc) # 205, At(c.mem, c.pc) >= 192, Column(At(c.mem, c.pc)) = 4
  PROVE  classifyStepOver(c) = StepInfo("call", shouldBranchOnCondition(c, At(c.mem, c.pc)), (c.pc + 3) % 65536)
  BY DEF classifyStepOver
LEMMA InfoRst ==
  ASSUME NEW c, At(c.mem, c.pc) # 205, At(c.mem, c.pc) >= 192, Column(At(c.mem, c.pc)) = 7
  PROVE  classifyStepOver(c).kind = "rst" /\ classifyStepOver(c).taken /\ classifyStepOver(c).returnAddress = (c.pc + 1) % 65536
<1> DEFINE t == classifyStepOver(c)
<1>1. t = StepInfo("rst", TRUE, (c.pc + 1) % 65536)
  BY DEF classifyStepOver
<1> HIDE DEF t
<1>2. t.kind = "rst" /\ t.taken /\ t.returnAddress = (c.pc + 1) % 65536
  BY <1>1 DEF StepInfo
<1> QED BY <1>2 DEF t
LEMMA InfoRet ==
  ASSUME NEW c, At(c.mem, c.pc) = 201, Column(201) = 1
  PROVE  classifyStepOver(c).kind = "ret" /\ classifyStepOver(c).taken /\ classifyStepOver(c).returnAddress = Unset
<1> DEFINE op == At(c.mem, c.pc)
           t == classifyStepOver(c)
<1>1. op = 201 /\ op # 205 /\ Column(op) # 4 /\ Column(op) # 7
  BY SMT
<1>2. t = StepInfo("ret", TRUE, Unset)
  BY <1>1 DEF classifyStepOver
<1> HIDE DEF t
<1>3. t.kind = "ret" /\ t.taken /\ t.returnAddress = Unset
  BY <1>2 DEF StepInfo
<1> QED BY <1>3 DEF t
LEMMA InfoRetIf ==
  ASSUME NEW c, At(c.mem, c.pc) \notin {201, 205}, At(c.mem, c.pc) >= 192, Column(At(c.mem, c.pc)) = 0
  PROVE  classifyStepOver(c) = StepInfo("ret", shouldBranchOnCondition(c, At(c.mem, c.pc)), Unset)
<1> DEFINE op == At(c.mem, c.pc)
<1>1. op # 205 /\ op # 201 /\ Column(op) # 4 /\ Column(op) # 7
  BY SMT
<1> QED BY <1>1 DEF classifyStepOver
LEMMA InfoReturn ==
  ASSUME NEW c, At(c.mem, c.pc) = 237, At(c.mem, c.pc + 1) >= 64, At(c.mem, c.pc + 1) < 128, Column(At(c.mem, c.pc + 1)) = 5,
         Column(237) = 5
  PROVE  classifyStepOver(c).kind = "ret" /\ classifyStepOver(c).taken /\ classifyStepOver(c).returnAddress = Unset
<1> DEFINE op == At(c.mem, c.pc)
           t == classifyStepOver(c)
<1>1. op = 237 /\ op # 205 /\ op # 201 /\ Column(op) # 4 /\ Column(op) # 7 /\ Column(op) # 0
  BY SMT
<1>2. t = StepInfo("ret", TRUE, Unset)
  BY <1>1 DEF classifyStepOver
<1> HIDE DEF t
<1>3. t.kind = "ret" /\ t.taken /\ t.returnAddress = Unset
  BY <1>2 DEF StepInfo
<1> QED BY <1>3 DEF t
Unclassified(op, second) ==
  /\ op # 205 /\ op # 201 /\ ~(op >= 192 /\ Column(op) \in {0, 4, 7})
  /\ ~(op = 237 /\ second >= 64 /\ second < 128 /\ Column(second) = 5)
LEMMA InfoNone ==
  ASSUME NEW c, Unclassified(At(c.mem, c.pc), At(c.mem, c.pc + 1))
  PROVE  classifyStepOver(c) = NoTrace
<1> DEFINE op == At(c.mem, c.pc)
           second == At(c.mem, c.pc + 1)
           high == op >= 192
           returns == op = 237 /\ second >= 64 /\ second < 128 /\ Column(second) = 5
           info == StepInfo("ret", TRUE, Unset)
           maybe == StepInfo("ret", shouldBranchOnCondition(c, op), Unset)
           call == StepInfo("call", TRUE, (c.pc + 3) % 65536)
           callIf == StepInfo("call", shouldBranchOnCondition(c, op), (c.pc + 3) % 65536)
           rst == StepInfo("rst", TRUE, (c.pc + 1) % 65536)
<1>1. op # 205 /\ op # 201 /\ ~(high /\ Column(op) = 4) /\ ~(high /\ Column(op) = 7) /\ ~(high /\ Column(op) = 0) /\ ~returns
  BY DEF Unclassified
<1>2. classifyStepOver(c) =
        IF op = 205 THEN call ELSE IF high /\ Column(op) = 4 THEN callIf ELSE IF high /\ Column(op) = 7 THEN rst
        ELSE IF op = 201 THEN info ELSE IF high /\ Column(op) = 0 THEN maybe ELSE IF returns THEN info ELSE NoTrace
  BY DEF classifyStepOver
<1> HIDE DEF info, maybe, call, callIf, rst, op, high, returns
<1> QED BY <1>1, <1>2
LEMMA BranchParts == \A k, x, r, t : t = StepInfo(k, x, r) => t.kind = k /\ t.taken = x /\ t.returnAddress = r
  BY DEF StepInfo
LEMMA HighDecoded ==
  ASSUME NEW m, NEW pc, At(m, pc) \in Byte, At(m, pc) >= 192, At(m, pc) \notin {203, 221, 237, 253}
  PROVE  decodeInstruction(m, pc) = HighPrimary(m, pc, At(m, pc))
<1> DEFINE op == At(m, pc)
<1>1. ~(op < 64) /\ ~(op < 192) /\ op # 203 /\ op # 221 /\ op # 237 /\ op # 253
  BY DEF Byte
<1> QED BY <1>1 DEF decodeInstruction
LEMMA ClassifiedCall ==
  ASSUME NEW c, IsCpu(c), At(c.mem, c.pc) = 205
  PROVE  Classified(c)
<1> DEFINE t == classifyStepOver(c)
           op == At(c.mem, c.pc)
           nn == Imm(WordAt(c.mem, c.pc + 1))
           next == (c.pc + 3) % 65536
           d == decodeInstruction(c.mem, c.pc)
<1>1. op \in Byte
  BY CpuParts, MemoryTyped, Zenon
<1>2. op >= 192 /\ op \notin {203, 221, 237, 253}
  BY <1>1 DEF Byte, Column
<1>3. t.kind = "call" /\ t.taken /\ t.returnAddress = next
  BY <1>2, InfoCall
<1>4. d = Decoded(Ins("call", None, nn, 0), 3)
  <2>1. d = HighPrimary(c.mem, c.pc, op)
    BY <1>1, <1>2, HighDecoded
  <2> HIDE DEF d
  <2> QED BY <1>1, <1>2, <2>1, HighCalls
<1> HIDE DEF t, d, op, nn, next
<1>5. d.ins.mn = "call" /\ d.ins.arg = 0 /\ d.len = 3
  BY <1>4, DecodedParts, InsParts, BareAs
<1>6. Holds(c.f, d.ins.arg)
  BY <1>5, AlwaysHolds
<1>7. NextOf(c) = next
  BY <1>5 DEF NextOf, next, d
<1> QED BY <1>3, <1>5, <1>6, <1>7, Zenon DEF Classified, t, d
LEMMA ClassifiedCallIf ==
  ASSUME NEW c, IsCpu(c), At(c.mem, c.pc) >= 192, Column(At(c.mem, c.pc)) = 4
  PROVE  Classified(c)
<1> DEFINE t == classifyStepOver(c)
           op == At(c.mem, c.pc)
           nn == Imm(WordAt(c.mem, c.pc + 1))
           branch == shouldBranchOnCondition(c, op)
           next == (c.pc + 3) % 65536
           d == decodeInstruction(c.mem, c.pc)
<1>1. op \in Byte
  BY CpuParts, MemoryTyped, Zenon
<1>2. op >= 192 /\ op \notin {203, 221, 237, 253} /\ op # 205
  BY <1>1 DEF Byte, Column
<1>3. t.kind = "call" /\ t.taken = branch /\ t.returnAddress = next
  <2>1. t = StepInfo("call", branch, next)
    BY <1>2, InfoCallIf
  <2> HIDE DEF t, branch, next
  <2> QED BY <2>1, BranchParts
<1>4. d = Decoded(Ins("call", None, nn, Row(op) + 1), 3)
  <2>1. d = HighPrimary(c.mem, c.pc, op)
    BY <1>1, <1>2, HighDecoded
  <2> HIDE DEF d
  <2> QED BY <1>1, <1>2, <2>1, HighCalls
<1> HIDE DEF t, d, op, nn, branch, next
<1>5. d.ins.mn = "call" /\ d.ins.arg = Row(op) + 1 /\ d.len = 3
  BY <1>4, DecodedParts, InsParts, BareAs
<1>6. branch = Holds(c.f, d.ins.arg)
  BY <1>5 DEF branch, shouldBranchOnCondition
<1>7. NextOf(c) = next
  BY <1>5 DEF NextOf, next, d
<1> QED BY <1>3, <1>5, <1>6, <1>7, Zenon DEF Classified, t, d
LEMMA ClassifiedRst ==
  ASSUME NEW c, IsCpu(c), At(c.mem, c.pc) >= 192, Column(At(c.mem, c.pc)) = 7
  PROVE  Classified(c)
<1> DEFINE t == classifyStepOver(c)
           op == At(c.mem, c.pc)
           next == (c.pc + 1) % 65536
           d == decodeInstruction(c.mem, c.pc)
<1>1. op \in Byte
  BY CpuParts, MemoryTyped, Zenon
<1>2. op >= 192 /\ op \notin {203, 221, 237, 253} /\ op # 205
  BY <1>1 DEF Byte, Column
<1>3. t.kind = "rst" /\ t.taken /\ t.returnAddress = next
  BY <1>2, InfoRst
<1>4. d = Decoded(Ins("rst", None, Imm(8 * Row(op)), 0), 1)
  <2>1. d = HighPrimary(c.mem, c.pc, op)
    BY <1>1, <1>2, HighDecoded
  <2> HIDE DEF d
  <2> QED BY <1>1, <1>2, <2>1, HighCalls
<1> HIDE DEF t, d, op, next
<1>5. d.ins.mn = "rst" /\ d.ins.arg = 0 /\ d.len = 1
  BY <1>4, DecodedParts, InsParts, BareAs
<1>6. Holds(c.f, d.ins.arg)
  BY <1>5, AlwaysHolds
<1>7. NextOf(c) = next
  BY <1>5 DEF NextOf, next, d
<1> QED BY <1>3, <1>5, <1>6, <1>7, Zenon DEF Classified, t, d
LEMMA ClassifiedRet ==
  ASSUME NEW c, IsCpu(c), At(c.mem, c.pc) = 201
  PROVE  Classified(c)
<1> DEFINE t == classifyStepOver(c)
           op == At(c.mem, c.pc)
           d == decodeInstruction(c.mem, c.pc)
<1>1. op \in Byte
  BY CpuParts, MemoryTyped, Zenon
<1>2. op >= 192 /\ op \notin {203, 221, 237, 253} /\ Column(201) = 1
  BY <1>1 DEF Byte, Column
<1>3. t.kind = "ret" /\ t.taken
  BY <1>2, InfoRet
<1>4. d = Decoded(Bare("ret"), 1)
  <2>1. d = HighPrimary(c.mem, c.pc, op)
    BY <1>1, <1>2, HighDecoded
  <2> HIDE DEF d
  <2> QED BY <1>1, <1>2, <2>1, HighCalls
<1> HIDE DEF t, d, op
<1>5. d.ins.mn = "ret" /\ d.ins.arg = 0 /\ d.len = 1
  BY <1>4, DecodedParts, InsParts, BareAs
<1>6. Holds(c.f, d.ins.arg)
  BY <1>5, AlwaysHolds
<1>7. d.ins.mn \in ReturnMnemonics
  BY <1>5 DEF ReturnMnemonics
<1> QED BY <1>3, <1>5, <1>6, <1>7, Zenon DEF Classified, t, d
LEMMA ClassifiedRetIf ==
  ASSUME NEW c, IsCpu(c), At(c.mem, c.pc) >= 192, Column(At(c.mem, c.pc)) = 0
  PROVE  Classified(c)
<1> DEFINE t == classifyStepOver(c)
           op == At(c.mem, c.pc)
           branch == shouldBranchOnCondition(c, op)
           d == decodeInstruction(c.mem, c.pc)
<1>1. op \in Byte
  BY CpuParts, MemoryTyped, Zenon
<1>2. op >= 192 /\ op \notin {203, 221, 237, 253} /\ op \notin {201, 205}
  BY <1>1 DEF Byte, Column
<1>3. t.kind = "ret" /\ t.taken = branch
  <2>1. t = StepInfo("ret", branch, Unset)
    BY <1>2, InfoRetIf
  <2> HIDE DEF t, branch
  <2> QED BY <2>1, BranchParts
<1>4. d = Decoded(Ins("ret", None, None, Row(op) + 1), 1)
  <2>1. d = HighPrimary(c.mem, c.pc, op)
    BY <1>1, <1>2, HighDecoded
  <2> HIDE DEF d
  <2> QED BY <1>1, <1>2, <2>1, HighCalls
<1> HIDE DEF t, d, op, branch
<1>5. d.ins.mn = "ret" /\ d.ins.arg = Row(op) + 1 /\ d.len = 1
  BY <1>4, DecodedParts, InsParts, BareAs
<1>6. branch = Holds(c.f, d.ins.arg)
  BY <1>5 DEF branch, shouldBranchOnCondition
<1>7. d.ins.mn \in ReturnMnemonics
  BY <1>5 DEF ReturnMnemonics
<1> QED BY <1>3, <1>5, <1>6, <1>7, Zenon DEF Classified, t, d
LEMMA ClassifiedReturn ==
  ASSUME NEW c, IsCpu(c), At(c.mem, c.pc) = 237, At(c.mem, c.pc + 1) >= 64, At(c.mem, c.pc + 1) < 128, Column(At(c.mem, c.pc + 1)) = 5
  PROVE  Classified(c)
<1> DEFINE t == classifyStepOver(c)
           d == decodeInstruction(c.mem, c.pc)
<1>1. t.kind = "ret" /\ t.taken
  <2>1. Column(237) = 5
    BY DEF Column
  <2> QED BY <2>1, InfoReturn
<1>2. d = EdTable(c.mem, c.pc)
  BY DEF decodeInstruction
<1>3. EdTable(c.mem, c.pc) \in {Decoded(Bare("reti"), 2), Decoded(Bare("retn"), 2)}
  BY CpuParts, EdReturns
<1> HIDE DEF t, d
<1>4. d.ins.mn \in {"reti", "retn"} /\ d.ins.arg = 0
  BY <1>2, <1>3, DecodedParts, BareAs
<1>5. Holds(c.f, d.ins.arg)
  BY <1>4, AlwaysHolds
<1>6. d.ins.mn \in ReturnMnemonics
  BY <1>4 DEF ReturnMnemonics
<1> QED BY <1>1, <1>5, <1>6, Zenon DEF Classified, t, d
LEMMA ClassifiedElse ==
  ASSUME NEW c, IsCpu(c), Unclassified(At(c.mem, c.pc), At(c.mem, c.pc + 1))
  PROVE  Classified(c)
<1> DEFINE t == classifyStepOver(c)
           m == c.mem
           pc == c.pc
           d == decodeInstruction(m, pc)
           op == At(m, pc)
<1>1. op \in Byte /\ IsByteMap(m)
  BY CpuParts, MemoryTyped, Zenon
<1>2. t.kind = "none"
  <2>1. t = NoTrace
    BY InfoNone
  <2> HIDE DEF t
  <2> QED BY <2>1 DEF NoTrace
<1> HIDE DEF t
<1>3. CASE op = 203
  <2>1. d = CbTable(m, pc)
    BY <1>3 DEF decodeInstruction
  <2> QED BY <1>1, <1>2, <2>1, CbQuiet, Zenon DEF Classified, t
<1>4. CASE op = 221
  <2>1. d = DdTable(m, pc, "ix")
    BY <1>4 DEF decodeInstruction
  <2> QED BY <1>1, <1>2, <2>1, DdQuiet, Zenon DEF Classified, t
<1>5. CASE op = 253
  <2>1. d = DdTable(m, pc, "iy")
    BY <1>5 DEF decodeInstruction
  <2> QED BY <1>1, <1>2, <2>1, DdQuiet, Zenon DEF Classified, t
<1>6. CASE op = 237
  <2>1. d = EdTable(m, pc)
    BY <1>6 DEF decodeInstruction
  <2>2. ~(At(m, pc + 1) >= 64 /\ At(m, pc + 1) < 128 /\ Column(At(m, pc + 1)) = 5)
    BY <1>6 DEF Unclassified
  <2>3. EdTable(m, pc).ins.mn \notin Calling
    BY <1>1, <2>2, EdReturns
  <2> QED BY <1>2, <2>1, <2>3, Zenon DEF Classified, t
<1>7. CASE op \notin {203, 221, 237, 253}
  <2>1. op < 64 => d = LowPrimary(m, pc, op)
    BY <1>7 DEF decodeInstruction
  <2>2. op >= 64 /\ op < 192 => d = MatrixPrimary(op)
    BY <1>1, <1>7 DEF decodeInstruction, Byte
  <2>3. op >= 192 => d = HighPrimary(m, pc, op)
    BY <1>1, <1>7, HighDecoded
  <2>4. op >= 192 => op \notin {201, 203, 205} /\ Column(op) \notin {0, 4, 7}
    BY <1>7 DEF Unclassified
  <2>5. op < 64 \/ (op >= 64 /\ op < 192) \/ op >= 192
    BY <1>1 DEF Byte
  <2> HIDE DEF d, op
  <2>6. op >= 192 => d.ins.mn \notin Calling
    BY <1>1, <2>3, <2>4, HighQuiet
  <2>7. d.ins.mn \notin Calling
    BY <1>1, <2>1, <2>2, <2>5, <2>6, LowQuiet, MatrixQuiet
  <2> QED BY <1>2, <2>7, Zenon DEF Classified, t, d
<1> QED BY <1>3, <1>4, <1>5, <1>6, <1>7
LEMMA ClassifiedAs == ASSUME NEW c, IsCpu(c) PROVE Classified(c)
<1> DEFINE op == At(c.mem, c.pc)
           second == At(c.mem, c.pc + 1)
<1>1. Column(op) \in {0, 4, 7} <=> Column(op) = 0 \/ Column(op) = 4 \/ Column(op) = 7
  OBVIOUS
<1>2. CASE op = 205
  BY <1>2, ClassifiedCall
<1>3. CASE op = 201
  BY <1>3, ClassifiedRet
<1>4. CASE op >= 192 /\ Column(op) = 0
  BY <1>4, ClassifiedRetIf
<1>5. CASE op >= 192 /\ Column(op) = 4
  BY <1>5, ClassifiedCallIf
<1>6. CASE op >= 192 /\ Column(op) = 7
  BY <1>6, ClassifiedRst
<1>7. CASE op = 237 /\ second >= 64 /\ second < 128 /\ Column(second) = 5
  BY <1>7, ClassifiedReturn
<1>8. CASE Unclassified(op, second)
  BY <1>8, ClassifiedElse
<1> HIDE DEF op, second
<1> QED BY <1>1, <1>2, <1>3, <1>4, <1>5, <1>6, <1>7, <1>8, Zenon DEF Unclassified

(* What a push leaves on the stack, and elsewhere.                                  *)
LEMMA PutAt ==
  ASSUME NEW m, NEW x, NEW v, NEW a
  PROVE  At(Put(m, x, v), a) = IF a % 65536 = x THEN v ELSE At(m, a)
<1> DEFINE k == a % 65536
<1>1. At(Put(m, x, v), a) = IF k \in DOMAIN Put(m, x, v) THEN Put(m, x, v)[k] ELSE 0
  BY DEF At
<1>2. At(m, a) = IF k \in DOMAIN m THEN m[k] ELSE 0
  BY DEF At
<1>3. DOMAIN Put(m, x, v) = DOMAIN m \cup {x} /\ \A y \in DOMAIN m \cup {x} : Put(m, x, v)[y] = IF y = x THEN v ELSE m[y]
  BY DEF Put
<1> HIDE DEF k
<1>4. At(Put(m, x, v), a) = IF k = x THEN v ELSE At(m, a)
  BY <1>1, <1>2, <1>3
<1> QED BY <1>4 DEF k
LEMMA WriteAt ==
  ASSUME NEW c, IsCpu(c), NEW a \in Int, NEW v \in Int
  PROVE  LET w == mem_write(c, a, v)
         IN /\ w.rom = c.rom
            /\ \A b : At(w.mem, b) = IF b % 65536 = a % 65536 /\ a % 65536 \notin c.rom THEN v % 256 ELSE At(c.mem, b)
<1> DEFINE x == a % 65536
           y == v % 256
           w == mem_write(c, a, v)
           m == Put(c.mem, x, y)
<1>1. w = IF x \in c.rom THEN c ELSE [c EXCEPT !.mem = m]
  BY DEF mem_write
<1>2. \A b : At(m, b) = IF b % 65536 = x THEN y ELSE At(c.mem, b)
  BY PutAt
<1>3. [c EXCEPT !.mem = m].rom = c.rom /\ [c EXCEPT !.mem = m].mem = m
  BY CpuParts DEF CpuFields
<1> HIDE DEF x, y, w, m
<1>4. w.rom = c.rom /\ w.mem = IF x \in c.rom THEN c.mem ELSE m
  BY <1>1, <1>3
<1>5. \A b : At(w.mem, b) = IF b % 65536 = x /\ x \notin c.rom THEN y ELSE At(c.mem, b)
  BY <1>2, <1>4
<1> QED BY <1>4, <1>5 DEF x, y, w
LEMMA HalvesOf ==
  ASSUME NEW v \in Addresses
  PROVE  (v \div 256) % 256 = v \div 256 /\ v = (v % 256) + 256 * (v \div 256)
<1> DEFINE h == v \div 256
<1>1. h \in 0..255 /\ v = (v % 256) + 256 * h
  <2>1. v \in Int /\ 0 <= v /\ v <= 65535
    BY DEF Addresses
  <2>2. v = (v % 256) + 256 * h
    BY <2>1
  <2>3. h \in 0..255
    BY <2>1
  <2> QED BY <2>2, <2>3
<1> HIDE DEF h
<1>2. h % 256 = h
  BY <1>1
<1> QED BY <1>1, <1>2 DEF h
LEMMA BelowApart ==
  ASSUME NEW n \in Addresses
  PROVE  LET x == (n - 1) % 65536  s == (n - 2) % 65536
         IN x # s /\ s % 65536 = s /\ (s + 1) % 65536 = x
<1>1. n \in Int /\ 0 <= n /\ n <= 65535
  BY DEF Addresses
<1>2. CASE n = 0
  BY <1>2
<1>3. CASE n = 1
  BY <1>3
<1>4. CASE n >= 2
  <2>1. (n - 1) % 65536 = n - 1 /\ (n - 2) % 65536 = n - 2
    BY <1>1, <1>4
  <2> QED BY <1>1, <1>4, <2>1
<1> QED BY <1>1, <1>2, <1>3, <1>4
Below(c) == {(c.sp - 1) % 65536, (c.sp - 2) % 65536}
LEMMA PushedHere ==
  ASSUME NEW c, IsCpu(c), NEW v \in Addresses
  PROVE  /\ \A b : b % 65536 \notin Below(c) => At(pushWord(c, v).mem, b) = At(c.mem, b)
         /\ Below(c) \cap c.rom = {} => WordAt(pushWord(c, v).mem, (c.sp - 2) % 65536) = v
<1> DEFINE s == (c.sp - 2) % 65536
           hi == v \div 256
           lo == v % 256
           x == (c.sp - 1) % 65536
           k == c.sp - 1
           l == c.sp - 2
           d == [c EXCEPT !.sp = s]
           e == mem_write(d, k, hi)
           w == mem_write(e, l, v)
<1>1. c.sp \in Addresses /\ c.sp \in Int /\ v \in Int
  BY CpuParts, Numbers, Zenon
<1>2. s \in Addresses /\ hi \in Int /\ k \in Int /\ l \in Int
  BY <1>1, LowTyped
<1>3. k % 65536 = x /\ l % 65536 = s
  OBVIOUS
<1>4. pushWord(c, v) = w
  BY DEF pushWord
<1>5. hi % 256 = hi /\ v = lo + 256 * hi
  BY HalvesOf
<1>6. x # s /\ s % 65536 = s /\ (s + 1) % 65536 = x
  BY <1>1, BelowApart
<1>7. Below(c) = {x, s}
  BY DEF Below
<1> HIDE DEF s, hi, lo, x, k, l
<1>8. IsCpu(d)
  BY <1>2, CpuSp, Zenon DEF Steady
<1>9. d.mem = c.mem /\ d.rom = c.rom
  BY CpuParts DEF CpuFields
<1> HIDE DEF d
<1>10. IsCpu(e)
  BY <1>2, <1>8, MemWriteLevel, LevelSteady, Zenon
<1>11. e.rom = d.rom /\ \A b : At(e.mem, b) = IF b % 65536 = x /\ x \notin d.rom THEN hi % 256 ELSE At(d.mem, b)
  BY <1>2, <1>8, <1>3, WriteAt
<1> HIDE DEF e
<1>12. \A b : At(w.mem, b) = IF b % 65536 = s /\ s \notin e.rom THEN lo ELSE At(e.mem, b)
  <2>1. \A b : At(w.mem, b) = IF b % 65536 = s /\ s \notin e.rom THEN v % 256 ELSE At(e.mem, b)
    BY <1>1, <1>2, <1>10, <1>3, WriteAt
  <2> QED BY <2>1 DEF lo
<1> HIDE DEF w
<1>13. \A b : b % 65536 \notin Below(c) => At(w.mem, b) = At(c.mem, b)
  BY <1>7, <1>9, <1>11, <1>12
<1>14. Below(c) \cap c.rom = {} => At(w.mem, s) = lo /\ At(w.mem, s + 1) = hi
  BY <1>5, <1>6, <1>7, <1>9, <1>11, <1>12
<1>15. Below(c) \cap c.rom = {} => WordAt(w.mem, s) = v
  BY <1>5, <1>14 DEF WordAt, Word
<1> QED BY <1>4, <1>13, <1>15 DEF s

(* What executing does to the stack and PC, by what is decoded.                     *)
LEMMA ExecutedLike ==
  ASSUME NEW b, IsCpu(b), ~b.halted
  PROVE  LET d == decodeInstruction(b.mem, b.pc)
             e == execute(b)
             x == Execute(Ready(b, d), d.ins)
         IN /\ IsCpu(e) /\ e.sp = x.sp /\ e.pc = x.pc /\ e.mem = x.mem
            /\ IsCpu(Ready(b, d)) /\ Ready(b, d).sp = b.sp /\ Ready(b, d).pc = NextOf(b)
            /\ Ready(b, d).mem = b.mem /\ Ready(b, d).rom = b.rom /\ Ready(b, d).f = b.f
            /\ Executable(d.ins)
<1> DEFINE d == decodeInstruction(b.mem, b.pc)
           r == Ready(b, d)
           x == Execute(r, d.ins)
           next == NextOf(b)
<1>1. IsByteMap(b.mem) /\ b.pc \in Int
  BY CpuParts, Numbers, Zenon
<1>2. Executable(d.ins) /\ d.len \in Int
  BY <1>1, DecodedIsExecutable DEF DecodesWell
<1>3. execute(b) = executeDecoded(b, d)
  BY DEF execute
<1>4. next = (b.pc + d.len) % 65536
  BY DEF NextOf
<1> HIDE DEF d, next
<1>5. IsCpu(r) /\ r.sp = b.sp /\ r.pc = next /\ r.mem = b.mem /\ r.rom = b.rom /\ r.f = b.f
  BY <1>2, <1>4, ReadyTyped
<1> HIDE DEF r
<1>6. IsCpu(x)
  BY <1>2, <1>5, ExecuteTyped, Zenon
<1>7. execute(b) = Delayed(b, x)
  BY <1>3, ExecutedAs, Zenon DEF r
<1> HIDE DEF x
<1>8. IsCpu(execute(b)) /\ execute(b).sp = x.sp /\ execute(b).pc = x.pc /\ execute(b).mem = x.mem
  BY <1>6, <1>7, DelayedTyped
<1> QED BY <1>2, <1>5, <1>8, Zenon DEF d, r, x, next
LEMMA FurtherOn ==
  ASSUME NEW p \in Addresses, NEW n \in {1, 2, 3, 4}
  PROVE  (p + n) % 65536 # p
<1>1. p \in Int /\ 0 <= p /\ p <= 65535
  BY DEF Addresses
<1> DEFINE q == (p + n) % 65536
<1>2. CASE p + n < 65536
  <2>1. q = p + n
    BY <1>1, <1>2
  <2> HIDE DEF q
  <2>2. q # p
    BY <1>1, <2>1
  <2> QED BY <2>2 DEF q
<1>3. CASE p + n >= 65536
  <2>1. q = p + n - 65536
    BY <1>1, <1>3
  <2> HIDE DEF q
  <2>2. q # p
    BY <1>1, <2>1
  <2> QED BY <2>2 DEF q
<1> QED BY <1>1, <1>2, <1>3
LEMMA NextDiffers ==
  ASSUME NEW b, IsCpu(b)
  PROVE  NextOf(b) # b.pc /\ NextOf(b) \in Addresses
<1> DEFINE n == decodeInstruction(b.mem, b.pc).len
<1>1. IsByteMap(b.mem) /\ b.pc \in Int /\ b.pc \in Addresses
  BY CpuParts, Numbers, Zenon
<1>2. n \in 1..4
  BY <1>1, DecodedIsExecutable DEF DecodesWell
<1>3. NextOf(b) = (b.pc + n) % 65536
  BY DEF NextOf
<1> HIDE DEF n
<1>4. n \in {1, 2, 3, 4} /\ b.pc + n \in Int
  BY <1>1, <1>2
<1>5. NextOf(b) \in Addresses
  BY <1>3, <1>4, LowTyped
<1> QED BY <1>1, <1>3, <1>4, <1>5, FurtherOn
LEMMA QuietStep ==
  ASSUME NEW b, IsCpu(b), ~b.halted, decodeInstruction(b.mem, b.pc).ins.mn \notin Calling
  PROVE  execute(b).sp = b.sp \/ execute(b).pc = NextOf(b)
<1> DEFINE i == decodeInstruction(b.mem, b.pc).ins
           r == Ready(b, decodeInstruction(b.mem, b.pc))
           x == Execute(r, i)
           e == execute(b)
           next == NextOf(b)
<1>1. e.sp = x.sp /\ e.pc = x.pc /\ IsCpu(r) /\ r.sp = b.sp /\ r.pc = next /\ Executable(i)
  BY ExecutedLike
<1>2. i.mn \notin Calling
  OBVIOUS
<1> HIDE DEF i, r, x, e, next
<1>3. CASE IsPlain(i)
  <2>1. Steady(r, x)
    BY <1>1, <1>3, PlainSteady DEF x
  <2> QED BY <1>1, <2>1 DEF Steady, e, next
<1>4. CASE i.mn \in BlockTransfers
  <2>1. Repeats(r, executeBlock(r, i.mn))
    BY <1>1, <1>4, BlockRepeats
  <2>2. x = executeBlock(r, i.mn)
    BY <1>4, BlockExecuted DEF x
  <2> QED BY <1>1, <2>1, <2>2 DEF Repeats, e
<1>5. CASE Controls(i)
  <2>1. i.mn \in {"jp", "jr", "djnz"}
    BY <1>2, <1>5 DEF Controls, Calling, TargetMnemonics, ReturnMnemonics
  <2>2. x = executeControl(r, i)
    BY <1>5, ControlExecuted DEF x
  <2>3. executeControl(r, i).sp = r.sp
    BY <1>1, <1>5, <2>1, JumpsKeepStack
  <2> QED BY <1>1, <2>2, <2>3 DEF e
<1> QED BY <1>1, <1>3, <1>4, <1>5, Zenon DEF Executable
LEMMA ReturnStep ==
  ASSUME NEW b, IsCpu(b), ~b.halted, decodeInstruction(b.mem, b.pc).ins.mn \in ReturnMnemonics
  PROVE  LET e == execute(b)
         IN /\ e.mem = b.mem
            /\ IF Holds(b.f, decodeInstruction(b.mem, b.pc).ins.arg)
               THEN e.sp = (b.sp + 2) % 65536 /\ e.pc = WordAt(b.mem, b.sp)
               ELSE e.sp = b.sp /\ e.pc = NextOf(b)
<1> DEFINE i == decodeInstruction(b.mem, b.pc).ins
           r == Ready(b, decodeInstruction(b.mem, b.pc))
           x == Execute(r, i)
           e == execute(b)
           next == NextOf(b)
           holds == Holds(b.f, i.arg)
           s == (b.sp + 2) % 65536
           q == Return(r)
           k == r.iff2
<1>1. e.sp = x.sp /\ e.pc = x.pc /\ e.mem = x.mem /\ IsCpu(r) /\ r.sp = b.sp /\ r.pc = next /\ r.mem = b.mem /\ r.f = b.f
  BY ExecutedLike
<1>2. Controls(i)
  BY DEF Controls
<1>3. x = executeControl(r, i)
  BY <1>2, ControlExecuted
<1>4. executeControl(r, i) = IF ~Holds(r.f, i.arg) THEN r ELSE IF i.mn \in {"ret", "reti"} THEN q ELSE [q EXCEPT !.iff1 = k]
  BY DEF executeControl, ReturnMnemonics
<1>5. k \in {0, 1}
  BY <1>1, CpuParts, Zenon
<1> HIDE DEF i, r, x, e, next, k
<1>6. IsCpu(q) /\ q.sp = afterPop(r).sp /\ q.pc = popped(r) /\ q.mem = afterPop(r).mem
  BY <1>1, ReturnTyped
<1>7. afterPop(r).sp = (r.sp + 2) % 65536
  BY <1>1, PopSteady
<1>8. afterPop(r).mem = r.mem
  BY <1>1, CpuParts DEF afterPop, CpuFields
<1>9. popped(r) = WordAt(r.mem, r.sp)
  BY DEF popped
<1>10. (r.sp + 2) % 65536 = s
  BY <1>1
<1> HIDE DEF q, s
<1>11. q.sp = s /\ q.pc = WordAt(b.mem, b.sp) /\ q.mem = b.mem
  BY <1>1, <1>6, <1>7, <1>8, <1>9, <1>10
<1>12. [q EXCEPT !.iff1 = k].sp = q.sp /\ [q EXCEPT !.iff1 = k].pc = q.pc /\ [q EXCEPT !.iff1 = k].mem = q.mem
  BY <1>5, <1>6, CpuIff
<1> HIDE DEF holds
<1>13. Holds(r.f, i.arg) = holds
  BY <1>1 DEF holds
<1>14. CASE holds
  BY <1>1, <1>3, <1>4, <1>11, <1>12, <1>13, <1>14 DEF e, s, i, holds
<1>15. CASE ~holds
  BY <1>1, <1>3, <1>4, <1>13, <1>15 DEF e, next, i, holds
<1> QED BY <1>14, <1>15
Calls(b) ==
  LET i == decodeInstruction(b.mem, b.pc).ins
  IN i.mn = "rst" \/ (i.mn = "call" /\ Holds(b.f, i.arg))
LEMMA CallStep ==
  ASSUME NEW b, IsCpu(b), ~b.halted, decodeInstruction(b.mem, b.pc).ins.mn \in {"call", "rst"}
  PROVE  LET e == execute(b)
         IN IF Calls(b)
            THEN /\ e.sp = (b.sp - 2) % 65536
                 /\ \A a : a % 65536 \notin Below(b) => At(e.mem, a) = At(b.mem, a)
                 /\ Below(b) \cap b.rom = {} => WordAt(e.mem, e.sp) = NextOf(b)
            ELSE e.sp = b.sp /\ e.pc = NextOf(b)
<1> DEFINE i == decodeInstruction(b.mem, b.pc).ins
           r == Ready(b, decodeInstruction(b.mem, b.pc))
           x == Execute(r, i)
           e == execute(b)
           next == NextOf(b)
           calls == Calls(b)
           s == (b.sp - 2) % 65536
           p == pushWord(r, next)
<1>1. e.sp = x.sp /\ e.pc = x.pc /\ e.mem = x.mem /\ IsCpu(r) /\ r.sp = b.sp /\ r.pc = next /\ r.mem = b.mem /\ r.f = b.f /\ r.rom = b.rom
  BY ExecutedLike
<1>2. Controls(i)
  <2>1. Executable(i)
    BY ExecutedLike
  <2>2. i.mn \in {"call", "rst"}
    OBVIOUS
  <2> HIDE DEF i
  <2>3. i.mn \notin BlockTransfers
    BY <2>2, BlockNames
  <2>4. ~IsPlain(i)
    BY <2>2 DEF IsPlain, Loads, ComputesWords, Computes, Counts, TurnsBits, Stacks, Exchanges, Inputs1, CoreNames, AluMnemonics, RotateMnemonics
  <2> QED BY <2>1, <2>3, <2>4, Zenon DEF Executable
<1>3. x = executeControl(r, i)
  BY <1>2, ControlExecuted
<1>4. calls <=> i.mn = "rst" \/ Holds(r.f, i.arg)
  <2>1. r.f = b.f /\ i.mn \in {"call", "rst"}
    BY <1>1
  <2>2. calls <=> i.mn = "rst" \/ (i.mn = "call" /\ Holds(b.f, i.arg))
    BY DEF Calls
  <2> HIDE DEF r, calls, i
  <2> QED BY <2>1, <2>2
<1>5. PICK target \in Addresses :
       executeControl(r, i) = IF i.mn = "rst" \/ Holds(r.f, i.arg) THEN Jump(pushWord(r, r.pc), target) ELSE r
  <2> DEFINE v == JumpAddress(r, i)
  <2>1. v \in Addresses
    <3>1. i.mn \in TargetMnemonics
      BY DEF TargetMnemonics
    <3> QED BY <1>1, <1>2, <3>1, TargetTyped, Zenon
  <2>2. PICK a \in Addresses : do_call(r) = Jump(pushWord(r, r.pc), a)
    BY <1>1, CallTaken, Zenon
  <2>3. executeControl(r, i) = IF i.mn = "rst" THEN Jump(pushWord(r, r.pc), v)
                               ELSE IF Holds(r.f, i.arg) THEN do_call(r) ELSE r
    BY DEF executeControl, JumpAddress
  <2> HIDE DEF v, i, r
  <2>4. CASE i.mn = "rst"
    BY <2>1, <2>3, <2>4
  <2>5. CASE i.mn # "rst"
    BY <2>2, <2>3, <2>5
  <2> QED BY <2>4, <2>5
<1> DEFINE q == Jump(p, target)
<1>6. executeControl(r, i) = IF i.mn = "rst" \/ Holds(r.f, i.arg) THEN Jump(pushWord(r, r.pc), target) ELSE r
  BY <1>5
<1>7. next \in Addresses /\ next \in Int
  BY NextDiffers, Numbers, Zenon
<1> HIDE DEF i, r, x, e, next, calls
<1>8. IsCpu(p) /\ p.sp = (r.sp - 2) % 65536
  BY <1>1, <1>7, PushSteady DEF Steady
<1>9. q.sp = p.sp /\ q.mem = p.mem
  BY <1>5, <1>8, JumpTyped
<1>10. /\ \A a : a % 65536 \notin Below(r) => At(p.mem, a) = At(r.mem, a)
       /\ Below(r) \cap r.rom = {} => WordAt(p.mem, (r.sp - 2) % 65536) = next
  BY <1>1, <1>7, PushedHere
<1>11. (r.sp - 2) % 65536 = s /\ Below(r) = Below(b)
  BY <1>1 DEF Below
<1> HIDE DEF p, q, s
<1>12. CASE calls
  <2>1. x = q
    BY <1>1, <1>3, <1>4, <1>6, <1>12 DEF p, q
  <2> QED BY <1>1, <1>8, <1>9, <1>10, <1>11, <1>12, <2>1 DEF e, s, next, calls
<1>13. CASE ~calls
  BY <1>1, <1>3, <1>4, <1>6, <1>13 DEF e, next, calls
<1> QED BY <1>12, <1>13

(* What the step is said to be, against the processor e that it left behind: what   *)
(* StepInfoIsTrue asks, and what is known while a block instruction is repeated.     *)
Own(b) == {b.pc, (b.pc + 1) % 65536}
StepTold(b, t, e) ==
  /\ t.kind = "none" => e.sp = b.sp \/ e.pc = NextOf(b)
  /\ t.kind # "none" /\ ~t.taken => e.sp = b.sp /\ e.pc = NextOf(b)
  /\ t.kind \in {"call", "rst"} /\ t.taken =>
       /\ t.returnAddress = NextOf(b)
       /\ Below(b) \cap Own(b) = {} =>
            /\ e.sp = (b.sp - 2) % 65536
            /\ Below(b) \cap b.rom = {} => WordAt(e.mem, e.sp) = NextOf(b)
  /\ t.kind = "ret" /\ t.taken => e.sp = (b.sp + 2) % 65536 /\ e.pc = WordAt(b.mem, b.sp)
StepAgain(b, t, e) ==
  \/ t.kind = "none" /\ e.sp = b.sp
  \/ t.kind \in {"call", "rst"} /\ t.taken /\ t.returnAddress = NextOf(b) /\ Below(b) \cap Own(b) # {}
LEMMA AgainTold ==
  ASSUME NEW b, NEW t, NEW e, StepAgain(b, t, e)
  PROVE  StepTold(b, t, e)
<1>1. CASE t.kind = "none" /\ e.sp = b.sp
  BY <1>1 DEF StepTold
<1>2. CASE t.kind \in {"call", "rst"} /\ t.taken /\ t.returnAddress = NextOf(b) /\ Below(b) \cap Own(b) # {}
  BY <1>2 DEF StepTold
<1> QED BY <1>1, <1>2, Zenon DEF StepAgain
LEMMA InSpace == \A p \in Addresses : p % 65536 = p
<1> SUFFICES ASSUME NEW p \in Addresses PROVE p % 65536 = p
  OBVIOUS
<1>1. p \in Int /\ 0 <= p /\ p <= 65535
  BY DEF Addresses
<1> QED BY <1>1
LEMMA PcHere ==
  ASSUME NEW b, IsCpu(b)
  PROVE  b.pc % 65536 = b.pc
<1>1. b.pc \in Addresses
  BY CpuParts, Zenon
<1> QED BY <1>1, InSpace
LEMMA TakenOver ==
  ASSUME NEW b, IsCpu(b), NEW e, \A a : a % 65536 \in Own(b) => At(e.mem, a) = At(b.mem, a), e.pc = b.pc, isBlockRepeatInstruction(e, e.pc)
  PROVE  decodeInstruction(b.mem, b.pc).ins.mn \in BlockTransfers
<1>1. b.pc % 65536 \in Own(b) /\ (b.pc + 1) % 65536 \in Own(b)
  BY PcHere DEF Own
<1>2. At(e.mem, b.pc) = At(b.mem, b.pc) /\ At(e.mem, b.pc + 1) = At(b.mem, b.pc + 1)
  BY <1>1
<1>3. isBlockRepeatInstruction(b, b.pc)
  BY <1>2 DEF isBlockRepeatInstruction
<1> QED BY <1>3, RepeatDecoded
LEMMA FirstTold ==
  ASSUME NEW b, IsCpu(b), ~b.halted
  PROVE  LET t == classifyStepOver(b)
             e == execute(b)
         IN StepTold(b, t, e) /\ (e.pc = b.pc /\ isBlockRepeatInstruction(e, e.pc) => StepAgain(b, t, e))
<1> DEFINE t == classifyStepOver(b)
           e == execute(b)
           i == decodeInstruction(b.mem, b.pc).ins
           next == NextOf(b)
           holds == Holds(b.f, i.arg)
           repeats == e.pc = b.pc /\ isBlockRepeatInstruction(e, e.pc)
<1>1. \/ t.kind = "none" /\ i.mn \notin Calling
      \/ t.kind = "call" /\ i.mn = "call" /\ (t.taken <=> holds) /\ t.returnAddress = next
      \/ t.kind = "rst" /\ i.mn = "rst" /\ t.taken /\ t.returnAddress = next
      \/ t.kind = "ret" /\ i.mn \in ReturnMnemonics /\ (t.taken <=> holds)
  BY ClassifiedAs DEF Classified
<1>2. next # b.pc
  BY NextDiffers
<1>3. repeats /\ (\A a : a % 65536 \in Own(b) => At(e.mem, a) = At(b.mem, a)) => i.mn \in BlockTransfers
  BY TakenOver
<1>4. i.mn \in BlockTransfers => i.mn \notin ReturnMnemonics /\ i.mn \notin {"call", "rst"}
  BY BlockNames DEF ReturnMnemonics
<1>5. CASE t.kind = "none" /\ i.mn \notin Calling
  <2>1. e.sp = b.sp \/ e.pc = next
    BY <1>5, QuietStep
  <2>2. StepTold(b, t, e)
    BY <1>5, <2>1 DEF StepTold
  <2>3. repeats => StepAgain(b, t, e)
    BY <1>2, <1>5, <2>1 DEF StepAgain
  <2> QED BY <2>2, <2>3
<1>6. CASE t.kind = "ret" /\ i.mn \in ReturnMnemonics /\ (t.taken <=> holds)
  <2>1. e.mem = b.mem /\ IF holds THEN e.sp = (b.sp + 2) % 65536 /\ e.pc = WordAt(b.mem, b.sp) ELSE e.sp = b.sp /\ e.pc = next
    BY <1>6, ReturnStep
  <2>2. ~repeats
    BY <1>3, <1>4, <1>6, <2>1
  <2> HIDE DEF t, e, i, next, holds
  <2>3. StepTold(b, t, e)
    BY <1>6, <2>1 DEF StepTold, next
  <2> QED BY <2>2, <2>3 DEF t, e
<1>7. CASE t.kind \in {"call", "rst"} /\ i.mn \in {"call", "rst"} /\ (t.taken <=> Calls(b)) /\ t.returnAddress = next
  <2>1. IF Calls(b)
        THEN /\ e.sp = (b.sp - 2) % 65536
             /\ \A a : a % 65536 \notin Below(b) => At(e.mem, a) = At(b.mem, a)
             /\ Below(b) \cap b.rom = {} => WordAt(e.mem, e.sp) = next
        ELSE e.sp = b.sp /\ e.pc = next
    BY <1>7, CallStep
  <2> HIDE DEF t, e, i, next
  <2>2. StepTold(b, t, e)
    BY <1>7, <2>1 DEF StepTold, next
  <2>3. repeats => StepAgain(b, t, e)
    <3> SUFFICES ASSUME repeats PROVE StepAgain(b, t, e)
      OBVIOUS
    <3>1. t.taken /\ Calls(b)
      BY <1>2, <1>7, <2>1
    <3>2. Below(b) \cap Own(b) # {}
      BY <1>3, <1>4, <1>7, <2>1, <3>1
    <3> QED BY <1>7, <3>1, <3>2 DEF StepAgain, next
  <2> QED BY <2>2, <2>3 DEF t, e
<1>8. t.kind = "call" /\ i.mn = "call" => (holds <=> Calls(b))
  BY DEF Calls
<1>9. t.kind = "rst" /\ i.mn = "rst" => Calls(b)
  BY DEF Calls
<1> HIDE DEF t, e, i, next, holds, repeats
<1>10. \/ t.kind = "none" /\ i.mn \notin Calling
       \/ t.kind = "ret" /\ i.mn \in ReturnMnemonics /\ (t.taken <=> holds)
       \/ t.kind \in {"call", "rst"} /\ i.mn \in {"call", "rst"} /\ (t.taken <=> Calls(b)) /\ t.returnAddress = next
  <2>1. CASE t.kind = "call" /\ i.mn = "call" /\ (t.taken <=> holds) /\ t.returnAddress = next
    BY <1>8, <2>1
  <2>2. CASE t.kind = "rst" /\ i.mn = "rst" /\ t.taken /\ t.returnAddress = next
    BY <1>9, <2>2
  <2> QED BY <1>1, <2>1, <2>2, Zenon
<1> QED BY <1>5, <1>6, <1>7, <1>10, Zenon DEF t, e, repeats
LEMMA RepeatKept ==
  ASSUME NEW b, NEW t, NEW c, IsCpu(c), ~c.halted, isBlockRepeatInstruction(c, c.pc), StepAgain(b, t, c)
  PROVE  StepAgain(b, t, execute(c))
<1> DEFINE i == decodeInstruction(c.mem, c.pc).ins
           r == Ready(c, decodeInstruction(c.mem, c.pc))
           x == Execute(r, i)
           e == execute(c)
<1>1. e.sp = x.sp /\ IsCpu(r) /\ r.sp = c.sp
  BY ExecutedLike
<1>2. i.mn \in BlockTransfers
  BY RepeatDecoded
<1> HIDE DEF i, r, e
<1>3. x = executeBlock(r, i.mn)
  BY <1>2, BlockExecuted
<1>4. Repeats(r, executeBlock(r, i.mn))
  BY <1>1, <1>2, BlockRepeats
<1> HIDE DEF x
<1>5. e.sp = c.sp
  BY <1>1, <1>3, <1>4 DEF Repeats
<1> QED BY <1>5, Zenon DEF StepAgain, e

(* Until the step is over the processor is where it began, or repeating; when it is, *)
(* what was said of it has come true.                                               *)
StepShape == step = [trace |-> step.trace, before |-> step.before, interrupted |-> step.interrupted] /\ step.interrupted \in BOOLEAN
StepInv ==
  /\ job \in Jobs /\ StepShape
  /\ mode = "off" => steps = job.steps
  /\ mode \in {"idle", "stepping"} => ~cpu.halted
  /\ mode = "stepping" =>
       /\ step.trace = classifyStepOver(step.before)
       /\ ~step.interrupted =>
            \/ cpu = step.before
            \/ /\ cpu.pc = step.before.pc /\ isBlockRepeatInstruction(cpu, cpu.pc)
               /\ StepAgain(step.before, step.trace, cpu)
  /\ mode \in {"idle", "halted"} /\ steps < job.steps /\ ~step.interrupted => StepTold(step.before, step.trace, cpu)
LEMMA ToldIsTrue == StepInv => StepInfoIsTrue
  BY DEF StepInv, StepTold, StepInfoIsTrue, NextOf, Below, Own
LEMMA StepStarts == Init => StepInv
<1> SUFFICES ASSUME Init PROVE StepInv
  OBVIOUS
<1>1. job \in Jobs /\ mode = "off" /\ steps = job.steps
  BY DEF Init
<1>2. StepShape
  BY DEF Init, StepShape
<1> QED BY <1>1, <1>2 DEF StepInv
LEMMA LoadTold ==
  ASSUME TypeOK, StepInv, Load
  PROVE  StepInv'
<1>1. mode = "off" /\ mode' = "idle" /\ cpu' = loadProgram(cpu, job.entry) /\ UNCHANGED <<job, step, steps>>
  BY DEF Load
<1>2. ~cpu'.halted
  <2> DEFINE p == IF job.entry \in Addresses THEN job.entry ELSE ImageStart
  <2>1. cpu' = [cpu EXCEPT !.mem = out.image, !.pc = p, !.halted = FALSE]
    BY <1>1 DEF loadProgram
  <2>2. cpu = [x \in CpuFields |-> cpu[x]]
    BY CpuParts, Zenon DEF TypeOK
  <2> HIDE DEF p
  <2> QED BY <2>1, <2>2 DEF CpuFields
<1>3. job \in Jobs /\ steps = job.steps
  BY <1>1 DEF StepInv
<1>4. ~(steps < job.steps)
  <2>1. job.steps \in Nat
    BY <1>3, JobsAssumption, Zenon
  <2> QED BY <1>3, <2>1
<1>5. StepShape'
  BY <1>1 DEF StepInv, StepShape
<1> QED BY <1>1, <1>2, <1>3, <1>4, <1>5 DEF StepInv
LEMMA BeginTold ==
  ASSUME StepInv, StepRuntime
  PROVE  StepInv'
<1>1. mode = "idle" /\ mode' = "stepping" /\ UNCHANGED <<job, cpu>>
  BY DEF StepRuntime
<1>2. step' = [trace |-> classifyStepOver(cpu), before |-> cpu, interrupted |-> FALSE]
  BY DEF StepRuntime
<1>3. step'.trace = classifyStepOver(cpu) /\ step'.before = cpu
  BY <1>2
<1>4. job \in Jobs /\ ~cpu.halted
  BY <1>1 DEF StepInv
<1>5. StepShape'
  BY <1>2 DEF StepShape
<1> QED BY <1>1, <1>3, <1>4, <1>5 DEF StepInv
LEMMA IterateTold ==
  ASSUME TypeOK, StepInv, Iterate
  PROVE  StepInv'
<1> DEFINE b == step.before
           t == step.trace
           e == execute(cpu)
           over == mode' = "idle" \/ mode' = "halted"
<1>1. PICK pressed \in BOOLEAN : cpu' = Ticked(e, pressed) /\ step' = [step EXCEPT !.interrupted = @ \/ pressed]
  BY Zenon DEF Iterate
<1>2. mode = "stepping" /\ UNCHANGED <<job, steps>>
  BY DEF Iterate
<1>3. mode' = IF cpu'.halted THEN "halted"
              ELSE IF cpu'.pc = b.pc /\ isBlockRepeatInstruction(cpu', cpu'.pc) THEN "stepping" ELSE "idle"
  BY DEF Iterate
<1>4. step'.trace = t /\ step'.before = b
  BY <1>1
<1>5. job \in Jobs /\ ~cpu.halted /\ t = classifyStepOver(b)
  BY <1>2 DEF StepInv
<1>6. ~step.interrupted =>
        \/ cpu = b
        \/ cpu.pc = b.pc /\ isBlockRepeatInstruction(cpu, cpu.pc) /\ StepAgain(b, t, cpu)
  BY <1>2 DEF StepInv
<1>7. ~step'.interrupted => ~step.interrupted /\ cpu' = e
  <2>1. step = [trace |-> step.trace, before |-> step.before, interrupted |-> step.interrupted]
    BY DEF StepInv, StepShape
  <2>2. step'.interrupted = (step.interrupted \/ pressed)
    BY <1>1, <2>1
  <2>3. ~step'.interrupted => ~step.interrupted /\ ~pressed
    BY <2>2
  <2> QED BY <1>1, <2>3, Zenon DEF Ticked
<1>8. IsCpu(cpu)
  BY DEF TypeOK
<1>9. ~step'.interrupted => StepTold(b, t, cpu') /\ (cpu'.pc = b.pc /\ isBlockRepeatInstruction(cpu', cpu'.pc) => StepAgain(b, t, cpu'))
  <2>1. CASE cpu = b
    <3>1. StepTold(b, classifyStepOver(b), execute(b)) /\
            (execute(b).pc = b.pc /\ isBlockRepeatInstruction(execute(b), execute(b).pc) => StepAgain(b, classifyStepOver(b), execute(b)))
      BY <1>5, <1>8, <2>1, FirstTold
    <3> QED BY <1>5, <1>7, <2>1, <3>1
  <2>2. CASE isBlockRepeatInstruction(cpu, cpu.pc) /\ StepAgain(b, t, cpu)
    <3> HIDE DEF b, t, e
    <3>1. StepAgain(b, t, execute(cpu))
      BY <1>5, <1>8, <2>2, RepeatKept
    <3>2. StepTold(b, t, execute(cpu))
      BY <3>1, AgainTold
    <3> QED BY <1>7, <3>1, <3>2 DEF e
  <2> QED BY <1>6, <1>7, <2>1, <2>2, Zenon
<1> HIDE DEF b, t, e
<1>10. mode' = "stepping" => cpu'.pc = b.pc /\ isBlockRepeatInstruction(cpu', cpu'.pc) /\ ~cpu'.halted
  BY <1>3
<1>11. mode' = "idle" => ~cpu'.halted
  BY <1>3
<1>12. mode' # "off"
  BY <1>3
<1>13. step'.before.pc = b.pc
  BY <1>4
<1>14. StepShape'
  BY <1>1 DEF StepInv, StepShape
<1> QED BY <1>2, <1>4, <1>5, <1>9, <1>10, <1>11, <1>12, <1>13, <1>14 DEF StepInv
LEMMA StepKept == TypeOK /\ StepInv /\ [Next]_vars => StepInv'
<1> SUFFICES ASSUME TypeOK, StepInv, [Next]_vars PROVE StepInv'
  OBVIOUS
<1>1. CASE Analyse
  <2>1. UNCHANGED <<job, mode, cpu, step, steps>>
    BY <1>1 DEF Analyse
  <2> QED BY <2>1 DEF StepInv, StepShape
<1>2. CASE Assemble
  <2>1. UNCHANGED <<job, mode, cpu, step, steps>>
    BY <1>2 DEF Assemble
  <2> QED BY <2>1 DEF StepInv, StepShape
<1>3. CASE Load
  BY <1>3, LoadTold
<1>4. CASE StepRuntime
  BY <1>4, BeginTold
<1>5. CASE Iterate
  BY <1>5, IterateTold
<1>6. CASE UNCHANGED vars
  <2>1. UNCHANGED <<job, mode, cpu, step, steps>>
    BY <1>6 DEF vars, machineVars
  <2> QED BY <2>1 DEF StepInv, StepShape
<1> QED BY <1>1, <1>2, <1>3, <1>4, <1>5, <1>6 DEF Next

(* Whatever is executed and wherever the stack lies, what step() says of calls and   *)
(* returns is what the processor then did (classifyStepOver against the decoder's    *)
(* tables and execute, stepRuntime's loop over block instructions).                  *)
THEOREM StepInfoCorrect == Spec => []StepInfoIsTrue
<1> QED BY AssemblyStarts, AssemblyKept, TypeStarts, TypeKept, StepStarts, StepKept, ToldIsTrue, PTL DEF Spec
=============================================================================
