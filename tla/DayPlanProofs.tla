--------------------------- MODULE DayPlanProofs ---------------------------
(***************************************************************************)
(* The properties of DayPlan for plans and days of any size.               *)
(***************************************************************************)
EXTENDS DayPlan, TLAPS, WellFoundedInduction, FiniteSetTheorems

-----------------------------------------------------------------------------
\* A set of numbers has a least element; from this, a bounded one has a greatest.
Below == OpToRel(<, Nat)

LEMMA BelowHolds == \A x \in Nat, y \in Nat : y < x => <<y, x>> \in Below
  BY DEF OpToRel, Below

LEMMA BelowFounded == IsWellFoundedOn(Below, Nat)
  BY NatLessThanWellFounded DEF Below

\* Every non-empty set of natural numbers has a least element.
LEMMA Least ==
  ASSUME NEW S \in SUBSET Nat, S # {}
  PROVE  \E x \in S : \A y \in S : x <= y
<1>1. PICK x \in S : \A y \in S : ~(<<y, x>> \in Below)
  BY BelowFounded, WFMin
<1>2. ASSUME NEW y \in S PROVE x <= y
  <2>1. x \in Nat /\ y \in Nat
    OBVIOUS
  <2>2. ~(<<y, x>> \in Below)
    BY <1>1
  <2>3. ~(y < x)
    BY <2>1, <2>2, BelowHolds, Zenon
  <2> QED
    BY <2>1, <2>3
<1> QED
  BY <1>2

\* Every non-empty set of natural numbers with a bound has a greatest element.
LEMMA Greatest ==
  ASSUME NEW N \in Nat, NEW S \in SUBSET (0 .. N), S # {}
  PROVE  \E x \in S : \A y \in S : y <= x
<1> DEFINE T == {N - x : x \in S}
<1>1. \A x \in S : x \in Int /\ N - x \in Nat
  OBVIOUS
<1>2. T \in SUBSET Nat /\ T # {}
  BY <1>1
<1>3. PICK t \in T : \A u \in T : t <= u
  BY <1>2, Least
<1>4. PICK x \in S : t = N - x
  OBVIOUS
<1>5. ASSUME NEW y \in S PROVE y <= x
  <2>1. N - x <= N - y
    BY <1>3, <1>4
  <2> QED
    BY <1>1, <2>1
<1> QED
  BY <1>5

-----------------------------------------------------------------------------
\* What the loop of _order_drafts keeps.  A step that the fallback takes is behind a cycle: when
\* no remaining step is free, the remaining steps wait for one another.
Ordering ==
  /\ ordered \in Seq(Kept)
  /\ ready \subseteq remaining
  /\ remaining \subseteq Kept
  /\ \A n \in Kept \ remaining : \E m \in DOMAIN ordered : ordered[m] = n
  /\ \A m \in DOMAIN ordered : ordered[m] \notin remaining
  /\ \A m, n \in DOMAIN ordered : ordered[m] = ordered[n] => m = n
  /\ \A n \in ready : Free(n) \/ BehindCycle(n)

Planned ==
  plan # <<>> =>
    /\ remaining = {}
    /\ DOMAIN plan = DOMAIN ordered
    /\ \A n \in DOMAIN plan :
         /\ plan[n].depends_on = Numbered(n)
         /\ plan[n].status = IF Numbered(n) = {} THEN "ready" ELSE "blocked"

PInv == drafts \in Seq(Draft) /\ Ordering /\ Planned /\ BrokenOnlyByCycles

\* Which steps are kept and what they depend on does not change.
LEMMA DraftsFixed ==
  ASSUME UNCHANGED drafts
  PROVE  /\ Kept' = Kept
         /\ \A n : Normalized(n)' = Normalized(n)
         /\ \A n : BehindCycle(n)' <=> BehindCycle(n)
  BY DEF Kept, Normalized, BehindCycle

LEMMA RoundKeeps ==
  ASSUME PInv, Round
  PROVE  PInv'
<1>1. Kept' = Kept /\ (\A n : Normalized(n)' = Normalized(n)) /\ (\A n : BehindCycle(n)' <=> BehindCycle(n))
  BY DraftsFixed DEF Round
<1>2. \A n \in ready' : n \in remaining /\ Free(n)'
  BY <1>1 DEF Round, Free
<1>3. Ordering'
  BY <1>1, <1>2 DEF Round, Ordering, PInv
<1>4. Planned' /\ BrokenOnlyByCycles'
  BY <1>1 DEF Round, PInv, Planned, Numbered, BrokenOnlyByCycles
<1> QED
  BY <1>3, <1>4 DEF PInv, Round

LEMMA BreakCycleKeeps ==
  ASSUME PInv, BreakCycle
  PROVE  PInv'
<1>1. Kept' = Kept /\ (\A n : Normalized(n)' = Normalized(n)) /\ (\A n : BehindCycle(n)' <=> BehindCycle(n))
  BY DraftsFixed DEF BreakCycle
<1>2. remaining \in SUBSET Kept
  BY DEF PInv, Ordering
<1>3. \A n \in remaining : BehindCycle(n)
  BY <1>2 DEF BreakCycle, Free, BehindCycle
<1>4. \A n \in ready' : n \in remaining
  BY DEF BreakCycle, First
<1>5. Ordering'
  BY <1>1, <1>3, <1>4 DEF BreakCycle, Ordering, PInv
<1>6. Planned' /\ BrokenOnlyByCycles'
  BY <1>1 DEF BreakCycle, PInv, Planned, Numbered, BrokenOnlyByCycles
<1> QED
  BY <1>5, <1>6 DEF PInv, BreakCycle

LEMMA PlaceKeeps ==
  ASSUME PInv, Place
  PROVE  PInv'
<1>1. Kept' = Kept /\ (\A n : Normalized(n)' = Normalized(n)) /\ (\A n : BehindCycle(n)' <=> BehindCycle(n))
  BY DraftsFixed DEF Place
<1>2. PICK p \in ready : /\ ordered' = Append(ordered, p)
                         /\ remaining' = remaining \ {p}
                         /\ ready' = ready \ {p}
  BY DEF Place
<1>3. /\ ordered \in Seq(Kept) /\ p \in remaining /\ p \in Kept
      /\ \A m \in DOMAIN ordered : ordered[m] # p
  BY DEF PInv, Ordering
<1>4. /\ Len(ordered) \in Nat /\ DOMAIN ordered = 1 .. Len(ordered)
      /\ DOMAIN ordered' = 1 .. Len(ordered) + 1
      /\ \A m \in DOMAIN ordered : ordered'[m] = ordered[m]
      /\ ordered'[Len(ordered) + 1] = p
      /\ ordered' \in Seq(Kept)
  BY <1>2, <1>3
<1>5. \A n \in Kept \ remaining' : \E m \in DOMAIN ordered' : ordered'[m] = n
  BY <1>2, <1>3, <1>4 DEF PInv, Ordering
<1>6. \A m \in DOMAIN ordered' : ordered'[m] \notin remaining'
  BY <1>2, <1>3, <1>4 DEF PInv, Ordering
<1>7. \A m, n \in DOMAIN ordered' : ordered'[m] = ordered'[n] => m = n
  BY <1>3, <1>4 DEF PInv, Ordering
<1>8. \A n \in ready' : Free(n)' \/ BehindCycle(n)'
  BY <1>1, <1>2 DEF PInv, Ordering, Free
<1>9. ready' \subseteq remaining' /\ remaining' \subseteq Kept'
  BY <1>1, <1>2 DEF PInv, Ordering
<1>10. Ordering'
  BY <1>1, <1>4, <1>5, <1>6, <1>7, <1>8, <1>9 DEF Ordering
<1>11. Planned'
  BY <1>2, <1>3 DEF PInv, Planned, Place
<1>12. BrokenOnlyByCycles'
  <2> SUFFICES ASSUME NEW n \in DOMAIN ordered', NEW d \in Normalized(ordered'[n])
               PROVE  (\E m \in 1 .. n - 1 : ordered'[m] = d) \/ BehindCycle(ordered'[n])
    BY <1>1 DEF BrokenOnlyByCycles
  <2>1. CASE n \in DOMAIN ordered
    <3>1. (\E m \in 1 .. n - 1 : ordered[m] = d) \/ BehindCycle(ordered[n])
      BY <2>1, <1>4 DEF PInv, BrokenOnlyByCycles
    <3> QED
      BY <2>1, <3>1, <1>4
  <2>2. CASE n = Len(ordered) + 1
    <3>1. CASE BehindCycle(p)
      BY <3>1, <2>2, <1>4
    <3>2. CASE Free(p)
      <4>1. d \in Kept /\ d \notin remaining
        BY <3>2, <2>2, <1>4 DEF Free, Normalized
      <4>2. PICK m \in DOMAIN ordered : ordered[m] = d
        BY <4>1 DEF PInv, Ordering
      <4> QED
        BY <4>2, <2>2, <1>4
    <3> QED
      BY <3>1, <3>2 DEF PInv, Ordering
  <2> QED
    BY <2>1, <2>2, <1>4
<1> QED
  BY <1>10, <1>11, <1>12 DEF PInv, Place

LEMMA CreatePlanKeeps ==
  ASSUME PInv, CreatePlan
  PROVE  PInv'
<1>1. Kept' = Kept /\ (\A n : Normalized(n)' = Normalized(n)) /\ (\A n : BehindCycle(n)' <=> BehindCycle(n))
  BY DraftsFixed DEF CreatePlan
<1>2. \A n : Numbered(n)' = Numbered(n)
  BY DEF CreatePlan, Numbered
<1>3. Ordering'
  BY <1>1 DEF CreatePlan, PInv, Ordering, Free
<1>4. Planned'
  BY <1>2 DEF CreatePlan, Planned
<1>5. BrokenOnlyByCycles'
  BY <1>1 DEF CreatePlan, PInv, BrokenOnlyByCycles
<1> QED
  BY <1>3, <1>4, <1>5 DEF PInv, CreatePlan

-----------------------------------------------------------------------------
\* The templates and the supplied steps are sequences of drafts.
LEMMA DraftsTyped == PlanningInit => drafts \in Seq(Draft)
<1>1. ASSUME NEW k \in TemplateKeys, NEW D \in SUBSET TemplateKeys PROVE Needed(k, D) \in Draft
  BY DEF Needed, Draft, Keys
<1>2. SimpleTask \in Seq(Draft)
  <2>1. Needed("simple-task", {}) \in Draft
    BY <1>1 DEF TemplateKeys
  <2> QED
    BY <2>1 DEF SimpleTask
<1>3. /\ Needed("confirm", {}) \in Draft
      /\ Needed("prepare", {"review"}) \in Draft
  BY <1>1 DEF TemplateKeys
<1>4. Chain \in Seq(Draft)
  <2>1. Needed("select", {"confirm"}) \in Draft /\ Needed("review", {"select"}) \in Draft
    BY <1>1 DEF TemplateKeys
  <2> QED
    BY <1>3, <2>1 DEF Chain
<1>5. ASSUME NEW p \in BOOLEAN, NEW d \in BOOLEAN PROVE Application(p, d) \in Seq(Draft)
  <2> DEFINE open == IF p THEN <<Needed("open-portal", {"confirm"})>> ELSE <<>>
             upload == IF d THEN <<Needed("upload-documents", {"collect-documents", "enter-information"})>>
                       ELSE <<>>
             review == {"enter-information"} \cup (IF d THEN {"upload-documents"} ELSE {})
             begin == <<Needed("confirm", {}), Needed("collect-documents", {"confirm"})>>
             enter == <<Needed("enter-information", {"confirm"})>>
             end == <<Needed("review", review), Needed("prepare", {"review"})>>
  <2>1. open \in Seq(Draft)
    <3>1. Needed("open-portal", {"confirm"}) \in Draft
      BY <1>1 DEF TemplateKeys
    <3> QED
      BY <3>1
  <2>2. upload \in Seq(Draft)
    <3>1. Needed("upload-documents", {"collect-documents", "enter-information"}) \in Draft
      BY <1>1 DEF TemplateKeys
    <3> QED
      BY <3>1
  <2>3. begin \in Seq(Draft)
    <3>1. Needed("collect-documents", {"confirm"}) \in Draft
      BY <1>1 DEF TemplateKeys
    <3> QED
      BY <1>3, <3>1
  <2>4. enter \in Seq(Draft)
    <3>1. Needed("enter-information", {"confirm"}) \in Draft
      BY <1>1 DEF TemplateKeys
    <3> QED
      BY <3>1
  <2>5. end \in Seq(Draft)
    <3>1. review \in SUBSET TemplateKeys
      BY DEF TemplateKeys
    <3>2. Needed("review", review) \in Draft
      BY <1>1, <3>1 DEF TemplateKeys
    <3> QED
      BY <1>3, <3>2
  <2>6. Application(p, d) = begin \o open \o enter \o upload \o end
    BY DEF Application
  <2> HIDE DEF begin, open, enter, upload, end
  <2> QED
    BY <2>1, <2>2, <2>3, <2>4, <2>5, <2>6
<1>6. ASSUME NEW steps \in Supplied PROVE Explicit(steps) \in Seq(Draft)
  <2>1. /\ steps \in Seq(AvailableStep) /\ Custom \in Seq(StepIds)
        /\ Len(steps) \in Nat /\ Len(Custom) \in Nat /\ Len(steps) <= Len(Custom)
    BY SuppliedAssumption, CustomAssumption
  <2>2. ASSUME NEW n \in 1 .. Len(steps) PROVE Explicit(steps)[n] \in Draft
    <3>1. Custom[n] \in StepIds /\ steps[n] \in AvailableStep
      BY <2>1
    <3>2. DOMAIN steps = 1 .. Len(steps)
      BY <2>1
    <3> QED
      BY <3>1, <3>2 DEF Explicit, Draft, AvailableStep, Keys
  <2>3. DOMAIN steps = 1 .. Len(steps) /\ DOMAIN Explicit(steps) = 1 .. Len(steps)
    BY <2>1 DEF Explicit
  <2>4. Explicit(steps) \in [1 .. Len(steps) -> Draft]
    BY <2>2, <2>3 DEF Explicit
  <2> QED
    BY <2>1, <2>4
<1> QED
  BY <1>2, <1>4, <1>5, <1>6 DEF PlanningInit, Derived

LEMMA PlanningInitHolds == Init => PInv
<1>1. CASE PlanningInit
  <2>1. drafts \in Seq(Draft)
    BY <1>1, DraftsTyped
  <2>2. Ordering /\ Planned /\ BrokenOnlyByCycles
    BY <1>1 DEF PlanningInit, Ordering, Planned, BrokenOnlyByCycles
  <2> QED
    BY <2>1, <2>2 DEF PInv
<1>2. CASE drafts = <<>> /\ remaining = {} /\ ready = {} /\ ordered = <<>> /\ plan = <<>>
  BY <1>2 DEF PInv, Ordering, Planned, BrokenOnlyByCycles, Kept
<1> QED
  BY <1>1, <1>2 DEF Init

LEMMA PlanningSame ==
  ASSUME PInv, UNCHANGED planning
  PROVE  PInv'
<1>1. UNCHANGED <<drafts, remaining, ready, ordered, plan>>
  BY DEF planning
<1>2. Kept' = Kept /\ (\A n : Normalized(n)' = Normalized(n)) /\ (\A n : BehindCycle(n)' <=> BehindCycle(n))
  BY <1>1, DraftsFixed
<1>3. \A n : Numbered(n)' = Numbered(n)
  BY <1>1 DEF Numbered
<1>4. Ordering'
  BY <1>1, <1>2 DEF PInv, Ordering, Free
<1>5. Planned' /\ BrokenOnlyByCycles'
  BY <1>1, <1>2, <1>3 DEF PInv, Planned, BrokenOnlyByCycles
<1> QED
  BY <1>1, <1>4, <1>5 DEF PInv

LEMMA PlanningKept == PInv /\ [Next]_vars => PInv'
<1> SUFFICES ASSUME PInv, [Next]_vars PROVE PInv'
  OBVIOUS
<1>1. CASE PlanningNext
  BY <1>1, RoundKeeps, BreakCycleKeeps, PlaceKeeps, CreatePlanKeeps DEF PlanningNext
<1>2. CASE ~PlanningNext
  <2>1. UNCHANGED planning
    BY <1>2 DEF Next, Prioritize, AskToday, Refuse, vars
  <2> QED
    BY <2>1, PlanningSame
<1> QED
  BY <1>1, <1>2

LEMMA PlanningAlways == Spec => []PInv
  BY PlanningInitHolds, PlanningKept, PTL DEF Spec

\* Whatever steps are supplied, however many, and with whatever cycles: only cycles, and what is
\* behind them, are ordered against their dependencies.
THEOREM CyclesAlone == Spec => []BrokenOnlyByCycles
<1>1. PInv => BrokenOnlyByCycles
  BY DEF PInv
<1> QED
  BY <1>1, PlanningAlways, PTL

\* Of the steps with one key there is a last one: it is the one that is kept.
LEMMA LastOfItsKey ==
  ASSUME PInv, NEW d \in DOMAIN drafts
  PROVE  \E n \in Kept : drafts[n].key = drafts[d].key
<1> DEFINE S == {m \in DOMAIN drafts : drafts[m].key = drafts[d].key}
<1>1. Len(drafts) \in Nat /\ DOMAIN drafts = 1 .. Len(drafts)
  BY DEF PInv
<1>2. S \in SUBSET (0 .. Len(drafts)) /\ S # {}
  BY <1>1
<1>3. PICK n \in S : \A m \in S : m <= n
  BY <1>1, <1>2, Greatest
<1> QED
  BY <1>3 DEF Kept

\* Every plan has one step for each different key.
THEOREM NoStepLost == Spec => []EveryStepPlanned
<1>1. ASSUME PInv PROVE EveryStepPlanned
  <2>1. ASSUME NEW m \in DOMAIN ordered, NEW n \in DOMAIN ordered,
               drafts[ordered[m]].key = drafts[ordered[n]].key
        PROVE  m = n
    <3>1. ordered[m] \in Kept /\ ordered[n] \in Kept
      BY <1>1 DEF PInv, Ordering
    <3>2. ordered[m] \in Nat /\ ordered[n] \in Nat
      BY <1>1, <3>1 DEF PInv, Kept
    <3>3. ordered[m] = ordered[n]
      BY <2>1, <3>1, <3>2 DEF Kept
    <3> QED
      BY <1>1, <3>3 DEF PInv, Ordering
  <2>2. ASSUME plan # <<>>, NEW d \in DOMAIN drafts
        PROVE  \E n \in DOMAIN plan : drafts[ordered[n]].key = drafts[d].key
    <3>1. PICK k \in Kept : drafts[k].key = drafts[d].key
      BY <1>1, LastOfItsKey
    <3>2. remaining = {} /\ DOMAIN plan = DOMAIN ordered
      BY <1>1, <2>2 DEF PInv, Planned
    <3>3. PICK n \in DOMAIN ordered : ordered[n] = k
      BY <1>1, <3>1, <3>2 DEF PInv, Ordering
    <3> QED
      BY <3>1, <3>2, <3>3
  <2> QED
    BY <2>1, <2>2 DEF EveryStepPlanned
<1> QED
  BY <1>1, PlanningAlways, PTL

-----------------------------------------------------------------------------
\* One more level of a plan.
Level(k, fewer) ==
  IF k = 0 THEN {n \in Kept : Normalized(n) = {}} ELSE {n \in Kept : Normalized(n) \subseteq fewer}

\* Up to each k there is a function that grows level by level: the first k for which there were
\* none would be one more than a k for which there is.
LEMMA LevelsExist ==
  ASSUME NEW N \in Nat
  PROVE  \E f : f = [k \in 0 .. N |-> IF k = 0 THEN {n \in Kept : Normalized(n) = {}}
                                      ELSE {n \in Kept : Normalized(n) \subseteq f[k - 1]}]
<1> DEFINE Grows(f, b) == f = [k \in 0 .. b |-> Level(k, f[k - 1])]
           Bad == {b \in Nat : ~ \E f : Grows(f, b)}
<1>1. Bad = {}
  <2> SUFFICES ASSUME Bad # {} PROVE FALSE
    OBVIOUS
  <2>1. PICK b \in Bad : \A c \in Bad : b <= c
    <3>1. Bad \in SUBSET Nat
      OBVIOUS
    <3> HIDE DEF Bad
    <3> QED
      BY <3>1, Least
  <2>2. b \in Nat /\ ~ \E f : Grows(f, b)
    OBVIOUS
  <2>3. CASE b = 0
    <3> DEFINE g == [k \in 0 .. 0 |-> Level(0, {})]
    <3>1. g = [k \in 0 .. 0 |-> Level(k, g[k - 1])]
      BY DEF Level
    <3> HIDE DEF g
    <3> QED
      BY <2>2, <2>3, <3>1
  <2>4. CASE b # 0
    <3>1. b - 1 \in Nat /\ b - 1 \notin Bad
      <4>1. b - 1 \in Nat /\ ~(b <= b - 1)
        BY <2>2, <2>4
      <4> HIDE DEF Bad
      <4> QED
        BY <2>1, <4>1
    <3>2. PICK f : Grows(f, b - 1)
      BY <3>1
    <3>3. \A k \in 0 .. b - 1 : f[k] = Level(k, f[k - 1])
      BY <3>2
    <3> DEFINE g == [k \in 0 .. b |-> IF k = b THEN Level(b, f[b - 1]) ELSE f[k]]
    <3>4. ASSUME NEW k \in 0 .. b PROVE g[k] = Level(k, g[k - 1])
      <4>1. CASE k = b
        <5>1. b - 1 \in 0 .. b /\ b - 1 # b
          BY <2>2, <3>1
        <5>2. g[b - 1] = f[b - 1] /\ g[b] = Level(b, f[b - 1])
          BY <2>2, <5>1
        <5> QED
          BY <4>1, <5>2
      <4>2. CASE k # b /\ k # 0
        <5>1. k \in 0 .. b - 1 /\ k - 1 \in 0 .. b /\ k - 1 # b
          BY <2>2, <4>2
        <5>2. g[k] = f[k] /\ g[k - 1] = f[k - 1]
          BY <4>2, <5>1
        <5> QED
          BY <3>3, <5>1, <5>2
      <4>3. CASE k # b /\ k = 0
        <5>1. k \in 0 .. b - 1
          BY <2>2, <4>3
        <5>2. g[k] = f[k]
          BY <4>3
        <5>3. f[k] = Level(k, f[k - 1])
          BY <3>3, <5>1
        <5> QED
          BY <4>3, <5>2, <5>3 DEF Level
      <4> QED
        BY <4>1, <4>2, <4>3
    <3>5. g = [k \in 0 .. b |-> Level(k, g[k - 1])]
      <4>1. g = [k \in 0 .. b |-> g[k]]
        OBVIOUS
      <4> HIDE DEF g
      <4> QED
        BY <3>4, <4>1
    <3> HIDE DEF g
    <3> QED
      BY <2>2, <3>5
  <2> QED
    BY <2>3, <2>4
<1>2. PICK f : Grows(f, N)
  BY <1>1
<1>3. f = [k \in 0 .. N |-> IF k = 0 THEN {n \in Kept : Normalized(n) = {}}
                            ELSE {n \in Kept : Normalized(n) \subseteq f[k - 1]}]
  BY <1>2 DEF Level
<1> QED
  BY <1>3

LEMMA WithinGrows ==
  ASSUME drafts \in Seq(Draft)
  PROVE  /\ Within[0] = {n \in Kept : Normalized(n) = {}}
         /\ \A k \in 1 .. Len(drafts) : Within[k] = {n \in Kept : Normalized(n) \subseteq Within[k - 1]}
<1> DEFINE N == Len(drafts)
<1>1. N \in Nat
  OBVIOUS
<1>2. \E f : f = [k \in 0 .. N |-> IF k = 0 THEN {n \in Kept : Normalized(n) = {}}
                                   ELSE {n \in Kept : Normalized(n) \subseteq f[k - 1]}]
  <2> HIDE DEF N
  <2> QED
    BY <1>1, LevelsExist
<1>3. Within = [k \in 0 .. N |-> IF k = 0 THEN {n \in Kept : Normalized(n) = {}}
                                 ELSE {n \in Kept : Normalized(n) \subseteq Within[k - 1]}]
  BY <1>2 DEF Within
<1> HIDE DEF N
<1>4. 0 \in 0 .. N /\ \A k \in 1 .. N : k \in 0 .. N /\ k # 0
  BY <1>1
<1> QED
  BY <1>3, <1>4 DEF N

LEMMA WithinFixed == ASSUME UNCHANGED drafts PROVE Within' = Within
  BY DEF Within, Kept, Normalized

\* The levels grow.
LEMMA WithinAscends ==
  ASSUME drafts \in Seq(Draft), NEW j \in 0 .. Len(drafts), NEW k \in 0 .. Len(drafts), j <= k
  PROVE  Within[j] \subseteq Within[k]
<1> DEFINE N == Len(drafts)
           Grown(i) == Within[i] \subseteq Within[i + 1]
           Bad == {i \in 0 .. N : i + 1 <= N /\ ~Grown(i)}
           Worse == {i \in 0 .. N : j <= i /\ ~(Within[j] \subseteq Within[i])}
<1>1. N \in Nat
  OBVIOUS
<1>2. /\ Within[0] = {n \in Kept : Normalized(n) = {}}
      /\ \A i \in 1 .. N : Within[i] = {n \in Kept : Normalized(n) \subseteq Within[i - 1]}
  BY WithinGrows
<1>3. Bad = {}
  <2> SUFFICES ASSUME Bad # {} PROVE FALSE
    OBVIOUS
  <2>1. PICK i \in Bad : \A c \in Bad : i <= c
    <3>1. Bad \in SUBSET Nat
      OBVIOUS
    <3> HIDE DEF Bad
    <3> QED
      BY <3>1, Least
  <2>2. i \in 0 .. N /\ i + 1 <= N /\ ~Grown(i) /\ i + 1 \in 1 .. N
    BY <1>1
  <2>3. Within[i + 1] = {n \in Kept : Normalized(n) \subseteq Within[i]}
    <3>1. i + 1 - 1 = i
      BY <2>2
    <3> HIDE DEF N
    <3> QED
      BY <1>2, <2>2, <3>1
  <2>4. CASE i = 0
    BY <1>2, <2>2, <2>3, <2>4
  <2>5. CASE i # 0
    <3>1. i - 1 \in 0 .. N /\ i - 1 + 1 = i /\ i - 1 + 1 <= N /\ ~(i <= i - 1) /\ i \in 1 .. N
      BY <1>1, <2>2, <2>5
    <3>2. i - 1 \notin Bad
      <4> HIDE DEF Bad
      <4> QED
        BY <2>1, <3>1
    <3>3. Within[i - 1] \subseteq Within[i]
      <4>1. Grown(i - 1)
        <5> HIDE DEF N, Grown
        <5> QED
          BY <3>1, <3>2
      <4> QED
        BY <3>1, <4>1
    <3>4. Within[i] = {n \in Kept : Normalized(n) \subseteq Within[i - 1]}
      BY <1>2, <3>1
    <3> QED
      BY <2>2, <2>3, <3>3, <3>4
  <2> QED
    BY <2>4, <2>5
<1>4. Worse = {}
  <2> SUFFICES ASSUME Worse # {} PROVE FALSE
    OBVIOUS
  <2>1. PICK i \in Worse : \A c \in Worse : i <= c
    <3>1. Worse \in SUBSET Nat
      OBVIOUS
    <3> HIDE DEF Worse
    <3> QED
      BY <3>1, Least
  <2>2. i \in 0 .. N /\ j <= i /\ ~(Within[j] \subseteq Within[i]) /\ j \in Nat /\ i \in Nat
    BY <1>1
  <2>3. i # j
    BY <2>2
  <2>4. i - 1 \in 0 .. N /\ j <= i - 1 /\ ~(i <= i - 1) /\ i - 1 + 1 = i /\ i - 1 + 1 <= N
    BY <1>1, <2>2, <2>3
  <2>5. Within[j] \subseteq Within[i - 1]
    <3>1. i - 1 \notin Worse
      <4> HIDE DEF Worse
      <4> QED
        BY <2>1, <2>4
    <3> HIDE DEF N
    <3> QED
      BY <2>4, <3>1
  <2>6. Within[i - 1] \subseteq Within[i]
    <3>1. Grown(i - 1)
      <4> HIDE DEF N, Grown
      <4> QED
        BY <1>3, <2>4
    <3> QED
      BY <2>4, <3>1
  <2> QED
    BY <2>2, <2>5, <2>6
<1> QED
  BY <1>4

\* Without cycles each round of _order_drafts is a level of the plan: after a round k is begun,
\* what is ordered and what it has yet to order make up Within[k], and all of the levels before
\* are ordered.  As each round orders something, there are no more rounds than drafts.
Acyclic == \A n \in Kept : ~BehindCycle(n)

\* The levels that a step is not in yet; of two steps, the one with fewer comes sooner.
Deep(n) == {k \in 0 .. Len(drafts) : n \notin Within[k]}

Sooner(a, b) ==
  \/ Deep(a) \subseteq Deep(b) /\ Deep(a) # Deep(b)
  \/ Deep(a) = Deep(b) /\ a < b

Placed == {ordered[m] : m \in DOMAIN ordered}

AtLevel(k) ==
  /\ Placed \cup ready = Within[k]
  /\ k > 0 => Within[k - 1] \subseteq Placed
  /\ k <= Len(ordered)
  /\ ready = {} => k < Len(ordered)

Levelled ==
  Acyclic =>
    /\ \/ ordered = <<>> /\ ready = {}
       \/ \E k \in 0 .. Len(drafts) : AtLevel(k)
    /\ \A m, n \in DOMAIN ordered : m < n => Sooner(ordered[m], ordered[n])
    /\ \A m \in DOMAIN ordered, n \in remaining : Sooner(ordered[m], n)

LEMMA LevelsFixed ==
  ASSUME UNCHANGED drafts
  PROVE  /\ Within' = Within /\ (Acyclic' <=> Acyclic) /\ Kept' = Kept
         /\ \A n : Deep(n)' = Deep(n)
         /\ \A a, b : Sooner(a, b)' <=> Sooner(a, b)
<1>1. Within' = Within
  BY WithinFixed
<1>2. Acyclic' <=> Acyclic
  BY DraftsFixed DEF Acyclic
<1>3. \A n : Deep(n)' = Deep(n)
  BY <1>1 DEF Deep
<1> QED
  BY <1>1, <1>2, <1>3, DraftsFixed DEF Sooner

\* What is not remaining has been placed, and no more can be than there are drafts.
LEMMA PlacedRest ==
  ASSUME PInv
  PROVE  /\ Kept \ remaining = Placed /\ Placed \subseteq Kept /\ remaining \subseteq Kept
         /\ Len(ordered) \in Nat /\ DOMAIN ordered = 1 .. Len(ordered)
         /\ Len(ordered) <= Len(drafts) /\ Len(drafts) \in Nat
         /\ Kept \subseteq Nat
<1>1. /\ ordered \in Seq(Kept) /\ drafts \in Seq(Draft) /\ remaining \subseteq Kept
      /\ \A n \in Kept \ remaining : \E m \in DOMAIN ordered : ordered[m] = n
      /\ \A m \in DOMAIN ordered : ordered[m] \notin remaining
      /\ \A m, n \in DOMAIN ordered : ordered[m] = ordered[n] => m = n
  BY DEF PInv, Ordering
<1>2. /\ Len(ordered) \in Nat /\ DOMAIN ordered = 1 .. Len(ordered)
      /\ \A m \in DOMAIN ordered : ordered[m] \in Kept
      /\ Len(drafts) \in Nat /\ DOMAIN drafts = 1 .. Len(drafts)
  BY <1>1
<1>3. Kept \subseteq 1 .. Len(drafts)
  BY <1>2 DEF Kept
<1>4. Kept \ remaining = Placed /\ Placed \subseteq Kept
  BY <1>1, <1>2 DEF Placed
<1>5. Len(ordered) <= Len(drafts)
  <2> DEFINE S == 1 .. Len(ordered)
             T == 1 .. Len(drafts)
  <2>1. ordered \in [S -> T]
    <3>1. ordered \in [S -> Kept]
      BY <1>1, <1>2
    <3> HIDE DEF S, T
    <3> QED
      BY <1>3, <3>1 DEF T
  <2>2. ordered \in Injection(S, T)
    BY <1>1, <1>2, <2>1 DEF Injection, IsInjective
  <2>3. /\ IsFiniteSet(T) /\ Cardinality(T) = Len(drafts) /\ Cardinality(S) = Len(ordered)
    <3>1. 1 \in Int /\ Len(ordered) \in Int /\ Len(drafts) \in Int
      BY <1>2
    <3>2. /\ IsFiniteSet(T) /\ Cardinality(T) = IF 1 > Len(drafts) THEN 0 ELSE Len(drafts) - 1 + 1
          /\ Cardinality(S) = IF 1 > Len(ordered) THEN 0 ELSE Len(ordered) - 1 + 1
      BY <3>1, FS_Interval
    <3> HIDE DEF S, T
    <3> QED
      BY <1>2, <3>2
  <2> HIDE DEF S, T
  <2> QED
    BY <2>2, <2>3, FS_Injection
<1> QED
  BY <1>1, <1>2, <1>3, <1>4, <1>5

\* A new round takes the next level.
LEMMA RoundLevels ==
  ASSUME PInv, Levelled, Round
  PROVE  Levelled'
<1>1. /\ Within' = Within /\ (Acyclic' <=> Acyclic) /\ Kept' = Kept
      /\ \A a, b : Sooner(a, b)' <=> Sooner(a, b)
  BY LevelsFixed DEF Round
<1>2. /\ UNCHANGED <<drafts, ordered, remaining>> /\ Placed' = Placed
      /\ ready = {} /\ ready' = {n \in remaining : Free(n)} /\ ready' # {}
  BY DEF Round, Placed
<1>3. /\ Kept \ remaining = Placed /\ Placed \subseteq Kept /\ remaining \subseteq Kept
      /\ Len(ordered) \in Nat /\ Len(ordered) <= Len(drafts) /\ Len(drafts) \in Nat
  BY PlacedRest
<1>4. drafts \in Seq(Draft)
  BY DEF PInv
<1> SUFFICES ASSUME Acyclic
             PROVE  /\ \E k \in 0 .. Len(drafts) : AtLevel(k)'
                    /\ \A m, n \in DOMAIN ordered : m < n => Sooner(ordered[m], ordered[n])
                    /\ \A m \in DOMAIN ordered, n \in remaining : Sooner(ordered[m], n)
  BY <1>1, <1>2 DEF Levelled
<1>5. \A n \in Kept : Normalized(n) \subseteq Kept
  BY DEF Normalized
<1>6. CASE ordered = <<>>
  <2>1. Placed = {} /\ remaining = Kept
    <3>1. Placed = {}
      BY <1>6 DEF Placed
    <3> QED
      BY <1>3, <3>1
  <2>2. ready' = {n \in Kept : Normalized(n) = {}}
    BY <1>2, <1>5, <2>1 DEF Free
  <2>3. Within[0] = ready'
    BY <1>4, <2>2, WithinGrows
  <2>4. AtLevel(0)'
    BY <1>1, <1>2, <1>3, <2>1, <2>3 DEF AtLevel
  <2> QED
    BY <1>3, <2>4 DEF Levelled
<1>7. CASE ordered # <<>>
  <2>1. PICK k \in 0 .. Len(drafts) : AtLevel(k)
    BY <1>7 DEF Levelled
  <2>2. /\ Placed = Within[k] /\ k < Len(ordered) /\ k \in Nat
        /\ k + 1 \in 1 .. Len(drafts) /\ k + 1 - 1 = k /\ k + 1 > 0 /\ k + 1 <= Len(ordered)
    BY <1>2, <1>3, <2>1 DEF AtLevel
  <2>3. Within[k + 1] = {n \in Kept : Normalized(n) \subseteq Within[k]}
    BY <1>4, <2>2, WithinGrows
  <2>4. Within[k] \subseteq Within[k + 1]
    <3>1. k + 1 \in 0 .. Len(drafts) /\ k <= k + 1
      BY <2>2
    <3> QED
      BY <1>4, <2>1, <3>1, WithinAscends
  <2>5. \A n \in Kept : Free(n) <=> Normalized(n) \subseteq Placed
    BY <1>3, <1>5 DEF Free
  <2>6. Placed \cup ready' = Within[k + 1]
    BY <1>2, <1>3, <2>2, <2>3, <2>4, <2>5
  <2>7. AtLevel(k + 1)'
    BY <1>1, <1>2, <2>2, <2>6 DEF AtLevel
  <2>8. k + 1 \in 0 .. Len(drafts)
    BY <2>2
  <2> QED
    BY <2>7, <2>8 DEF Levelled
<1> QED
  BY <1>6, <1>7

\* Without cycles the fallback is never taken.
LEMMA BreakCycleNeedsOne ==
  ASSUME PInv, BreakCycle
  PROVE  ~Acyclic
<1>1. remaining \in SUBSET Kept
  BY DEF PInv, Ordering
<1>2. PICK n \in remaining : First(n, remaining)
  BY DEF BreakCycle
<1>3. BehindCycle(n)
  BY <1>1, <1>2 DEF BreakCycle, Free, BehindCycle
<1> QED
  BY <1>1, <1>3 DEF Acyclic

LEMMA BreakCycleLevels ==
  ASSUME PInv, BreakCycle
  PROVE  Levelled'
<1>1. ~Acyclic'
  BY BreakCycleNeedsOne, LevelsFixed DEF BreakCycle
<1> QED
  BY <1>1 DEF Levelled

\* The first step of a round comes sooner than whatever remains.
LEMMA PlacedSooner ==
  ASSUME PInv, NEW k \in 0 .. Len(drafts), AtLevel(k), NEW p \in ready, First(p, ready),
         NEW n \in remaining, n # p
  PROVE  Sooner(p, n)
<1>1. /\ Kept \ remaining = Placed /\ remaining \subseteq Kept /\ Kept \subseteq Nat
      /\ Len(drafts) \in Nat
  BY PlacedRest
<1>2. ready \subseteq remaining /\ drafts \in Seq(Draft)
  BY DEF PInv, Ordering
<1>3. p \notin Placed /\ n \notin Placed /\ p \in Nat /\ n \in Nat
  BY <1>1, <1>2
<1>4. \A i \in 0 .. Len(drafts) : i < k => Within[i] \subseteq Placed
  <2> SUFFICES ASSUME NEW i \in 0 .. Len(drafts), i < k PROVE Within[i] \subseteq Placed
    OBVIOUS
  <2>1. k - 1 \in 0 .. Len(drafts) /\ i <= k - 1 /\ k > 0
    BY <1>1
  <2>2. Within[i] \subseteq Within[k - 1]
    BY <1>2, <2>1, WithinAscends
  <2> QED
    BY <2>1, <2>2 DEF AtLevel
<1>5. \A i \in 0 .. Len(drafts) : ~(i < k) => Within[k] \subseteq Within[i]
  <2> SUFFICES ASSUME NEW i \in 0 .. Len(drafts), ~(i < k) PROVE Within[k] \subseteq Within[i]
    OBVIOUS
  <2>1. k <= i
    BY <1>1
  <2> QED
    BY <1>2, <2>1, WithinAscends
<1>6. ASSUME NEW q \in ready PROVE Deep(q) = {i \in 0 .. Len(drafts) : i < k}
  <2>1. q \in Within[k] /\ q \notin Placed
    BY <1>1, <1>2 DEF AtLevel
  <2> QED
    BY <1>4, <1>5, <2>1 DEF Deep
<1>7. CASE n \in ready
  <2>1. p < n
    BY <1>3, <1>7 DEF First
  <2>2. Deep(p) = Deep(n)
    BY <1>6, <1>7
  <2> QED
    BY <2>1, <2>2 DEF Sooner
<1>8. CASE n \notin ready
  <2>1. n \notin Within[k]
    BY <1>3, <1>8 DEF AtLevel
  <2>2. k \in Deep(n) /\ k \notin Deep(p)
    BY <1>1, <1>6, <2>1 DEF Deep
  <2>3. \A i \in 0 .. Len(drafts) : i < k => i \in Deep(n)
    BY <1>3, <1>4 DEF Deep
  <2>4. Deep(p) \subseteq Deep(n)
    BY <1>6, <2>3
  <2> QED
    BY <2>2, <2>4 DEF Sooner
<1> QED
  BY <1>7, <1>8

LEMMA PlaceLevels ==
  ASSUME PInv, Levelled, Place
  PROVE  Levelled'
<1>1. UNCHANGED drafts
  BY DEF Place
<1>2. /\ Within' = Within /\ (Acyclic' <=> Acyclic)
      /\ \A a, b : Sooner(a, b)' <=> Sooner(a, b)
  BY <1>1, LevelsFixed
<1>3. PICK p \in ready : /\ First(p, ready)
                         /\ ordered' = Append(ordered, p)
                         /\ remaining' = remaining \ {p}
                         /\ ready' = ready \ {p}
  BY DEF Place
<1>4. /\ Len(ordered) \in Nat /\ DOMAIN ordered = 1 .. Len(ordered) /\ Len(drafts) \in Nat
  BY PlacedRest
<1>5. ordered \in Seq(Kept) /\ ready \subseteq remaining /\ p \in Kept
  BY DEF PInv, Ordering
<1>6. /\ Len(ordered') = Len(ordered) + 1
      /\ DOMAIN ordered' = 1 .. Len(ordered) + 1
      /\ \A m \in DOMAIN ordered : ordered'[m] = ordered[m]
      /\ ordered'[Len(ordered) + 1] = p
  BY <1>3, <1>4, <1>5
<1>7. Placed' = Placed \cup {p}
  <2>1. Placed' = {ordered'[m] : m \in DOMAIN ordered'}
    BY DEF Placed
  <2>2. \A m \in DOMAIN ordered' : m \in DOMAIN ordered \/ m = Len(ordered) + 1
    BY <1>4, <1>6
  <2>3. \A m \in DOMAIN ordered : m \in DOMAIN ordered'
    BY <1>4, <1>6
  <2>4. Len(ordered) + 1 \in DOMAIN ordered'
    BY <1>4, <1>6
  <2> QED
    BY <1>6, <2>1, <2>2, <2>3, <2>4 DEF Placed
<1> SUFFICES ASSUME Acyclic
             PROVE  /\ \E k \in 0 .. Len(drafts) : AtLevel(k)'
                    /\ \A m, n \in DOMAIN ordered' : m < n => Sooner(ordered'[m], ordered'[n])
                    /\ \A m \in DOMAIN ordered', n \in remaining' : Sooner(ordered'[m], n)
  BY <1>1, <1>2 DEF Levelled
<1>8. PICK k \in 0 .. Len(drafts) : AtLevel(k)
  BY <1>3 DEF Levelled
<1>9. AtLevel(k)'
  <2>1. Placed' \cup ready' = Within[k]
    BY <1>3, <1>7, <1>8 DEF AtLevel
  <2>2. k > 0 => Within[k - 1] \subseteq Placed'
    BY <1>7, <1>8 DEF AtLevel
  <2>3. k <= Len(ordered') /\ k < Len(ordered')
    BY <1>4, <1>6, <1>8 DEF AtLevel
  <2> QED
    BY <1>2, <2>1, <2>2, <2>3 DEF AtLevel
<1>10. \A n \in remaining' : Sooner(p, n)
  BY <1>3, <1>8, PlacedSooner
<1>11. \A m \in DOMAIN ordered : Sooner(ordered[m], p)
  BY <1>5 DEF Levelled
<1>12. ASSUME NEW m \in DOMAIN ordered', NEW n \in DOMAIN ordered', m < n
       PROVE  Sooner(ordered'[m], ordered'[n])
  <2>1. m \in DOMAIN ordered /\ (n \in DOMAIN ordered \/ n = Len(ordered) + 1)
    BY <1>4, <1>6, <1>12
  <2> QED
    BY <1>6, <1>11, <1>12, <2>1 DEF Levelled
<1>13. ASSUME NEW m \in DOMAIN ordered', NEW n \in remaining' PROVE Sooner(ordered'[m], n)
  <2>1. m \in DOMAIN ordered \/ m = Len(ordered) + 1
    BY <1>4, <1>6
  <2>2. n \in remaining
    BY <1>3
  <2> QED
    BY <1>6, <1>10, <2>1, <2>2 DEF Levelled
<1> QED
  BY <1>8, <1>9, <1>12, <1>13

LEMMA StillLevels ==
  ASSUME Levelled, UNCHANGED <<drafts, remaining, ready, ordered>>
  PROVE  Levelled'
<1>1. /\ Within' = Within /\ (Acyclic' <=> Acyclic)
      /\ \A a, b : Sooner(a, b)' <=> Sooner(a, b)
  BY LevelsFixed
<1>2. \A k : AtLevel(k)' <=> AtLevel(k)
  BY <1>1 DEF AtLevel, Placed
<1> QED
  BY <1>1, <1>2 DEF Levelled

LEMMA LevelsInit == Init => Levelled
<1>1. Init => ordered = <<>> /\ ready = {}
  BY DEF Init, PlanningInit
<1> QED
  BY <1>1 DEF Levelled

LEMMA LevelsKept == PInv /\ Levelled /\ [Next]_vars => Levelled'
<1> SUFFICES ASSUME PInv, Levelled, [Next]_vars PROVE Levelled'
  OBVIOUS
<1>1. CASE Round
  BY <1>1, RoundLevels
<1>2. CASE BreakCycle
  BY <1>2, BreakCycleLevels
<1>3. CASE Place
  BY <1>3, PlaceLevels
<1>4. CASE ~Round /\ ~BreakCycle /\ ~Place
  <2>1. UNCHANGED <<drafts, remaining, ready, ordered>>
    BY <1>4 DEF Next, PlanningNext, CreatePlan, Prioritize, AskToday, Refuse, vars, planning
  <2> QED
    BY <2>1, StillLevels
<1> QED
  BY <1>1, <1>2, <1>3, <1>4

\* However many steps are supplied and whatever they depend on: without cycles the rounds of
\* _order_drafts sort the plan by how many steps each has in line before it, and then by the order
\* of the request.
THEOREM RoundsAreLevels == Spec => []SortedByDepth
<1>1. PInv /\ Levelled => SortedByDepth
  <2> SUFFICES ASSUME PInv, Levelled, Acyclic
               PROVE  LET depth == [n \in Kept |-> {k \in 0 .. Len(drafts) : n \notin Within[k]}]
                      IN  \A m, n \in DOMAIN ordered : m < n =>
                            \/ /\ depth[ordered[m]] \subseteq depth[ordered[n]]
                               /\ depth[ordered[m]] # depth[ordered[n]]
                            \/ depth[ordered[m]] = depth[ordered[n]] /\ ordered[m] < ordered[n]
    BY DEF SortedByDepth, Acyclic
  <2> DEFINE depth == [n \in Kept |-> {k \in 0 .. Len(drafts) : n \notin Within[k]}]
  <2>1. \A m \in DOMAIN ordered : ordered[m] \in Kept
    BY DEF PInv, Ordering
  <2>2. \A m \in DOMAIN ordered : depth[ordered[m]] = Deep(ordered[m])
    BY <2>1 DEF Deep
  <2>3. \A m, n \in DOMAIN ordered : m < n => Sooner(ordered[m], ordered[n])
    BY DEF Levelled
  <2> HIDE DEF depth
  <2>4. \A m, n \in DOMAIN ordered : m < n =>
          \/ depth[ordered[m]] \subseteq depth[ordered[n]] /\ depth[ordered[m]] # depth[ordered[n]]
          \/ depth[ordered[m]] = depth[ordered[n]] /\ ordered[m] < ordered[n]
    BY <2>2, <2>3 DEF Sooner
  <2> QED
    BY <2>4 DEF depth
<1> QED
  BY <1>1, LevelsInit, LevelsKept, PlanningAlways, PTL DEF Spec

-----------------------------------------------------------------------------
\* What the today engine keeps.  NotOutranked is what taking the best of the
\* ready tasks amounts to: a listed task is not outranked by one that could have been listed.
Has(s, n, i) == \E m \in 1 .. n : s[m] = i

InOrder == \A n \in DOMAIN listed : \A d \in Awaited(listed[n]) : Has(listed, n - 1, d)

NotOutranked ==
  \A n \in DOMAIN listed : \A j \in selected :
    ~Has(listed, n - 1, j) /\ (\A d \in Awaited(j) : Has(listed, n - 1, d)) =>
      ~Before(request, j, listed[n])

Listing ==
  /\ DependenciesOfSelected \subseteq selected
  /\ listed \in Seq(selected)
  /\ \A m, n \in DOMAIN listed : listed[m] = listed[n] => m = n
  /\ waits = [i \in selected |-> {d \in Awaited(i) : ~Has(listed, Len(listed), d)}]
  /\ frontier = {i \in selected : ~Has(listed, Len(listed), i) /\ waits[i] = {}}
  /\ InOrder
  /\ NotOutranked

TInv ==
  /\ phase \in Phases
  /\ phase \in {"idle", "refused"} => selected = {}
  /\ phase \in {"idle", "refused", "select"} => listed = <<>>
  /\ phase \in {"select", "order", "done"} => Valid(request)
  /\ phase \in {"order", "done"} => Listing
  /\ phase = "done" => frontier = {}
  /\ selected \subseteq Ids(request)
  /\ SelectionJustified

LEMMA ReceiveEstablishes ==
  ASSUME NEW r, Valid(r), Receive(r), listed = <<>>
  PROVE  TInv'
<1>1. phase' = "select" /\ request' = r /\ selected' = {i \in Ids(r) : Relevant(r, i)} /\ listed' = <<>>
  BY DEF Receive
<1>2. Valid(request)'
  BY <1>1 DEF Valid, Ids
<1>3. SelectionJustified'
  BY <1>1 DEF SelectionJustified, Relevant, Open
<1> QED
  BY <1>1, <1>2, <1>3 DEF TInv, Phases, Ids

LEMMA ExtendKeeps ==
  ASSUME TInv, Extend
  PROVE  TInv'
<1>1. phase = "select" /\ UNCHANGED <<phase, request, waits, frontier, listed>>
  BY DEF Extend
<1>2. selected' = selected \cup DependenciesOfSelected
  BY DEF Extend
<1>3. Valid(request)
  BY <1>1 DEF TInv
<1>4. \A d \in DependenciesOfSelected :
        d \in Ids(request) /\ Open(request, d) /\ \E i \in selected : d \in tasks[i].depends_on
  BY <1>3 DEF DependenciesOfSelected, OpenDependencies, Valid, TInv, Ids, tasks
<1>5. SelectionJustified'
  BY <1>1, <1>2, <1>4 DEF TInv, SelectionJustified, Relevant, Overdue, OpenDependencies, Open, Ids, tasks
<1>6. Valid(request)'
  BY <1>1, <1>3 DEF Valid, Ids
<1>7. (selected \subseteq Ids(request))'
  BY <1>1, <1>2, <1>4 DEF TInv, Ids
<1> QED
  BY <1>1, <1>5, <1>6, <1>7 DEF TInv

LEMMA ArrangeEstablishes ==
  ASSUME TInv, Arrange
  PROVE  TInv'
<1>1. /\ phase = "select" /\ phase' = "order" /\ UNCHANGED <<request, selected>>
      /\ DependenciesOfSelected \subseteq selected
      /\ waits' = [i \in selected |-> Awaited(i)]
      /\ frontier' = {i \in selected : Awaited(i) = {}}
      /\ listed' = <<>>
  BY DEF Arrange
<1>2. Valid(request)' /\ SelectionJustified' /\ (selected \subseteq Ids(request))'
  BY <1>1 DEF TInv, Valid, Ids, SelectionJustified, Relevant, Overdue, OpenDependencies, Open, tasks
<1>3. Len(listed') = 0 /\ DOMAIN listed' = {} /\ listed' \in Seq(selected')
  BY <1>1
<1>4. \A i : ~Has(listed', 0, i)
  BY DEF Has
<1>5. \A i : Awaited(i)' = Awaited(i)
  BY <1>1 DEF Awaited, tasks
<1>6. DependenciesOfSelected' = DependenciesOfSelected
  BY <1>1 DEF DependenciesOfSelected, OpenDependencies, Open
<1>7. (waits = [i \in selected |-> {d \in Awaited(i) : ~Has(listed, Len(listed), d)}])'
  BY <1>1, <1>3, <1>4, <1>5
<1>8. (frontier = {i \in selected : ~Has(listed, Len(listed), i) /\ waits[i] = {}})'
  BY <1>1, <1>3, <1>4, <1>5
<1>9. Listing'
  BY <1>1, <1>3, <1>6, <1>7, <1>8 DEF Listing, InOrder, NotOutranked
<1> QED
  BY <1>1, <1>2, <1>9 DEF TInv, Phases

LEMMA ListNextKeeps ==
  ASSUME TInv, ListNext
  PROVE  TInv'
<1> PICK k : k = Len(listed)
  OBVIOUS
<1>1. /\ phase = "order" /\ UNCHANGED <<phase, request, selected>>
      /\ Listing /\ Valid(request)
  BY DEF TInv, ListNext
<1>2. PICK i \in frontier :
        /\ Best(i)
        /\ listed' = Append(listed, i)
        /\ waits' = [j \in selected |-> waits[j] \ {i}]
        /\ frontier' = (frontier \ {i}) \cup Freed(i)
  BY DEF ListNext
<1>3. Valid(request)' /\ SelectionJustified' /\ (selected \subseteq Ids(request))'
  BY <1>1 DEF TInv, Valid, Ids, SelectionJustified, Relevant, Overdue, OpenDependencies, Open, tasks
<1>4. /\ i \in selected /\ ~Has(listed, k, i) /\ waits[i] = {}
      /\ \A j \in selected : waits[j] = {d \in Awaited(j) : ~Has(listed, k, d)}
  BY <1>1 DEF Listing
<1>5. /\ k \in Nat /\ DOMAIN listed = 1 .. k /\ DOMAIN listed' = 1 .. k + 1 /\ Len(listed') = k + 1
      /\ \A m \in 1 .. k : listed'[m] = listed[m]
      /\ listed'[k + 1] = i
      /\ listed' \in Seq(selected')
  BY <1>1, <1>2, <1>4 DEF Listing
<1>6. \A j : Awaited(j)' = Awaited(j)
  BY <1>1 DEF Awaited, tasks
<1>7. DependenciesOfSelected' \subseteq selected'
  BY <1>1 DEF Listing, DependenciesOfSelected, OpenDependencies, Open
<1>8. \A j, n : n \in 0 .. k => (Has(listed', n, j) <=> Has(listed, n, j))
  BY <1>5 DEF Has
<1>9. \A j : Has(listed', k + 1, j) <=> Has(listed, k, j) \/ j = i
  BY <1>5 DEF Has
<1>10. \A m, n \in DOMAIN listed' : listed'[m] = listed'[n] => m = n
  <2>1. \A m \in 1 .. k : listed[m] # i
    BY <1>4 DEF Has
  <2> QED
    BY <1>1, <1>5, <2>1 DEF Listing
<1>11. (waits = [j \in selected |-> {d \in Awaited(j) : ~Has(listed, Len(listed), d)}])'
  <2>1. \A j \in selected : waits[j] \ {i} = {d \in Awaited(j) : ~Has(listed', k + 1, d)}
    BY <1>4, <1>9
  <2> QED
    BY <1>1, <1>2, <1>5, <1>6, <2>1
<1>12. \A n \in 1 .. k : \A d \in Awaited(listed[n]) : Has(listed, n - 1, d)
  BY <1>1, <1>5 DEF Listing, InOrder
<1>13. (frontier = {j \in selected : ~Has(listed, Len(listed), j) /\ waits[j] = {}})'
  <2>1. frontier = {j \in selected : ~Has(listed, k, j) /\ waits[j] = {}}
    BY <1>1 DEF Listing
  <2>2. ASSUME NEW j \in Freed(i) PROVE j \in selected /\ ~Has(listed', k + 1, j) /\ waits'[j] = {}
    <3>1. j \in selected /\ i \in waits[j] /\ waits[j] \ {i} = {}
      BY DEF Freed
    <3>2. ~Has(listed, k, j)
      <4>1. SUFFICES ASSUME Has(listed, k, j) PROVE FALSE
        OBVIOUS
      <4>2. PICK n \in 1 .. k : listed[n] = j
        BY <4>1 DEF Has
      <4>3. i \in Awaited(listed[n])
        BY <1>4, <3>1, <4>2
      <4>4. Has(listed, n - 1, i)
        BY <1>12, <4>3
      <4>5. Has(listed, k, i)
        BY <1>5, <4>2, <4>4 DEF Has
      <4> QED
        BY <1>4, <4>5
    <3>3. j # i
      BY <1>4, <3>1
    <3> QED
      BY <1>2, <1>9, <3>1, <3>2, <3>3
  <2>3. ASSUME NEW j \in frontier, j # i PROVE j \in selected /\ ~Has(listed', k + 1, j) /\ waits'[j] = {}
    BY <1>2, <1>9, <2>1, <2>3
  <2>4. ASSUME NEW j \in selected, ~Has(listed', k + 1, j), waits'[j] = {} PROVE j \in frontier'
    <3>1. ~Has(listed, k, j) /\ j # i /\ waits[j] \ {i} = {}
      BY <1>2, <1>9, <2>4
    <3>2. waits[j] = {} \/ i \in waits[j]
      BY <3>1
    <3> QED
      BY <1>2, <2>1, <3>1, <3>2 DEF Freed
  <2>5. \A j : j \in frontier' <=> j \in selected /\ ~Has(listed', k + 1, j) /\ waits'[j] = {}
    BY <1>2, <2>2, <2>3, <2>4
  <2> QED
    BY <1>1, <1>5, <2>5
<1>14. InOrder'
  <2> SUFFICES ASSUME NEW n \in 1 .. k + 1, NEW d \in Awaited(listed'[n])
               PROVE  Has(listed', n - 1, d)
    BY <1>1, <1>5 DEF InOrder, Awaited, tasks
  <2>1. CASE n \in 1 .. k
    <3>1. Has(listed, n - 1, d)
      BY <1>5, <1>12, <2>1
    <3> QED
      BY <1>5, <1>8, <2>1, <3>1
  <2>2. CASE n = k + 1
    <3>1. Has(listed, k, d)
      BY <1>4, <1>5, <2>2
    <3> QED
      BY <1>5, <1>8, <2>2, <3>1
  <2> QED
    BY <1>5, <2>1, <2>2
<1>15. NotOutranked'
  <2> SUFFICES ASSUME NEW n \in 1 .. k + 1, NEW j \in selected,
                      ~Has(listed', n - 1, j), \A d \in Awaited(j) : Has(listed', n - 1, d)
               PROVE  ~Before(request, j, listed'[n])
    BY <1>1, <1>5 DEF NotOutranked, Awaited, tasks
  <2>1. n - 1 \in 0 .. k
    BY <1>5
  <2>2. ~Has(listed, n - 1, j) /\ \A d \in Awaited(j) : Has(listed, n - 1, d)
    BY <1>8, <2>1
  <2>3. CASE n \in 1 .. k
    BY <1>1, <1>5, <2>2, <2>3 DEF Listing, NotOutranked
  <2>4. CASE n = k + 1
    <3>1. ~Has(listed, k, j) /\ \A d \in Awaited(j) : Has(listed, k, d)
      BY <1>5, <2>2, <2>4
    <3>2. j \in frontier
      <4>1. waits[j] = {}
        BY <1>4, <3>1
      <4> QED
        BY <1>1, <3>1, <4>1 DEF Listing
    <3> QED
      BY <1>2, <1>5, <2>4, <3>2 DEF Best
  <2> QED
    BY <1>5, <2>3, <2>4
<1>16. Listing'
  BY <1>5, <1>7, <1>10, <1>11, <1>13, <1>14, <1>15 DEF Listing
<1> QED
  BY <1>1, <1>3, <1>16 DEF TInv

LEMMA AnswerKeeps ==
  ASSUME TInv, Answer
  PROVE  TInv'
<1>1. /\ phase = "order" /\ phase' = "done" /\ frontier = {}
      /\ UNCHANGED <<request, selected, waits, frontier, listed>>
      /\ Listing /\ Valid(request)
  BY DEF TInv, Answer
<1>2. Valid(request)' /\ SelectionJustified' /\ (selected \subseteq Ids(request))'
  BY <1>1 DEF TInv, Valid, Ids, SelectionJustified, Relevant, Overdue, OpenDependencies, Open, tasks
<1>3. InOrder' /\ NotOutranked'
  BY <1>1 DEF Listing, InOrder, NotOutranked, Awaited, tasks
<1>4. Listing'
  BY <1>1, <1>3 DEF Listing, DependenciesOfSelected, OpenDependencies, Open, Awaited, tasks
<1> QED
  BY <1>1, <1>2, <1>4 DEF TInv, Phases

LEMMA TodaySame ==
  ASSUME TInv, UNCHANGED today
  PROVE  TInv'
<1>1. UNCHANGED <<phase, request, selected, waits, frontier, listed>>
  BY DEF today
<1>2. Valid(request) => Valid(request)'
  BY <1>1
<1>3. SelectionJustified' /\ (selected \subseteq Ids(request))'
  BY <1>1 DEF TInv, Ids, SelectionJustified, Relevant, Overdue, OpenDependencies, Open, tasks
<1>4. InOrder' = InOrder /\ NotOutranked' = NotOutranked
  BY <1>1 DEF InOrder, NotOutranked, Awaited, tasks
<1>5. Listing => Listing'
  BY <1>1, <1>4 DEF Listing, DependenciesOfSelected, OpenDependencies, Open, Awaited, tasks
<1> QED
  BY <1>1, <1>2, <1>3, <1>5 DEF TInv

LEMMA TodayInitHolds == Init => TInv
<1>1. CASE TodayIdle
  BY <1>1 DEF TodayIdle, TInv, SelectionJustified, Phases, Ids
<1>2. CASE /\ phase = "select" /\ Valid(request) /\ listed = <<>>
           /\ selected = {i \in Ids(request) : Relevant(request, i)}
  BY <1>2 DEF TInv, SelectionJustified, Relevant, Phases
<1> QED
  BY <1>1, <1>2 DEF Init

LEMMA TodayKept == TInv /\ [Next]_vars => TInv'
<1> SUFFICES ASSUME TInv, [Next]_vars PROVE TInv'
  OBVIOUS
<1>1. CASE TodayNext
  BY <1>1, ExtendKeeps, ArrangeEstablishes, ListNextKeeps, AnswerKeeps DEF TodayNext
<1>2. CASE AskToday
  <2>1. PICK r : Valid(r) /\ Receive(r)
    BY <1>2 DEF AskToday
  <2>2. listed = <<>>
    BY <1>2 DEF AskToday, TInv
  <2> QED
    BY <2>1, <2>2, ReceiveEstablishes
<1>3. CASE Refuse
  <2>1. phase = "idle" /\ phase' = "refused" /\ UNCHANGED <<request, selected, waits, frontier, listed>>
    BY <1>3 DEF Refuse
  <2>2. selected' = {} /\ listed' = <<>>
    BY <2>1 DEF TInv
  <2> QED
    BY <2>1, <2>2 DEF TInv, SelectionJustified, Phases
<1>4. CASE UNCHANGED today
  BY <1>4, TodaySame
<1>5. CASE PlanningNext /\ UNCHANGED <<today, priorities>>
  BY <1>4, <1>5
<1>6. CASE Prioritize
  BY <1>4, <1>6 DEF Prioritize
<1> QED
  BY <1>1, <1>2, <1>3, <1>4, <1>5, <1>6 DEF Next, vars

LEMMA TodayAlways == Spec => []TInv
  BY TodayInitHolds, TodayKept, PTL DEF Spec

\* Only in the phases "order" and "done" is anything listed.
LEMMA ListedIsListing == TInv /\ listed # <<>> => Listing /\ Valid(request)
  BY DEF TInv, Phases

\* In a day of any number of tasks no task comes before an open one it depends on, and none
\* comes twice.
THEOREM DependenciesFirst == Spec => []DependenciesListedFirst
<1>1. ASSUME TInv PROVE DependenciesListedFirst
  <2>1. CASE listed = <<>>
    BY <2>1 DEF DependenciesListedFirst
  <2>2. CASE listed # <<>>
    <3>1. Listing
      BY <1>1, <2>2, ListedIsListing
    <3>2. ASSUME NEW n \in DOMAIN listed, NEW d \in OpenDependencies(request, listed[n])
          PROVE  \E m \in 1 .. n - 1 : listed[m] = d
      <4>1. listed[n] \in selected
        BY <3>1 DEF Listing
      <4>2. d \in selected
        BY <3>1, <4>1 DEF Listing, DependenciesOfSelected
      <4>3. d \in Awaited(listed[n])
        BY <4>2 DEF Awaited, OpenDependencies, tasks
      <4> QED
        BY <3>1, <4>3 DEF Listing, InOrder, Has
    <3>3. \A m, n \in DOMAIN listed : listed[m] = listed[n] => m = n
      BY <3>1 DEF Listing
    <3> QED
      BY <3>2, <3>3 DEF DependenciesListedFirst
  <2> QED
    BY <2>1, <2>2
<1> QED
  BY <1>1, TodayAlways, PTL

\* As the request has no cycle, a task is ready while any is not listed: the loop lists them all.
THEOREM AllListed == Spec => []NoneLeftOver
<1>1. ASSUME TInv PROVE NoneLeftOver
  <2> SUFFICES ASSUME phase = "done", NEW j \in selected, ~Has(listed, Len(listed), j)
               PROVE  FALSE
    <3>1. phase = "done" => DOMAIN listed = 1 .. Len(listed)
      BY <1>1 DEF TInv, Listing
    <3> QED
      BY <3>1 DEF NoneLeftOver, Has
  <2>1. Listing /\ Valid(request) /\ frontier = {} /\ selected \subseteq Ids(request)
    BY <1>1 DEF TInv
  <2> DEFINE left == {i \in selected : ~Has(listed, Len(listed), i)}
  <2>2. left \in SUBSET Ids(request) /\ left # {}
    BY <2>1
  <2>3. PICK i \in left : tasks[i].depends_on \cap left = {}
    BY <2>1, <2>2 DEF Valid, tasks
  <2>4. waits[i] = {d \in Awaited(i) : ~Has(listed, Len(listed), d)}
    BY <2>1 DEF Listing
  <2>5. waits[i] = {}
    BY <2>3, <2>4 DEF Awaited
  <2> QED
    BY <2>1, <2>5 DEF Listing
<1> QED
  BY <1>1, TodayAlways, PTL

\* A better-ranked task is listed later only on account of its dependencies.
THEOREM RankYields == Spec => []RankYieldsToDependencies
<1>1. ASSUME TInv PROVE RankYieldsToDependencies
  <2> SUFFICES ASSUME NEW m \in DOMAIN listed, NEW n \in DOMAIN listed, m < n,
                      Before(request, listed[n], listed[m])
               PROVE  \E k \in m .. n - 1 : listed[k] \in tasks[listed[n]].depends_on
    BY DEF RankYieldsToDependencies
  <2>1. Listing
    BY <1>1, ListedIsListing
  <2>2. listed \in Seq(selected) /\ m \in Nat /\ n \in 1 .. Len(listed) /\ listed[n] \in selected
    BY <2>1 DEF Listing
  <2>3. ~Has(listed, m - 1, listed[n])
    <3>1. ASSUME NEW k \in 1 .. m - 1 PROVE listed[k] # listed[n]
      <4>1. k \in DOMAIN listed /\ k # n
        BY <2>2
      <4> QED
        BY <2>1, <4>1 DEF Listing
    <3> QED
      BY <3>1 DEF Has
  <2>4. PICK d \in Awaited(listed[n]) : ~Has(listed, m - 1, d)
    BY <2>1, <2>2, <2>3 DEF Listing, NotOutranked
  <2>5. PICK k \in 1 .. n - 1 : listed[k] = d
    BY <2>1, <2>4 DEF Listing, InOrder, Has
  <2>6. k >= m
    BY <2>2, <2>4, <2>5 DEF Has
  <2> QED
    BY <2>2, <2>4, <2>5, <2>6 DEF Awaited
<1> QED
  BY <1>1, TodayAlways, PTL

\* next_task is the first actionable task of the list.
THEOREM NextIsFirst == Spec => []NextComesFirst
<1>1. ASSUME TInv PROVE NextComesFirst
  <2> SUFFICES ASSUME NEW n \in DOMAIN listed, \A m \in 1 .. n - 1 : listed[m] \notin Actionable,
                      NEW i \in Actionable
               PROVE  ~Before(request, i, listed[n])
    BY DEF NextComesFirst
  <2>1. Listing /\ Valid(request) /\ selected \subseteq Ids(request) /\ SelectionJustified
    BY <1>1, ListedIsListing DEF TInv
  <2>2. i \in selected /\ OpenDependencies(request, i) = {}
    BY <2>1 DEF Actionable, Blocked, SelectionJustified
  <2>3. Awaited(i) = {}
    BY <2>1, <2>2 DEF Awaited, OpenDependencies, SelectionJustified, tasks
  <2>4. ~Has(listed, n - 1, i)
    BY DEF Has
  <2> QED
    BY <2>1, <2>2, <2>3, <2>4 DEF Listing, NotOutranked
<1> QED
  BY <1>1, TodayAlways, PTL

\* Nothing is selected without a reason.
THEOREM Justified == Spec => []SelectionJustified
<1>1. TInv => SelectionJustified
  BY DEF TInv
<1> QED
  BY <1>1, TodayAlways, PTL

-----------------------------------------------------------------------------
\* How the three engines hang together.
Link ==
  /\ phase # "idle" /\ plan = <<>> => ordered = <<>> /\ remaining = {} /\ ready = {}
  /\ priorities # <<>> =>
       /\ plan # <<>> /\ Prioritizable
       /\ DOMAIN priorities = DOMAIN plan
       /\ \A n \in DOMAIN plan :
            /\ priorities[n].required = plan[n].required
            /\ priorities[n].blocked = (plan[n].depends_on # {})
            /\ priorities[n].depends_on = plan[n].depends_on
            /\ ~priorities[n].completed /\ priorities[n].deadline = None
            /\ ~priorities[n].is_today /\ priorities[n].scheduled = None
  /\ plan # <<>> /\ phase \notin {"idle", "refused"} => priorities # <<>> /\ tasks = priorities
  /\ phase = "refused" =>
       /\ plan # <<>>
       /\ ~Prioritizable \/ (priorities # <<>> /\ {d \in Days : Valid(d)} = {})

LEMMA LinkInit == Init => Link
  BY DEF Init, PlanningInit, TodayIdle, Link

LEMMA LinkPlanning ==
  ASSUME Link, PlanningNext, UNCHANGED <<today, priorities>>
  PROVE  Link'
<1>1. UNCHANGED <<phase, request, priorities>>
  BY DEF today
<1>2. CASE Round \/ BreakCycle \/ Place
  <2>1. plan' = plan
    BY <1>2 DEF Round, BreakCycle, Place
  <2>2. phase # "idle" /\ plan = <<>> => FALSE
    BY <1>2 DEF Link, Round, BreakCycle, Place
  <2> QED
    BY <1>1, <2>1, <2>2 DEF Link, Prioritizable, Days, tasks
<1>3. CASE CreatePlan
  <2>1. plan = <<>> /\ phase = "idle" /\ priorities = <<>>
    BY <1>3 DEF Link, CreatePlan
  <2> QED
    BY <1>1, <2>1 DEF Link
<1> QED
  BY <1>2, <1>3 DEF PlanningNext

LEMMA LinkKept == Link /\ [Next]_vars => Link'
<1> SUFFICES ASSUME Link, [Next]_vars PROVE Link'
  OBVIOUS
<1>1. CASE PlanningNext /\ UNCHANGED <<today, priorities>>
  BY <1>1, LinkPlanning
<1>2. CASE Prioritize
  <2>1. phase = "idle" /\ plan # <<>> /\ Prioritizable /\ UNCHANGED <<plan, phase>>
    BY <1>2 DEF Prioritize, planning, today
  <2>2. priorities' # <<>> => Prioritizable'
    BY <2>1 DEF Prioritizable
  <2> QED
    BY <1>2, <2>1, <2>2 DEF Prioritize, Link
<1>3. CASE AskToday
  <2>1. PICK r \in Days : Receive(r)
    BY <1>3 DEF AskToday
  <2>2. phase' = "select" /\ tasks' = priorities /\ UNCHANGED <<plan, priorities>> /\ priorities # <<>>
    BY <1>3, <2>1 DEF AskToday, Receive, Days, planning, tasks
  <2>3. plan # <<>> /\ Prioritizable'
    BY <2>2 DEF Link, Prioritizable
  <2> QED
    BY <2>2, <2>3 DEF Link
<1>4. CASE Refuse
  <2>1. phase' = "refused" /\ plan # <<>> /\ UNCHANGED <<plan, priorities>>
        /\ (~Prioritizable \/ (priorities # <<>> /\ {d \in Days : Valid(d)} = {}))
    BY <1>4 DEF Refuse, planning
  <2>2. Prioritizable' = Prioritizable /\ Days' = Days
    BY <2>1 DEF Prioritizable, Days
  <2> QED
    BY <2>1, <2>2 DEF Link
<1>5. CASE TodayNext /\ UNCHANGED <<planning, priorities>>
  <2>1. UNCHANGED <<plan, priorities, ordered, remaining, ready, request>>
        /\ phase \notin {"idle", "refused"} /\ phase' \notin {"idle", "refused"}
    BY <1>5 DEF TodayNext, Extend, Arrange, ListNext, Answer, planning
  <2> QED
    BY <2>1 DEF Link, Prioritizable, tasks
<1>6. CASE UNCHANGED vars
  BY <1>6 DEF vars, planning, today, Link, Prioritizable, Days, tasks
<1> QED
  BY <1>1, <1>2, <1>3, <1>4, <1>5, <1>6 DEF Next

LEMMA LinkAlways == Spec => []Link
  BY LinkInit, LinkKept, PTL DEF Spec

\* A plan without cycles is a list in which all dependencies point back.
LEMMA AcyclicPointsBack ==
  ASSUME PInv, plan # <<>>,
         \A S \in SUBSET DOMAIN plan : S # {} => \E n \in S : plan[n].depends_on \cap S = {}
  PROVE  \A n \in DOMAIN plan : \A d \in plan[n].depends_on : d < n
<1>1. /\ ordered \in Seq(Kept) /\ DOMAIN plan = DOMAIN ordered
      /\ \A n \in DOMAIN plan : plan[n].depends_on = Numbered(n)
  BY DEF PInv, Ordering, Planned
<1>2. \A n \in DOMAIN ordered : n \in Nat /\ ordered[n] \in Kept
  BY <1>1
<1> SUFFICES ASSUME NEW n \in DOMAIN ordered, NEW d \in Numbered(n) PROVE d < n
  BY <1>1
<1>3. d \in DOMAIN ordered /\ d \in Nat /\ n \in Nat
  BY <1>2 DEF Numbered
<1>4. d # n
  <2>1. {n} \in SUBSET DOMAIN plan /\ {n} # {}
    BY <1>1
  <2>2. Numbered(n) \cap {n} = {}
    BY <1>1, <2>1
  <2> QED
    BY <2>2
<1>5. ordered[d] \in Normalized(ordered[n])
  <2>1. ordered[d] # ordered[n]
    BY <1>3, <1>4 DEF PInv, Ordering
  <2> QED
    BY <1>2, <1>3, <2>1 DEF Normalized, Numbered
<1>6. ~BehindCycle(ordered[n])
  <2> SUFFICES ASSUME NEW S \in SUBSET Kept, ordered[n] \in S, \A m \in S : Normalized(m) \cap S # {}
               PROVE  FALSE
    BY DEF BehindCycle
  <2> DEFINE T == {m \in DOMAIN ordered : ordered[m] \in S}
  <2>1. T \in SUBSET DOMAIN plan /\ T # {}
    BY <1>1
  <2>2. PICK m \in T : plan[m].depends_on \cap T = {}
    BY <2>1
  <2>3. PICK e \in Normalized(ordered[m]) : e \in S
    BY <2>2
  <2>4. e \in Kept /\ drafts[e].key \in drafts[ordered[m]].depends_on
    BY <2>3 DEF Normalized
  <2>5. PICK k \in DOMAIN ordered : ordered[k] = e
    BY <2>4 DEF PInv, Ordering, Planned
  <2>6. k \in Numbered(m) /\ k \in T
    BY <2>3, <2>4, <2>5 DEF Numbered
  <2> QED
    BY <1>1, <2>1, <2>2, <2>6
<1>7. PICK m \in 1 .. n - 1 : ordered[m] = ordered[d]
  BY <1>5, <1>6 DEF PInv, BrokenOnlyByCycles
<1>8. m = d
  <2>1. m \in DOMAIN ordered
    BY <1>1, <1>3
  <2> QED
    BY <1>3, <1>7, <2>1 DEF PInv, Ordering
<1> QED
  BY <1>3, <1>7, <1>8

\* Pointing back, in turn, excludes cycles: the least task of a set does not wait for the others.
LEMMA PointsBackValid ==
  ASSUME PInv, Link, priorities # <<>>,
         \A n \in DOMAIN plan : \A d \in plan[n].depends_on : d < n
  PROVE  {d \in Days : Valid(d)} # {}
<1>1. PICK t \in Times : TRUE
  BY TimesAssumption
<1>2. PICK z \in Zones : TRUE
  BY DayAssumption
<1> DEFINE r == [now |-> t, zone |-> z, tasks |-> priorities]
<1>3. r \in Days
  BY DEF Days
<1>4. /\ plan # <<>> /\ Ids(r) = DOMAIN plan
      /\ \A n \in DOMAIN plan : r.tasks[n].depends_on = plan[n].depends_on
  BY DEF Link, Ids
<1>5. DOMAIN plan \in SUBSET Nat /\ DOMAIN plan = DOMAIN ordered
      /\ \A n \in DOMAIN plan : plan[n].depends_on \subseteq DOMAIN plan
  BY <1>4 DEF PInv, Ordering, Planned, Numbered
<1>6. ASSUME NEW S \in SUBSET Ids(r), S # {} PROVE \E n \in S : r.tasks[n].depends_on \cap S = {}
  <2>1. PICK n \in S : \A m \in S : n <= m
    BY <1>4, <1>5, <1>6, Least
  <2>2. \A d \in plan[n].depends_on : d < n /\ d \in Nat /\ n \in Nat
    BY <1>4, <1>5
  <2>3. plan[n].depends_on \cap S = {}
    BY <2>1, <2>2
  <2> QED
    BY <1>4, <2>3
<1>7. Valid(r)
  BY <1>4, <1>5, <1>6 DEF Valid
<1> QED
  BY <1>3, <1>7

\* What M6's fallback makes of a cycle is refused by M7 or M8, and apart from repeated
\* dependencies nothing else is.
THEOREM OnlyCyclesRefused == Spec => []AcceptedPlansPointBack
<1>1. ASSUME PInv, TInv, Link PROVE AcceptedPlansPointBack
  <2> SUFFICES ASSUME plan # <<>>, phase # "idle"
               PROVE  phase # "refused" <=>
                        \A n \in DOMAIN plan : ~plan[n].repeated /\ \A d \in plan[n].depends_on : d < n
    BY DEF AcceptedPlansPointBack
  <2>1. CASE phase # "refused"
    <3>1. phase \in {"select", "order", "done"}
      BY <1>1, <2>1 DEF TInv, Phases
    <3>2. Valid(request) /\ priorities # <<>> /\ tasks = priorities
      BY <1>1, <3>1 DEF TInv, Link
    <3>3. Ids(request) = DOMAIN plan /\ \A n \in DOMAIN plan : request.tasks[n].depends_on = plan[n].depends_on
      BY <1>1, <3>2 DEF Link, tasks, Ids
    <3>4. \A S \in SUBSET DOMAIN plan : S # {} => \E n \in S : plan[n].depends_on \cap S = {}
      BY <3>2, <3>3 DEF Valid
    <3>5. \A n \in DOMAIN plan : \A d \in plan[n].depends_on : d < n
      BY <1>1, <3>4, AcyclicPointsBack
    <3> QED
      BY <1>1, <2>1, <3>2, <3>5 DEF Link, Prioritizable
  <2>2. CASE phase = "refused"
    <3> SUFFICES ASSUME \A n \in DOMAIN plan : ~plan[n].repeated /\ \A d \in plan[n].depends_on : d < n
                 PROVE  FALSE
      BY <2>2
    <3>1. Prioritizable
      <4>1. \A n \in DOMAIN plan : n \in Nat
        BY <1>1 DEF PInv, Ordering, Planned
      <4> QED
        BY <4>1 DEF Prioritizable
    <3> QED
      BY <1>1, <2>2, <3>1, PointsBackValid DEF Link
  <2> QED
    BY <2>1, <2>2
<1> QED
  BY <1>1, PlanningAlways, TodayAlways, LinkAlways, PTL

\* A task of a new plan is relevant if it is required and has no dependencies.
LEMMA RelevantOfPlan ==
  ASSUME PInv, Link, priorities # <<>>, NEW r \in Days, Valid(r), NEW i \in Ids(r)
  PROVE  /\ i \in DOMAIN plan
         /\ Relevant(r, i) <=> plan[i].required /\ plan[i].status = "ready"
         /\ OpenDependencies(r, i) = plan[i].depends_on
         /\ Blocked(r, i) <=> plan[i].status = "blocked"
<1>1. r.tasks = priorities /\ r.now \in Times
  BY DEF Days
<1>2. i \in DOMAIN plan /\ DOMAIN priorities = DOMAIN plan
  BY <1>1 DEF Ids, Link
<1>3. /\ r.tasks[i].required = plan[i].required
      /\ r.tasks[i].blocked = (plan[i].depends_on # {})
      /\ r.tasks[i].depends_on = plan[i].depends_on
      /\ r.tasks[i].deadline = None /\ ~r.tasks[i].is_today /\ r.tasks[i].scheduled = None
      /\ Open(r, i)
  BY <1>1, <1>2 DEF Link, Open
<1>4. OpenDependencies(r, i) = plan[i].depends_on
  <2>1. \A d \in r.tasks[i].depends_on : d \in Ids(r)
    BY DEF Valid
  <2>2. \A d \in Ids(r) : Open(r, d)
    BY <1>1, <1>2 DEF Ids, Open, Link
  <2> QED
    BY <1>3, <2>1, <2>2 DEF OpenDependencies
<1>5. /\ plan[i].status = "ready" <=> plan[i].depends_on = {}
      /\ plan[i].status = "blocked" <=> plan[i].depends_on # {}
  BY <1>2 DEF PInv, Planned, Link
<1>6. Date(r.now, 0) # None
  <2>1. Date(r.now, 0) \in Int
    <3>1. \A a \in Int, b \in Nat \ {0} : a \div b \in Int
      OBVIOUS
    <3>2. DayLength \in Nat \ {0}
      BY DayAssumption
    <3>3. PICK t \in Times : r.now = t
      BY <1>1
    <3>4. t + 0 \in Int
      BY TimesAssumption
    <3> QED
      BY <3>1, <3>2, <3>3, <3>4 DEF Date
  <2> QED
    BY <2>1, DayAssumption
<1>7. Relevant(r, i) <=> plan[i].required /\ plan[i].depends_on = {}
  BY <1>3, <1>4, <1>6 DEF Relevant, Overdue
<1> QED
  BY <1>2, <1>3, <1>4, <1>5, <1>7 DEF Blocked

LEMMA FreshKept ==
  ASSUME PInv, TInv, Link, FreshDayIsReady, [Next]_vars
  PROVE  FreshDayIsReady'
<1>1. CASE PlanningNext /\ UNCHANGED <<today, priorities>>
  <2>1. CASE plan # <<>> /\ phase \notin {"idle", "refused"}
    <3>1. Link'
      BY <1>1, LinkPlanning
    <3>2. ~CreatePlan
      BY <2>1 DEF CreatePlan
    <3>3. plan' = plan
      BY <1>1, <3>2 DEF PlanningNext, Round, BreakCycle, Place
    <3> QED
      BY <1>1, <2>1, <3>3 DEF FreshDayIsReady, Actionable, Blocked, OpenDependencies, Open, today
  <2>2. CASE plan = <<>> /\ phase \notin {"idle", "refused"}
    BY <1>1, <2>2 DEF PlanningNext, Round, BreakCycle, Place, CreatePlan, Link, FreshDayIsReady, today
  <2>3. CASE phase \in {"idle", "refused"}
    BY <1>1, <2>3 DEF FreshDayIsReady, today
  <2> QED
    BY <2>1, <2>2, <2>3
<1>2. CASE Prioritize
  BY <1>2 DEF Prioritize, today, FreshDayIsReady
<1>3. CASE AskToday
  <2>1. PICK r \in Days : Valid(r) /\ Receive(r)
    BY <1>3 DEF AskToday
  <2>2. /\ priorities # <<>> /\ UNCHANGED plan
        /\ request' = r /\ selected' = {i \in Ids(r) : Relevant(r, i)}
    BY <1>3, <2>1 DEF AskToday, Receive, planning
  <2>3. Ids(r) = DOMAIN plan
    BY <2>1, <2>2 DEF Days, Ids, Link
  <2>4. \A i \in DOMAIN plan :
          /\ Relevant(r, i) <=> plan[i].required /\ plan[i].status = "ready"
          /\ Blocked(r, i) <=> plan[i].status = "blocked"
    BY <2>1, <2>2, <2>3, RelevantOfPlan
  <2>5. selected' = {n \in DOMAIN plan : plan[n].required /\ plan[n].status = "ready"}
    BY <2>2, <2>3, <2>4
  <2>6. selected' \subseteq Actionable'
    BY <2>2, <2>4, <2>5 DEF Actionable
  <2> QED
    BY <2>2, <2>5, <2>6 DEF FreshDayIsReady
<1>4. CASE Refuse
  BY <1>4 DEF Refuse, FreshDayIsReady
<1>5. CASE TodayNext /\ UNCHANGED <<planning, priorities>>
  <2>1. UNCHANGED <<plan, request>> /\ phase \notin {"idle", "refused"}
    BY <1>5 DEF TodayNext, Extend, Arrange, ListNext, Answer, planning
  <2>2. CASE Extend
    <3>1. CASE plan # <<>>
      <4>1. \A i \in selected : OpenDependencies(request, i) = {}
        BY <2>1, <3>1 DEF FreshDayIsReady, Actionable, Blocked, Open, OpenDependencies, TInv, SelectionJustified
      <4> QED
        BY <2>2, <4>1 DEF Extend, DependenciesOfSelected
    <3>2. CASE plan = <<>>
      BY <2>1, <3>2 DEF FreshDayIsReady
    <3> QED
      BY <3>1, <3>2
  <2>3. CASE UNCHANGED selected
    BY <2>1, <2>3 DEF FreshDayIsReady, Actionable, Blocked, OpenDependencies, Open
  <2> QED
    BY <1>5, <2>2, <2>3 DEF TodayNext, Arrange, ListNext, Answer
<1>6. CASE UNCHANGED vars
  BY <1>6 DEF vars, planning, today, FreshDayIsReady, Actionable, Blocked, OpenDependencies, Open
<1> QED
  BY <1>1, <1>2, <1>3, <1>4, <1>5, <1>6 DEF Next

\* The day of a new plan: the required steps that the plan calls ready, for every plan.
THEOREM FreshDay == Spec => []FreshDayIsReady
<1>1. Init => FreshDayIsReady
  BY DEF Init, PlanningInit, TodayIdle, FreshDayIsReady
<1>2. PInv /\ TInv /\ Link /\ FreshDayIsReady /\ [Next]_vars => FreshDayIsReady'
  BY FreshKept
<1> QED
  BY <1>1, <1>2, PlanningAlways, TodayAlways, LinkAlways, PTL DEF Spec

-----------------------------------------------------------------------------
\* Types of what planning and today make of well-typed requests.
Shapes ==
  /\ phase \in {"idle", "select", "refused"} => frontier = {}
  /\ plan \in Seq(PlanStep)
  /\ priorities \in Seq(Task)
  /\ request.now \in Nat
  /\ \A i \in DOMAIN request.tasks : i \in Nat /\ request.tasks[i] \in Task

LEMMA ScoreIsNat == ASSUME plan \in Seq(PlanStep), NEW n \in DOMAIN plan PROVE Score(n) \in Nat
<1> DEFINE size(m) == Cardinality(Downstream(m))
<1>1. Len(plan) \in Nat /\ DOMAIN plan = 1 .. Len(plan)
  OBVIOUS
<1>2. ASSUME NEW m PROVE size(m) \in 0 .. Len(plan)
  <2>1. Downstream(m) \subseteq 1 .. Len(plan)
    BY <1>1 DEF Downstream
  <2>2. IsFiniteSet(1 .. Len(plan)) /\ Cardinality(1 .. Len(plan)) = Len(plan)
    <3>1. IsFiniteSet(1 .. Len(plan))
      BY <1>1, FS_Interval, 1 \in Int, Len(plan) \in Int
    <3>2. Cardinality(1 .. Len(plan)) = IF 1 > Len(plan) THEN 0 ELSE Len(plan) - 1 + 1
      BY <1>1, FS_Interval, 1 \in Int, Len(plan) \in Int
    <3> QED
      BY <1>1, <3>1, <3>2
  <2>3. IsFiniteSet(Downstream(m)) /\ Cardinality(Downstream(m)) <= Len(plan)
    BY <2>1, <2>2, FS_Subset
  <2>4. Cardinality(Downstream(m)) \in Nat
    BY <2>3, FS_CardinalityType
  <2> QED
    BY <1>1, <2>3, <2>4
<1> HIDE DEF size
<1>3. MostDownstream \in 0 .. Len(plan)
  <2> DEFINE P(k) == /\ \A m \in DOMAIN plan : size(m) <= k
                     /\ k = 0 \/ \E m \in DOMAIN plan : size(m) = k
  <2>1. \E k \in 0 .. Len(plan) : P(k)
    <3> DEFINE S == {size(m) : m \in DOMAIN plan}
    <3>1. S \subseteq 0 .. Len(plan) /\ S # {}
      BY <1>2
    <3> HIDE DEF S
    <3>2. PICK k \in S : \A l \in S : l <= k
      BY <1>1, <3>1, Greatest
    <3>3. (\E m \in DOMAIN plan : size(m) = k) /\ (\A m \in DOMAIN plan : size(m) <= k)
      BY <3>2 DEF S
    <3>4. k \in 0 .. Len(plan)
      BY <3>1
    <3> QED
      BY <3>3, <3>4
  <2>2. MostDownstream = CHOOSE k \in 0 .. Len(plan) : P(k)
    BY DEF MostDownstream, size
  <2> HIDE DEF P
  <2> QED
    BY <2>1, <2>2
<1>4. ASSUME MostDownstream # 0 PROVE (6000 * size(n)) \div MostDownstream \in Nat
  <2>1. \A a \in Nat, b \in Nat \ {0} : a \div b \in Nat
    OBVIOUS
  <2>2. 6000 * size(n) \in Nat
    BY <1>1, <1>2
  <2>3. MostDownstream \in Nat \ {0}
    BY <1>1, <1>3, <1>4
  <2> QED
    BY <2>1, <2>2, <2>3
<1> QED
  BY <1>4 DEF Score, size

LEMMA ShapesInit == Init => Shapes
<1> SUFFICES ASSUME Init PROVE Shapes
  OBVIOUS
<1>1. plan = <<>> /\ priorities = <<>>
  BY DEF Init, PlanningInit
<1>2. CASE TodayIdle
  BY <1>1, <1>2 DEF TodayIdle, Shapes
<1>3. CASE phase = "select" /\ request \in Requests /\ frontier = {}
  <2>1. request.now \in Nat /\ \A i \in DOMAIN request.tasks : i \in Nat /\ request.tasks[i] \in Task
    BY <1>3, RequestsAssumption
  <2> QED
    BY <1>1, <1>3, <2>1 DEF Shapes
<1> QED
  BY <1>2, <1>3 DEF Init

LEMMA ShapesKept ==
  ASSUME PInv, TInv, Link, Shapes, [Next]_vars
  PROVE  Shapes'
<1>1. CASE PlanningNext /\ UNCHANGED <<today, priorities>>
  <2>1. UNCHANGED <<phase, request, frontier, priorities>>
    BY <1>1 DEF today
  <2>2. plan' \in Seq(PlanStep)
    <3>1. CASE CreatePlan
      <4>1. /\ Len(ordered) \in Nat /\ DOMAIN ordered = 1 .. Len(ordered)
            /\ \A n \in DOMAIN ordered : drafts[ordered[n]] \in Draft
        BY DEF PInv, Ordering, Kept
      <4>2. \A n \in DOMAIN ordered : Numbered(n) \in SUBSET (Nat \ {0})
        BY <4>1 DEF Numbered
      <4>3. plan' \in [1 .. Len(ordered) -> PlanStep]
        BY <3>1, <4>1, <4>2 DEF CreatePlan, PlanStep, Draft
      <4> QED
        BY <4>1, <4>3
    <3>2. CASE ~CreatePlan
      BY <1>1, <3>2 DEF PlanningNext, Round, BreakCycle, Place, Shapes
    <3> QED
      BY <3>1, <3>2
  <2> QED
    BY <2>1, <2>2 DEF Shapes
<1>2. CASE Prioritize
  <2>1. UNCHANGED <<phase, request, frontier, plan>> /\ plan \in Seq(PlanStep)
    BY <1>2 DEF Prioritize, today, planning, Shapes
  <2>2. Len(plan) \in Nat /\ DOMAIN plan = 1 .. Len(plan)
    BY <2>1
  <2>3. ASSUME NEW n \in DOMAIN plan
        PROVE  /\ Score(n) \in Nat /\ plan[n].required \in BOOLEAN /\ n \in Nat
               /\ plan[n].depends_on \in SUBSET Nat /\ (plan[n].depends_on # {}) \in BOOLEAN
    <3>1. plan[n] \in PlanStep
      BY <2>1
    <3> QED
      BY <2>1, <2>2, <3>1, ScoreIsNat DEF PlanStep
  <2>4. priorities' \in [1 .. Len(plan) -> Task]
    BY <1>2, <2>2, <2>3 DEF Prioritize, Task
  <2>5. priorities' \in Seq(Task)
    BY <2>2, <2>4
  <2> QED
    BY <2>1, <2>5 DEF Shapes
<1>3. CASE AskToday
  <2>1. PICK r \in Days : Receive(r)
    BY <1>3 DEF AskToday
  <2>2. r.now \in Nat /\ r.tasks = priorities /\ request' = r
    BY <2>1, TimesAssumption DEF Days, Receive
  <2>3. UNCHANGED <<plan, priorities, frontier>> /\ phase = "idle"
    BY <1>3, <2>1 DEF AskToday, Receive, planning
  <2>4. \A i \in DOMAIN priorities : i \in Nat /\ priorities[i] \in Task
    BY DEF Shapes
  <2> QED
    BY <2>2, <2>3, <2>4 DEF Shapes
<1>4. CASE Refuse
  BY <1>4 DEF Refuse, planning, Shapes
<1>5. CASE TodayNext /\ UNCHANGED <<planning, priorities>>
  <2>1. UNCHANGED <<plan, priorities, request>>
    BY <1>5 DEF TodayNext, Extend, Arrange, ListNext, Answer, planning
  <2>2. phase' \in {"idle", "select", "refused"} => frontier' = {}
    BY <1>5 DEF TodayNext, Extend, Arrange, ListNext, Answer, Shapes
  <2> QED
    BY <2>1, <2>2 DEF Shapes
<1>6. CASE UNCHANGED vars
  BY <1>6 DEF vars, planning, today, Shapes
<1> QED
  BY <1>1, <1>2, <1>3, <1>4, <1>5, <1>6 DEF Next

\* Every variable of the three engines has its type in every state.
THEOREM TypeCorrect == Spec => []TypeOK
<1>1. Spec => []Shapes
  BY ShapesInit, ShapesKept, PlanningAlways, TodayAlways, LinkAlways, PTL DEF Spec
<1>2. PInv /\ TInv /\ Shapes => TypeOK
  <2> SUFFICES ASSUME PInv, TInv, Shapes PROVE TypeOK
    OBVIOUS
  <2>1. remaining \subseteq DOMAIN drafts /\ ready \subseteq remaining /\ ordered \in Seq(DOMAIN drafts)
    BY DEF PInv, Ordering, Kept
  <2>2. frontier \subseteq selected /\ listed \in Seq(selected)
    <3>1. CASE phase \in {"order", "done"}
      <4>1. Listing
        BY <3>1 DEF TInv
      <4>2. listed \in Seq(selected)
        BY <4>1 DEF Listing
      <4>3. frontier \subseteq selected
        BY <4>1, Zenon DEF Listing
      <4> QED
        BY <4>2, <4>3
    <3>2. CASE phase \in {"idle", "select", "refused"}
      <4>1. frontier = {} /\ listed = <<>>
        BY <3>2 DEF TInv, Shapes
      <4> QED
        BY <4>1
    <3>3. phase \in {"idle", "select", "order", "done", "refused"}
      BY DEF TInv, Phases
    <3> QED
      BY <3>1, <3>2, <3>3
  <2> QED
    BY <2>1, <2>2 DEF TypeOK, PInv, TInv, Shapes, Ids, tasks
<1> QED
  BY <1>1, <1>2, PlanningAlways, TodayAlways, PTL

-----------------------------------------------------------------------------
(* What is left of DueTodaySelected, which TodayZone.cfg refutes.          *)

\* Whatever _base_relevance calls relevant stays selected, and the zone of a request is a zone.
AllRelevant ==
  phase \in {"select", "order", "done"} =>
    /\ request.zone \in Zones
    /\ \A i \in Ids(request) : Relevant(request, i) => i \in selected

LEMMA AllRelevantInit == Init => AllRelevant
<1>1. CASE TodayIdle
  BY <1>1 DEF TodayIdle, AllRelevant
<1>2. CASE request \in Requests /\ selected = {i \in Ids(request) : Relevant(request, i)}
  BY <1>2, RequestsAssumption DEF AllRelevant
<1> QED
  BY <1>1, <1>2 DEF Init

LEMMA AllRelevantKept == AllRelevant /\ [Next]_vars => AllRelevant'
<1> SUFFICES ASSUME AllRelevant, [Next]_vars PROVE AllRelevant'
  OBVIOUS
<1>1. CASE AskToday
  <2>1. PICK r \in Days : Receive(r)
    BY <1>1 DEF AskToday
  <2>2. request' = r /\ r.zone \in Zones /\ selected' = {i \in Ids(r) : Relevant(r, i)}
    BY <2>1 DEF Days, Receive
  <2> QED
    BY <2>2 DEF AllRelevant
<1>2. CASE Refuse
  BY <1>2 DEF Refuse, AllRelevant
<1>3. CASE TodayNext
  <2>1. request' = request /\ selected \subseteq selected' /\ phase \in {"select", "order"}
    BY <1>3 DEF TodayNext, Extend, Arrange, ListNext, Answer
  <2> QED
    BY <2>1 DEF AllRelevant
<1>4. CASE UNCHANGED today
  BY <1>4 DEF today, AllRelevant
<1> QED
  BY <1>1, <1>2, <1>3, <1>4 DEF Next, Prioritize, vars

\* A task that is due on the date of the request and not selected is due on another date in UTC.
MissedByDateOnly ==
  phase \in {"select", "order", "done"} =>
    \A i \in Ids(request) : DueToday(request, i) /\ i \notin selected =>
      Date(tasks[i].deadline, 0) # Date(request.now, 0)

\* The dates alone make the engine miss tasks that are due today.
THEOREM OnlyDatesMiss == Spec => []MissedByDateOnly
<1>1. AllRelevant => MissedByDateOnly
  BY DEF AllRelevant, MissedByDateOnly, DueToday, Relevant, tasks
<1> QED
  BY <1>1, AllRelevantInit, AllRelevantKept, PTL DEF Spec

\* Users whose times are all in UTC find every task that is due today.
THEOREM DueTodayInUTC == ASSUME Zones = {0} PROVE Spec => []DueTodaySelected
<1>1. AllRelevant => DueTodaySelected
  BY DEF AllRelevant, DueTodaySelected, DueToday, Relevant
<1> QED
  BY <1>1, AllRelevantInit, AllRelevantKept, PTL DEF Spec

-----------------------------------------------------------------------------
(* Every step of the engines gets them further.                            *)

FiniteDay == IsFiniteSet(Ids(request)) /\ IsFiniteSet(remaining)

Stage ==
  IF phase = "select" THEN 3
  ELSE IF phase = "order" THEN 4
  ELSE IF phase \in {"done", "refused"} THEN 5
  ELSE IF priorities # <<>> THEN 2
  ELSE IF plan # <<>> THEN 1
  ELSE 0

\* What the loop of a stage has left to do: a step to order and the round it takes, a task that
\* could be selected, a task to list.
Left ==
  IF Stage = 0 THEN 2 * Cardinality(remaining) + (IF ready = {} THEN 1 ELSE 0)
  ELSE IF Stage = 3 THEN Cardinality(Ids(request) \ selected)
  ELSE IF Stage = 4 THEN Cardinality(selected \ {listed[n] : n \in DOMAIN listed})
  ELSE 0

FurtherStep == Stage' > Stage \/ (Stage' = Stage /\ Left' < Left)

LEMMA FiniteDayInit == Init => FiniteDay
<1> SUFFICES ASSUME Init PROVE FiniteDay
  OBVIOUS
<1>1. IsFiniteSet(remaining)
  <2>1. PInv
    BY PlanningInitHolds
  <2>2. remaining \subseteq 1 .. Len(drafts) /\ Len(drafts) \in Nat
    BY <2>1 DEF PInv, Ordering, Kept
  <2> QED
    BY <2>2, FS_Interval, FS_Subset, 1 \in Int, Len(drafts) \in Int
<1>2. IsFiniteSet(Ids(request))
  <2>1. CASE request.tasks = <<>>
    BY <2>1, FS_EmptySet DEF Ids
  <2>2. CASE request \in Requests
    BY <2>2, RequestsAssumption DEF Ids
  <2> QED
    BY <2>1, <2>2 DEF Init, TodayIdle
<1> QED
  BY <1>1, <1>2 DEF FiniteDay

LEMMA FiniteDayKept == PInv /\ Shapes /\ FiniteDay /\ [Next]_vars => FiniteDay'
<1> SUFFICES ASSUME PInv, Shapes, FiniteDay, [Next]_vars PROVE FiniteDay'
  OBVIOUS
<1>1. IsFiniteSet(remaining')
  <2>1. remaining' \subseteq remaining
    BY DEF Next, PlanningNext, Round, BreakCycle, Place, CreatePlan, Prioritize, AskToday, Refuse,
           vars, planning
  <2> QED
    BY <2>1, FS_Subset DEF FiniteDay
<1>2. IsFiniteSet(Ids(request'))
  <2>1. CASE request' = request
    BY <2>1 DEF FiniteDay
  <2>2. CASE AskToday
    <3>1. Ids(request') = DOMAIN priorities
      BY <2>2 DEF AskToday, Receive, Days, Ids
    <3>2. DOMAIN priorities = 1 .. Len(priorities) /\ Len(priorities) \in Nat
      BY DEF Shapes
    <3> QED
      BY <3>1, <3>2, FS_Interval, 1 \in Int, Len(priorities) \in Int
  <2> QED
    BY <2>1, <2>2 DEF Next, Prioritize, Refuse, TodayNext, Extend, Arrange, ListNext, Answer, vars,
                      today
<1> QED
  BY <1>1, <1>2 DEF FiniteDay

\* A finite set shrinks in size.
LEMMA Shrinks ==
  ASSUME NEW S, NEW T, IsFiniteSet(S), T \subseteq S, T # S
  PROVE  Cardinality(T) < Cardinality(S)
<1>1. /\ IsFiniteSet(T) /\ Cardinality(T) <= Cardinality(S)
      /\ Cardinality(S) = Cardinality(T) => S = T
  BY FS_Subset
<1>2. Cardinality(T) \in Nat /\ Cardinality(S) \in Nat
  BY <1>1, FS_CardinalityType
<1> QED
  BY <1>1, <1>2

LEMMA PlanningFurther ==
  ASSUME PInv, Link, FiniteDay, PlanningNext, UNCHANGED <<today, priorities>>
  PROVE  FurtherStep
<1>1. UNCHANGED <<phase, priorities>>
  BY DEF today
<1>2. Cardinality(remaining) \in Nat
  BY FS_CardinalityType DEF FiniteDay
<1>3. ASSUME remaining # {} PROVE Stage = 0
  <2>1. plan = <<>> /\ phase = "idle" /\ priorities = <<>>
    BY <1>3 DEF PInv, Planned, Link
  <2> QED
    BY <2>1 DEF Stage
<1>4. plan' = plan => Stage' = Stage
  BY <1>1 DEF Stage
<1>5. ASSUME Stage = 0, Stage' = 0
      PROVE  /\ Left = 2 * Cardinality(remaining) + (IF ready = {} THEN 1 ELSE 0)
             /\ Left' = 2 * Cardinality(remaining') + (IF ready' = {} THEN 1 ELSE 0)
  BY <1>5 DEF Left
<1>6. CASE Round \/ BreakCycle
  <2>1. UNCHANGED <<remaining, plan>> /\ ready = {} /\ ready' # {} /\ remaining # {}
    BY <1>6 DEF Round, BreakCycle
  <2>2. Stage = 0 /\ Stage' = 0
    BY <1>3, <1>4, <2>1
  <2>3. /\ Left = 2 * Cardinality(remaining) + (IF ready = {} THEN 1 ELSE 0)
        /\ Left' = 2 * Cardinality(remaining') + (IF ready' = {} THEN 1 ELSE 0)
    BY <1>5, <2>2
  <2>4. Left = 2 * Cardinality(remaining) + 1 /\ Left' = 2 * Cardinality(remaining) + 0
    BY <2>1, <2>3
  <2> QED
    BY <1>2, <2>2, <2>4 DEF FurtherStep
<1>7. CASE Place
  <2>1. PICK p \in ready : remaining' = remaining \ {p} /\ ready' = ready \ {p} /\ plan' = plan
    BY <1>7 DEF Place
  <2>2. p \in remaining /\ ready # {}
    BY DEF PInv, Ordering
  <2>3. Cardinality(remaining') = Cardinality(remaining) - 1
    BY <2>1, <2>2, FS_RemoveElement DEF FiniteDay
  <2>4. /\ Left = 2 * Cardinality(remaining) /\ Stage' = Stage
        /\ Left' = 2 * (Cardinality(remaining) - 1) + (IF ready' = {} THEN 1 ELSE 0)
    BY <1>2, <1>3, <1>4, <1>5, <2>1, <2>2, <2>3
  <2>5. Left' < Left
    BY <1>2, <2>4
  <2> QED
    BY <2>4, <2>5 DEF FurtherStep
<1>8. CASE CreatePlan
  <2>1. ordered # <<>> /\ plan = <<>> /\ DOMAIN plan' = DOMAIN ordered
    BY <1>8 DEF CreatePlan
  <2>2. phase = "idle" /\ priorities = <<>>
    BY <2>1 DEF Link
  <2>3. plan' # <<>>
    <3>1. ordered \in Seq(Kept)
      BY DEF PInv, Ordering
    <3>2. DOMAIN ordered # {}
      BY <2>1, <3>1
    <3> QED
      BY <2>1, <3>2
  <2>4. Stage = 0 /\ Stage' = 1
    BY <1>1, <2>1, <2>2, <2>3 DEF Stage
  <2> QED
    BY <2>4 DEF FurtherStep
<1> QED
  BY <1>6, <1>7, <1>8 DEF PlanningNext

LEMMA TodayFurther ==
  ASSUME TInv, TInv', FiniteDay, TodayNext
  PROVE  FurtherStep
<1>1. request' = request
  BY DEF TodayNext, Extend, Arrange, ListNext, Answer
<1>2. IsFiniteSet(Ids(request)) /\ selected \subseteq Ids(request) /\ selected' \subseteq Ids(request)
  BY <1>1 DEF FiniteDay, TInv
<1>3. CASE Extend
  <2>1. Stage = 3 /\ Stage' = 3
    BY <1>3 DEF Extend, Stage
  <2>2. PICK d \in selected' : d \notin selected
    BY <1>3 DEF Extend
  <2>3. selected \subseteq selected'
    BY <1>3 DEF Extend
  <2> DEFINE S == Ids(request) \ selected
             T == Ids(request) \ selected'
  <2>4. IsFiniteSet(S) /\ T \subseteq S /\ T # S
    BY <1>2, <2>2, <2>3, FS_Subset
  <2>5. Left = Cardinality(S) /\ Left' = Cardinality(T)
    BY <1>1, <2>1 DEF Left
  <2> HIDE DEF S, T
  <2> QED
    BY <2>1, <2>4, <2>5, Shrinks DEF FurtherStep
<1>4. CASE Arrange
  <2>1. Stage = 3 /\ Stage' = 4
    BY <1>4 DEF Arrange, Stage
  <2> QED
    BY <2>1 DEF FurtherStep
<1>5. CASE ListNext
  <2>1. Stage = 4 /\ Stage' = 4 /\ selected' = selected
    BY <1>5 DEF ListNext, Stage
  <2>2. Listing
    BY <1>5 DEF ListNext, TInv
  <2>3. PICK i \in frontier : listed' = Append(listed, i)
    BY <1>5 DEF ListNext
  <2>4. i \in selected /\ listed \in Seq(selected) /\ ~Has(listed, Len(listed), i)
    BY <2>2, Zenon DEF Listing
  <2> DEFINE before == {listed[n] : n \in DOMAIN listed}
             after == {listed'[n] : n \in DOMAIN listed'}
             S == selected \ before
             T == selected \ after
  <2>5. /\ Len(listed) \in Nat /\ DOMAIN listed = 1 .. Len(listed)
        /\ DOMAIN listed' = 1 .. Len(listed) + 1
        /\ \A n \in DOMAIN listed : listed'[n] = listed[n]
        /\ listed'[Len(listed) + 1] = i
    BY <2>3, <2>4
  <2>6. i \notin before
    BY <2>4, <2>5 DEF Has
  <2>7. before \subseteq after
    BY <2>5
  <2>8. i \in after
    <3>1. Len(listed) + 1 \in DOMAIN listed'
      BY <2>5
    <3> QED
      BY <2>5, <3>1
  <2>9. IsFiniteSet(S) /\ T \subseteq S /\ T # S
    <3> HIDE DEF before, after
    <3>1. i \in S /\ i \notin T /\ S \subseteq Ids(request)
      BY <1>2, <2>4, <2>6, <2>8
    <3> QED
      BY <1>2, <2>7, <3>1, FS_Subset
  <2>10. Left = Cardinality(S) /\ Left' = Cardinality(T)
    BY <2>1 DEF Left
  <2> HIDE DEF S, T
  <2> QED
    BY <2>1, <2>9, <2>10, Shrinks DEF FurtherStep
<1>6. CASE Answer
  <2>1. Stage = 4 /\ Stage' = 5
    BY <1>6 DEF Answer, Stage
  <2> QED
    BY <2>1 DEF FurtherStep
<1> QED
  BY <1>3, <1>4, <1>5, <1>6 DEF TodayNext

\* A request of any size goes through the stages in order, and within a stage every step leaves
\* less to do.  So no loop of the three engines runs forever, and none undoes what another did.
THEOREM EveryStepIsFurther == Spec => [][FurtherStep]_vars
<1>1. ASSUME PInv, TInv, TInv', Link, Shapes, FiniteDay, [Next]_vars PROVE [FurtherStep]_vars
  <2> SUFFICES ASSUME Next PROVE FurtherStep
    BY <1>1
  <2>1. CASE PlanningNext /\ UNCHANGED <<today, priorities>>
    BY <1>1, <2>1, PlanningFurther
  <2>2. CASE Prioritize
    <3>1. /\ plan # <<>> /\ priorities = <<>> /\ phase = "idle" /\ phase' = "idle"
          /\ DOMAIN priorities' = DOMAIN plan
      BY <2>2 DEF Prioritize, today
    <3>2. DOMAIN plan # {}
      <4>1. plan \in Seq(PlanStep)
        BY <1>1 DEF Shapes
      <4>2. Len(plan) \in Nat /\ DOMAIN plan = 1 .. Len(plan)
        BY <4>1
      <4>3. Len(plan) = 0 => plan = <<>>
        BY <4>1
      <4>4. 1 \in 1 .. Len(plan)
        BY <3>1, <4>2, <4>3
      <4> QED
        BY <4>2, <4>4
    <3>3. priorities' # <<>>
      BY <3>1, <3>2
    <3>4. Stage = 1 /\ Stage' = 2
      BY <3>1, <3>3 DEF Stage
    <3> QED
      BY <3>4 DEF FurtherStep
  <2>3. CASE AskToday
    <3>1. Stage = 2 /\ Stage' = 3
      BY <2>3 DEF AskToday, Receive, Stage
    <3> QED
      BY <3>1 DEF FurtherStep
  <2>4. CASE Refuse
    <3>1. Stage \in {1, 2} /\ Stage' = 5
      BY <2>4 DEF Refuse, Stage
    <3> QED
      BY <3>1 DEF FurtherStep
  <2>5. CASE TodayNext
    BY <1>1, <2>5, TodayFurther
  <2> QED
    BY <2>1, <2>2, <2>3, <2>4, <2>5 DEF Next
<1>2. PInv /\ TInv /\ Link /\ Shapes /\ FiniteDay /\ [Next]_vars => Shapes' /\ FiniteDay'
  BY ShapesKept, FiniteDayKept
<1> QED
  BY <1>1, <1>2, ShapesInit, FiniteDayInit, PlanningAlways, TodayAlways, LinkAlways, PTL DEF Spec
=============================================================================
