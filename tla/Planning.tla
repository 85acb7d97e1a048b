------------------------------ MODULE Planning ------------------------------
(***************************************************************************)
(* The planning engine, M6 (src/app/services/planning_service.py): steps   *)
(* supplied by the caller or derived from the goal are put in an order     *)
(* that respects their dependencies, and numbered.                         *)
(*                                                                         *)
(* A step is known by its position in the list of drafts.  Which template  *)
(* a goal leads to depends on its words and is left open.                  *)
(***************************************************************************)
EXTENDS Integers, Sequences

CONSTANTS
  StepIds,      \* the keys a caller may give to a step, or depend on
  Custom,       \* the key of the nth supplied step if it has none: "custom-n"
  Supplied,     \* the lists of steps that callers supply
  NoId          \* a step that has no id

VARIABLES
  drafts,       \* the steps to be planned
  remaining,    \* the positions not yet ordered
  ready,        \* those of them that the current round orders
  ordered,      \* the positions ordered so far
  plan          \* the answer; empty before there is one

planning == <<drafts, remaining, ready, ordered, plan>>

TemplateKeys ==
  {"simple-task", "confirm", "select", "review", "prepare", "collect-documents", "open-portal",
   "enter-information", "upload-documents"}

Keys == StepIds \cup TemplateKeys

\* The dependencies are a list; "twice" are the keys that occur in it more than once.
Draft == [key : Keys, required : BOOLEAN, depends_on : SUBSET Keys, twice : SUBSET Keys]

AvailableStep ==
  [id : StepIds \cup {NoId}, required : BOOLEAN, depends_on : SUBSET StepIds, twice : SUBSET StepIds]

PlanStep ==
  [required : BOOLEAN, depends_on : SUBSET (Nat \ {0}), repeated : BOOLEAN,
   status : {"ready", "blocked"}]

ASSUME CustomAssumption == Custom \in Seq(StepIds)
ASSUME SuppliedAssumption ==
  \A steps \in Supplied : steps \in Seq(AvailableStep) /\ steps # <<>> /\ Len(steps) <= Len(Custom)

-----------------------------------------------------------------------------
\* _explicit_steps: a step without an id gets one from its position.
Explicit(steps) ==
  [n \in DOMAIN steps |->
     [key |-> IF steps[n].id = NoId THEN Custom[n] ELSE steps[n].id,
      required |-> steps[n].required, depends_on |-> steps[n].depends_on,
      twice |-> steps[n].twice]]

Needed(key, dependencies) ==
  [key |-> key, required |-> TRUE, depends_on |-> dependencies, twice |-> {}]

SimpleTask == <<Needed("simple-task", {})>>

\* The templates for bookings, purchases, research and anything else are alike.
Chain ==
  <<Needed("confirm", {}), Needed("select", {"confirm"}), Needed("review", {"select"}),
    Needed("prepare", {"review"})>>

\* Applications may have a portal and documents to upload.
Application(portal, documents) ==
  <<Needed("confirm", {}), Needed("collect-documents", {"confirm"})>>
  \o (IF portal THEN <<Needed("open-portal", {"confirm"})>> ELSE <<>>)
  \o <<Needed("enter-information", {"confirm"})>>
  \o (IF documents THEN <<Needed("upload-documents", {"collect-documents", "enter-information"})>>
      ELSE <<>>)
  \o <<Needed("review", {"enter-information"} \cup (IF documents THEN {"upload-documents"} ELSE {})),
       Needed("prepare", {"review"})>>

\* _derive_steps.
Derived == {SimpleTask, Chain} \cup {Application(p, d) : p \in BOOLEAN, d \in BOOLEAN}

-----------------------------------------------------------------------------
KeptAll == DOMAIN drafts    \* mutant: the steps are ordered, not their keys

\* Of several steps with one key the last one is kept.
Kept == {n \in DOMAIN drafts : \A m \in DOMAIN drafts : drafts[m].key = drafts[n].key => m <= n}

\* The dependencies that _order_drafts looks at: known keys other than the step's own.
Normalized(n) == {m \in Kept : drafts[m].key \in drafts[n].depends_on} \ {n}

FreeOfAny(n) ==    \* mutant: one dependency that is done suffices
  Normalized(n) \subseteq remaining => Normalized(n) = {}

Free(n) == Normalized(n) \cap remaining = {}

FirstLast(n, S) == n \in S /\ \A m \in S : m <= n    \* mutant: ties are broken the other way

First(n, S) == n \in S /\ \A m \in S : n <= m

\* A round begins with the steps whose dependencies are all ordered.
Round ==
  /\ ready = {}
  /\ ready' = {n \in remaining : Free(n)}
  /\ ready' # {}
  /\ UNCHANGED <<drafts, remaining, ordered, plan>>

BreakCycleNever == FALSE /\ UNCHANGED planning    \* mutant: no fallback

\* On a cycle it begins with the first step that remains.
BreakCycle ==
  /\ ready = {}
  /\ \A n \in remaining : ~Free(n)
  /\ \E n \in remaining : First(n, remaining) /\ ready' = {n}
  /\ UNCHANGED <<drafts, remaining, ordered, plan>>

\* The round's steps are ordered as they were supplied.
Place ==
  /\ \E n \in ready :
       /\ First(n, ready)
       /\ ordered' = Append(ordered, n)
       /\ remaining' = remaining \ {n}
       /\ ready' = ready \ {n}
  /\ UNCHANGED <<drafts, plan>>

\* The dependencies of the nth ordered step, numbered: here its own key counts.
Numbered(n) == {m \in DOMAIN ordered : drafts[ordered[m]].key \in drafts[ordered[n]].depends_on}

CreatePlan ==
  /\ remaining = {} /\ ordered # <<>> /\ plan = <<>>
  /\ plan' = [n \in DOMAIN ordered |->
       [required |-> drafts[ordered[n]].required, depends_on |-> Numbered(n),
        repeated |-> \E m \in Numbered(n) : drafts[ordered[m]].key \in drafts[ordered[n]].twice,
        status |-> IF Numbered(n) = {} THEN "ready" ELSE "blocked"]]
  /\ UNCHANGED <<drafts, remaining, ready, ordered>>

PlanningInit ==
  /\ drafts \in Derived \cup {Explicit(steps) : steps \in Supplied}
  /\ remaining = Kept
  /\ ready = {}
  /\ ordered = <<>>
  /\ plan = <<>>

PlanningNext == Round \/ BreakCycle \/ Place \/ CreatePlan

-----------------------------------------------------------------------------
\* The step depends on itself through others, or on a step that does: some steps with it among
\* them all wait for one another.
BehindCycle(n) ==
  \E S \in SUBSET Kept : n \in S /\ \A m \in S : Normalized(m) \cap S # {}

\* No step is planned before another one it depends on, save for steps on a cycle and those
\* behind it: the fallback for cycles never disturbs the others, whatever it takes first.
BrokenOnlyByCycles ==
  \A n \in DOMAIN ordered : \A d \in Normalized(ordered[n]) :
    (\E m \in 1 .. n - 1 : ordered[m] = d) \/ BehindCycle(ordered[n])

\* Every key is planned, and no key twice: a round never orders a step of an earlier one again,
\* and a plan has as many steps as there are different keys.
EveryStepPlanned ==
  /\ \A m, n \in DOMAIN ordered :
       drafts[ordered[m]].key = drafts[ordered[n]].key => m = n
  /\ plan # <<>> =>
       \A d \in DOMAIN drafts : \E n \in DOMAIN plan : drafts[ordered[n]].key = drafts[d].key

\* The steps with at most k others in line before them.
Within[k \in 0 .. Len(drafts)] ==
  IF k = 0 THEN {n \in Kept : Normalized(n) = {}}
  ELSE LET fewer == Within[k - 1] IN {n \in Kept : Normalized(n) \subseteq fewer}

\* Without cycles a finished plan is sorted by how many steps a step has in line before it, and
\* then by the order of the request: the reference definition of the stable topological order
\* that rounds compute.
SortedByDepth ==
  plan # <<>> /\ (\A n \in Kept : ~BehindCycle(n)) =>
    LET depth == [n \in Kept |-> {k \in 0 .. Len(drafts) : n \notin Within[k]}]
    IN  \A m, n \in DOMAIN ordered : m < n =>
          \/ depth[ordered[m]] \subseteq depth[ordered[n]] /\ depth[ordered[m]] # depth[ordered[n]]
          \/ depth[ordered[m]] = depth[ordered[n]] /\ ordered[m] < ordered[n]
=============================================================================
