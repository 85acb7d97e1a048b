------------------------------- MODULE Today -------------------------------
(***************************************************************************)
(* The today engine, M8 (src/app/services/today_service.py): the tasks for *)
(* today are selected, closed under open dependencies, and listed by rank  *)
(* as far as the dependencies allow.                                       *)
(*                                                                         *)
(* A request's tasks are a function from step ids, which are numbers.      *)
(* Times are numbers; a day has DayLength of them and begins, in a zone,   *)
(* that much earlier than in UTC.                                          *)
(***************************************************************************)
EXTENDS Integers, Sequences

CONSTANTS DayLength, Zones, None

VARIABLES
  phase,        \* "idle", "select", "order", "done", or "refused" by a request model
  request,      \* [now, zone, tasks]
  selected,     \* the ids selected so far
  waits,        \* the selected dependencies not yet listed, of each selected task
  frontier,     \* the ids that wait for none: the list ready
  listed        \* today_tasks, as ids

today == <<phase, request, selected, waits, frontier, listed>>

ASSUME DayAssumption ==
  DayLength \in Nat \ {0} /\ Zones \subseteq Int /\ Zones # {} /\ None \notin Int

Task == [score : Nat, required : BOOLEAN, blocked : BOOLEAN, depends_on : SUBSET Nat,
         order : Nat, completed : BOOLEAN, deadline : Nat \cup {None}, is_today : BOOLEAN,
         scheduled : Int \cup {None}]

Phases == {"idle", "select", "order", "done", "refused"}

tasks == request.tasks

Date(time, zone) == (time + zone) \div DayLength

Ids(r) == DOMAIN r.tasks

ValidUnvisited(r) ==    \* mutant: cycles are not looked for
  \A i \in Ids(r) : r.tasks[i].depends_on \subseteq Ids(r) \ {i}

\* validate_task_source_and_graph: the dependencies are known and have no cycle.
Valid(r) ==
  /\ \A i \in Ids(r) : r.tasks[i].depends_on \subseteq Ids(r)
  /\ \A S \in SUBSET Ids(r) : S # {} => \E i \in S : r.tasks[i].depends_on \cap S = {}

-----------------------------------------------------------------------------
Open(r, i) == ~r.tasks[i].completed

OpenDependencies(r, i) == {d \in r.tasks[i].depends_on : Open(r, d)}

Overdue(r, i) == Open(r, i) /\ r.tasks[i].deadline # None /\ r.tasks[i].deadline < r.now

\* The view takes the date in the zone of the request.
DueToday(r, i) ==
  /\ Open(r, i)
  /\ r.tasks[i].deadline # None
  /\ Date(r.tasks[i].deadline, r.zone) = Date(r.now, r.zone)

BlockedByFlag(r, i) == Open(r, i) /\ r.tasks[i].blocked    \* mutant: dependencies are not looked at

Blocked(r, i) == Open(r, i) /\ (r.tasks[i].blocked \/ OpenDependencies(r, i) # {})

RelevantIfRequired(r, i) ==    \* mutant: blocked tasks count as actionable
  Open(r, i) /\ r.tasks[i].required

\* _base_relevance: the selection takes dates in UTC.
Relevant(r, i) ==
  LET t == r.tasks[i]
      day == Date(r.now, 0)
  IN  /\ Open(r, i)
      /\ \/ Overdue(r, i)
         \/ t.deadline # None /\ Date(t.deadline, 0) = day
         \/ t.is_today
         \/ t.scheduled = day
         \/ /\ t.deadline = None
            /\ t.required /\ ~t.blocked /\ OpenDependencies(r, i) = {}

Flag(b) == IF b THEN 0 ELSE 1

RankKey(r, i) ==
  <<Flag(Overdue(r, i)), Flag(DueToday(r, i)), -r.tasks[i].score, Flag(~Blocked(r, i)),
    Flag(r.tasks[i].required), r.tasks[i].order, i>>

\* Tuples compare by the first entry in which they differ.
Before(r, i, j) ==
  \E k \in DOMAIN RankKey(r, i) :
    /\ RankKey(r, i)[k] < RankKey(r, j)[k]
    /\ \A l \in 1 .. k - 1 : RankKey(r, i)[l] = RankKey(r, j)[l]

-----------------------------------------------------------------------------
\* A request arrives; the relevant tasks are selected.
Receive(r) ==
  /\ phase' = "select"
  /\ request' = r
  /\ selected' = {i \in Ids(r) : Relevant(r, i)}
  /\ UNCHANGED <<waits, frontier, listed>>

DependenciesOfSelected == UNION {OpenDependencies(request, i) : i \in selected}

\* One pass of the loop over the selected tasks that changes something.
Extend ==
  /\ phase = "select"
  /\ ~(DependenciesOfSelected \subseteq selected)
  /\ selected' = selected \cup DependenciesOfSelected
  /\ UNCHANGED <<phase, request, waits, frontier, listed>>

AwaitedAll(i) == tasks[i].depends_on    \* mutant: dependencies outside the list count, too

\* The dependencies that the indegree of a selected task counts.
Awaited(i) == tasks[i].depends_on \cap selected

\* The pass that changes nothing; _dependency_aware_order begins.
Arrange ==
  /\ phase = "select"
  /\ DependenciesOfSelected \subseteq selected
  /\ phase' = "order"
  /\ waits' = [i \in selected |-> Awaited(i)]
  /\ frontier' = {i \in selected : Awaited(i) = {}}
  /\ listed' = <<>>
  /\ UNCHANGED <<request, selected>>

FreedEarly(i) ==    \* mutant: a task is ready once any of its dependencies is listed
  {j \in selected : i \in waits[j]}

Freed(i) == {j \in selected : i \in waits[j] /\ waits[j] \ {i} = {}}

BestByInsertion(i) ==    \* mutant: ready is not sorted again
  \A j \in frontier : i <= j

Best(i) == \A j \in frontier : ~Before(request, j, i)

\* The best-ranked task that is ready is listed.
ListNext ==
  /\ phase = "order"
  /\ \E i \in frontier :
       /\ Best(i)
       /\ listed' = Append(listed, i)
       /\ waits' = [j \in selected |-> waits[j] \ {i}]
       /\ frontier' = (frontier \ {i}) \cup Freed(i)
  /\ UNCHANGED <<phase, request, selected>>

Answer ==
  /\ phase = "order" /\ frontier = {}
  /\ phase' = "done"
  /\ UNCHANGED <<request, selected, waits, frontier, listed>>

TodayNext == Extend \/ Arrange \/ ListNext \/ Answer

\* Nothing has been asked yet.
TodayIdle ==
  /\ phase = "idle"
  /\ request = [now |-> 0, zone |-> 0, tasks |-> <<>>]
  /\ selected = {}
  /\ waits = <<>>
  /\ frontier = {}
  /\ listed = <<>>

-----------------------------------------------------------------------------
\* The tasks of the answer that can be worked on.
Actionable == {i \in selected : ~Blocked(request, i)}

\* Each task of today is listed once, after every dependency of it that is open: none of them
\* is missing, however far in the future its own deadline lies.
DependenciesListedFirst ==
  /\ \A n \in DOMAIN listed : \A d \in OpenDependencies(request, listed[n]) :
       \E m \in 1 .. n - 1 : listed[m] = d
  /\ \A m, n \in DOMAIN listed : listed[m] = listed[n] => m = n

\* When the loop ends, all selected tasks are listed: the defensive end of
\* _dependency_aware_order, for tasks that are left over, is never needed.
NoneLeftOver == phase = "done" => \A i \in selected : \E n \in DOMAIN listed : listed[n] = i

\* A task is listed before a better-ranked one only where the better one has to wait for it or
\* for something that is listed no earlier than it.
RankYieldsToDependencies ==
  \A m, n \in DOMAIN listed : m < n /\ Before(request, listed[n], listed[m]) =>
    \E k \in m .. n - 1 : listed[k] \in tasks[listed[n]].depends_on

\* next_task, the best-ranked task that can be worked on, is the first such task of the list,
\* though the two are computed independently.
NextComesFirst ==
  \A n \in DOMAIN listed :
    listed[n] \in Actionable /\ (\A m \in 1 .. n - 1 : listed[m] \notin Actionable) =>
      \A i \in Actionable : ~Before(request, i, listed[n])

\* Only an open task is selected, and one that is not relevant itself only as a dependency of
\* another one that is selected.
SelectionJustified ==
  \A i \in selected :
    /\ Open(request, i)
    /\ Relevant(request, i) \/ \E j \in selected : i \in tasks[j].depends_on

\* README_MODULE_8: a task whose deadline falls on the date of current_datetime in its time zone
\* is selected.
DueTodaySelected ==
  phase = "done" => \A i \in Ids(request) : DueToday(request, i) => i \in selected
=============================================================================
