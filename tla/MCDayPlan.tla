----------------------------- MODULE MCDayPlan -----------------------------
(* Instances of DayPlan for TLC. *)
EXTENDS DayPlan

MCCustom == <<"custom-1", "custom-2", "custom-3">>

\* Three steps with any keys and dependencies: duplicate keys, self-dependencies, cycles, the
\* key of a step that has no id, and a dependency listed twice ("c" is not always known) among
\* them.
Dependencies == SUBSET {"a", "b", "c", "custom-2"}

Steps ==
  {<<[id |-> i, required |-> TRUE, depends_on |-> d, twice |-> t \cap d],
     [id |-> j, required |-> FALSE, depends_on |-> e, twice |-> {}],
     [id |-> k, required |-> TRUE, depends_on |-> f, twice |-> {}]>> :
       i \in {"a", "custom-2"}, j \in {"b", NoId}, k \in {"b", "c"}, t \in {{}, {"c"}},
       d \in Dependencies, e \in Dependencies, f \in Dependencies}

NoSteps == {}

Plain ==
  [score |-> 1, required |-> TRUE, blocked |-> FALSE, depends_on |-> {}, order |-> 1,
   completed |-> FALSE, deadline |-> None, is_today |-> FALSE, scheduled |-> None]

\* A day is four ticks.  Day 1 begins at 4 in UTC and ends at 8, and ends at 6 in zone 2: of the
\* deadlines 7 and 9 the one is due today in UTC alone at time 5, the other in the zone alone at 6.
Kinds ==
  {Plain,
   [Plain EXCEPT !.completed = TRUE, !.is_today = TRUE],
   [Plain EXCEPT !.required = FALSE, !.is_today = TRUE, !.score = 2],
   [Plain EXCEPT !.blocked = TRUE, !.scheduled = 1, !.score = 3],
   [Plain EXCEPT !.deadline = 4, !.score = 0],
   [Plain EXCEPT !.deadline = 7],
   [Plain EXCEPT !.deadline = 9, !.score = 2]}

DirectDays ==
  {[now |-> t, zone |-> 2, tasks |-> [i \in 1 .. 3 |-> [ks[i] EXCEPT !.depends_on = ds[i]]]] :
     t \in {5, 6}, ks \in [1 .. 3 -> Kinds],
     ds \in {e \in [1 .. 3 -> SUBSET (1 .. 3)] : \A i \in 1 .. 3 : i \notin e[i]}}
=============================================================================
