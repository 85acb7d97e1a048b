------------------------------ MODULE DayPlan ------------------------------
(***************************************************************************)
(* From a plan to the day: planning, priority (M7,                         *)
(* src/app/services/priority_service.py) and today, as the pipeline        *)
(* (src/app/orchestrator/pipeline.py) or a client of the three routes      *)
(* connects them.  A day may also be asked for without a plan of M6, with  *)
(* deadlines, completed tasks and flags.                                   *)
(***************************************************************************)
EXTENDS Planning, Today, FiniteSets

CONSTANTS
  Times,        \* the times at which the pipeline is asked
  Requests      \* the requests that reach M8 directly

VARIABLE priorities     \* what M7 says of each step; empty before it is asked

vars == <<planning, today, priorities>>

ASSUME TimesAssumption == Times \subseteq Nat /\ Times # {}
ASSUME RequestsAssumption ==
  \A r \in Requests :
    /\ r.now \in Nat /\ r.zone \in Zones
    /\ DOMAIN r.tasks \subseteq Nat /\ IsFiniteSet(DOMAIN r.tasks)
    /\ \A i \in DOMAIN r.tasks : r.tasks[i] \in Task

TypeOK ==
  /\ drafts \in Seq(Draft)
  /\ remaining \subseteq DOMAIN drafts
  /\ ready \subseteq remaining
  /\ ordered \in Seq(DOMAIN drafts)
  /\ plan \in Seq(PlanStep)
  /\ priorities \in Seq(Task)
  /\ phase \in Phases
  /\ request.now \in Nat
  /\ \A i \in Ids(request) : i \in Nat /\ tasks[i] \in Task
  /\ selected \subseteq Ids(request)
  /\ frontier \subseteq selected
  /\ listed \in Seq(selected)

-----------------------------------------------------------------------------
\* The steps that directly depend on this one.
Downstream(n) == {m \in DOMAIN plan : n \in plan[m].depends_on}

MostDownstream ==
  CHOOSE k \in 0 .. Len(plan) :
    /\ \A n \in DOMAIN plan : Cardinality(Downstream(n)) <= k
    /\ k = 0 \/ \E n \in DOMAIN plan : Cardinality(Downstream(n)) = k

\* prioritize_plan without urgency, deadline and importance, in thousandths of a point: the
\* neutral 32.5, 20 if required, 9 of 15 for dependencies that are all ready, and up to 6 for
\* the steps that wait for this one.
Score(n) ==
  32500
  + (IF plan[n].required THEN 20000 ELSE 0)
  + (IF \A d \in plan[n].depends_on : plan[d].status = "ready" THEN 9000 ELSE 0)
  + (IF MostDownstream = 0 THEN 0
     ELSE (6000 * Cardinality(Downstream(n))) \div MostDownstream)

\* The models of M7's request refuse a step that depends on itself, or twice on another.
Prioritizable == \A n \in DOMAIN plan : n \notin plan[n].depends_on /\ ~plan[n].repeated

\* M7 calls a step blocked that has any dependency, as none of a new plan is completed.
Prioritize ==
  /\ plan # <<>> /\ priorities = <<>> /\ phase = "idle"
  /\ Prioritizable
  /\ priorities' = [n \in DOMAIN plan |->
       [score |-> Score(n), required |-> plan[n].required,
        blocked |-> plan[n].depends_on # {}, depends_on |-> plan[n].depends_on,
        order |-> n, completed |-> FALSE, deadline |-> None, is_today |-> FALSE,
        scheduled |-> None]]
  /\ UNCHANGED <<planning, today>>

Days == {[now |-> t, zone |-> z, tasks |-> priorities] : t \in Times, z \in Zones}

AskToday ==
  /\ priorities # <<>> /\ phase = "idle"
  /\ \E r \in {d \in Days : Valid(d)} : Receive(r)
  /\ UNCHANGED <<planning, priorities>>

\* The model of M7's request or of M8's refuses the plan.
Refuse ==
  /\ plan # <<>> /\ phase = "idle"
  /\ \/ ~Prioritizable
     \/ priorities # <<>> /\ {d \in Days : Valid(d)} = {}
  /\ phase' = "refused"
  /\ UNCHANGED <<planning, priorities, request, selected, waits, frontier, listed>>

\* Either a plan is asked for, or a day of tasks that M6 has not planned.
Init ==
  /\ priorities = <<>>
  /\ \/ PlanningInit /\ TodayIdle
     \/ /\ drafts = <<>> /\ remaining = {} /\ ready = {} /\ ordered = <<>> /\ plan = <<>>
        /\ phase = "select"
        /\ request \in {r \in Requests : Valid(r)}
        /\ selected = {i \in Ids(request) : Relevant(request, i)}
        /\ waits = <<>> /\ frontier = {} /\ listed = <<>>

Next ==
  \/ PlanningNext /\ UNCHANGED <<today, priorities>>
  \/ Prioritize
  \/ AskToday
  \/ Refuse
  \/ TodayNext /\ UNCHANGED <<planning, priorities>>

Spec == Init /\ [][Next]_vars

\* The engines are loops of one thread and are never blocked.
FairSpec == Spec /\ WF_vars(Next)

-----------------------------------------------------------------------------
\* M7 and M8 accept a plan of M6 just if all of its dependencies point back and none is listed
\* twice: what M6's fallback makes of a cycle is refused, and so is a repetition that M6 copies,
\* but nothing else is.
AcceptedPlansPointBack ==
  plan # <<>> /\ phase # "idle" =>
    (phase # "refused" <=>
       \A n \in DOMAIN plan : ~plan[n].repeated /\ \A d \in plan[n].depends_on : d < n)

\* A new day shows exactly those required steps that the plan calls ready, and they all can be
\* worked on: the status in the plan, the flag of M7 and the dependencies in M8 agree.
FreshDayIsReady ==
  plan # <<>> /\ phase \notin {"idle", "refused"} =>
    /\ selected = {n \in DOMAIN plan : plan[n].required /\ plan[n].status = "ready"}
    /\ selected \subseteq Actionable

\* Every request is answered or refused.
Answered == <>(phase \in {"done", "refused"})
=============================================================================
