------------------------------ MODULE Pipeline ------------------------------
(***************************************************************************)
(* The orchestrator of the stages M1 to M8                                 *)
(* (src/app/orchestrator/pipeline.py): each stage's output becomes the     *)
(* next one's request, whose model may refuse it.  The stages up to the    *)
(* verification of sources are modelled with it; DayPlan has the others.   *)
(*                                                                         *)
(* A text is its length and the length of the title that a plan would take *)
(* from it.  What a source says is a set of facts.                         *)
(***************************************************************************)
EXTENDS Integers, Sequences, FiniteSets

CONSTANTS
  Requests,         \* what the pipeline is asked: a text and the sources that come with it
  Interpretations,  \* what a language model may answer
  MaxContent,       \* MAX_CONTENT_LENGTH
  QueryLimit,       \* the longest query of M4 and M5: 1000
  TitleLimit,       \* the longest title of a step: 300
  MaxInformation,   \* as many verified claims as M6 takes: 500
  None              \* no value

VARIABLES
  pc,           \* the stage that is running; "end" when the pipeline has answered
  request,
  intent,       \* what M2 or the model made of the text
  found,        \* the positions of the sources that M4 found relevant
  evidence,     \* what M5 made of them
  completed,    \* the keys of completed
  results,      \* the keys of stage_results
  answer,       \* status and current_stage
  failure       \* the stage that failed and whose fault it was; only for the properties

vars == <<pc, request, intent, found, evidence, completed, results, answer, failure>>

StageOrder ==
  <<"input", "intent", "context", "research", "verification", "planning", "priority", "today">>

Stages == {StageOrder[n] : n \in DOMAIN StageOrder}

\* A stripped text; its title is what is left without marks at the end.
Text == [length : Nat, title : Nat]

\* The goal, whether it is blank, whether there are more entities than M4 takes; planned: one step,
\* a template, or refused as the intent is blank; the time reference.
Interpretation ==
  [length : Nat, title : Nat, blank : BOOLEAN, crowded : BOOLEAN, planned : {"single", "template", "refused"},
   when : {"none", "blank", "given"}]

\* A value that is stated of a subject.
Fact == [key : STRING, value : Int]

\* matches: M4 finds it relevant; blank: M5 refuses it.
Source == [id : STRING, matches : BOOLEAN, facts : SUBSET Fact, blank : BOOLEAN]

Request == [text : Text, sources : Seq(Source), model : BOOLEAN]

Evidence ==
  [status : {"conflicting", "verified", "insufficient_evidence", "unverified"},
   verified : SUBSET Fact, conflicting : SUBSET STRING, insufficient : SUBSET Fact]

ASSUME InputsAssumption == Requests \subseteq Request /\ Interpretations \subseteq Interpretation
ASSUME LimitsAssumption ==
  MaxContent \in Nat /\ QueryLimit \in Nat /\ TitleLimit \in Nat /\ MaxInformation \in Nat

Failure == [stage : Stages, cause : {"limit", "service"}]

ASSUME NoneAssumption == None \notin Failure \cup Evidence \cup Interpretation

TypeOK ==
  /\ pc \in Stages \cup {"end"}
  /\ request \in Request
  /\ intent \in Interpretation \cup {None}
  /\ found \subseteq DOMAIN request.sources
  /\ evidence \in Evidence \cup {None}
  /\ completed \subseteq Stages
  /\ results \subseteq Stages
  /\ answer \in [status : {"success", "failed"}, stage : Stages]
  /\ failure \in Failure \cup {None}

Init ==
  /\ pc = "input"
  /\ request \in Requests
  /\ intent = None /\ found = {} /\ evidence = None
  /\ completed = {} /\ results = {}
  /\ answer = [status |-> "success", stage |-> "input"]
  /\ failure = None

-----------------------------------------------------------------------------
\* A stage has answered.
Done(stage, next) ==
  /\ completed' = completed \cup {stage}
  /\ results' = results \cup {stage}
  /\ pc' = next
  /\ UNCHANGED failure

FirstMissingIsLast ==    \* mutant: the last completed stage is blamed
  CHOOSE s \in Stages :
    \E n \in DOMAIN StageOrder :
      /\ s = StageOrder[n]
      /\ n = 1 \/ StageOrder[n] \in completed
      /\ \A m \in n + 1 .. Len(StageOrder) : StageOrder[m] \notin completed

\* The first stage that is not completed; "input" if there is none.
FirstMissing ==
  LET missing == {n \in DOMAIN StageOrder : StageOrder[n] \notin completed}
  IN  IF missing = {} THEN "input"
      ELSE StageOrder[CHOOSE n \in missing : \A m \in missing : n <= m]

\* The except clause of run.
Fail(cause) ==
  /\ answer' = [status |-> "failed", stage |-> FirstMissing]
  /\ failure' = [stage |-> pc, cause |-> cause]
  /\ pc' = "end"
  /\ UNCHANGED <<request, intent, found, evidence, completed, results>>

\* A service raises: the language model, or one that was injected.
Raise == pc # "end" /\ Fail("service")

\* accept.
Accepted == 0 < request.text.length /\ request.text.length <= MaxContent

Input ==
  /\ pc = "input" /\ Accepted
  /\ Done("input", "intent")
  /\ UNCHANGED <<request, intent, found, evidence, answer>>

\* process_intent: the goal is the whole text.
Interpret ==
  /\ pc = "intent" /\ ~request.model
  /\ \E p \in {"single", "template"}, w \in {"none", "given"} :
       intent' = [length |-> request.text.length, title |-> request.text.title, blank |-> FALSE,
                  crowded |-> FALSE, planned |-> p, when |-> w]
  /\ Done("intent", "context")
  /\ UNCHANGED <<request, found, evidence, answer>>

Ask ==
  /\ pc = "intent" /\ request.model
  /\ intent' \in Interpretations
  /\ Done("intent", "context")
  /\ UNCHANGED <<request, found, evidence, answer>>

\* No limit of M3 is below those of M2.
Context ==
  /\ pc = "context"
  /\ Done("context", "research")
  /\ UNCHANGED <<request, intent, found, evidence, answer>>

Researchable == intent.length <= QueryLimit /\ ~intent.crowded

Research ==
  /\ pc = "research" /\ Researchable
  /\ found' = {n \in DOMAIN request.sources : request.sources[n].matches}
  /\ Done("research", "verification")
  /\ UNCHANGED <<request, intent, evidence, answer>>

-----------------------------------------------------------------------------
\* sources_by_id: of several sources with one id the last one is taken.
Joined ==
  {m \in DOMAIN request.sources :
     /\ \E n \in found : request.sources[n].id = request.sources[m].id
     /\ \A k \in DOMAIN request.sources : request.sources[k].id = request.sources[m].id => k <= m}

Items == {request.sources[m] : m \in Joined}

Verifiable == ~intent.blank /\ \A s \in Items : ~s.blank

Facts == UNION {s.facts : s \in Items}

AgreedAlone(f) == TRUE    \* mutant: other values do not count

\* The group of the fact's key has one value.
Agreed(f) == \A g \in Facts : g.key = f.key => g.value = f.value

Corroborated(f) == \E s \in Items, t \in Items : s.id # t.id /\ f \in s.facts /\ f \in t.facts

\* verify_research.
Verified == {f \in Facts : Agreed(f) /\ Corroborated(f)}

Conflicting == {f.key : f \in {g \in Facts : ~Agreed(g)}}

Insufficient == {f \in Facts : Agreed(f) /\ ~Corroborated(f)}

Status ==
  IF Conflicting # {} THEN "conflicting"
  ELSE IF Verified # {} THEN "verified"
  ELSE IF Insufficient # {} \/ \E s \in Items : s.facts = {} THEN "insufficient_evidence"
  ELSE "unverified"

Verify ==
  /\ pc = "verification" /\ Verifiable
  /\ evidence' = [status |-> Status, verified |-> Verified, conflicting |-> Conflicting,
                  insufficient |-> Insufficient]
  /\ Done("verification", "planning")
  /\ UNCHANGED <<request, intent, found, answer>>

-----------------------------------------------------------------------------
PlannableWithTitle ==    \* mutant: every plan takes its title from the goal
  /\ intent.planned # "refused"
  /\ 0 < intent.title /\ intent.title <= TitleLimit
  /\ Cardinality(evidence.verified) <= MaxInformation

\* The goal is the title of a plan of one step.
Plannable ==
  /\ intent.planned # "refused"
  /\ intent.planned = "single" => 0 < intent.title /\ intent.title <= TitleLimit
  /\ Cardinality(evidence.verified) <= MaxInformation

Plan ==
  /\ pc = "planning" /\ Plannable
  /\ Done("planning", "priority")
  /\ UNCHANGED <<request, intent, found, evidence, answer>>

\* M7 is the first to look at the time reference.
Prioritizable == intent.when # "blank"

Prioritize ==
  /\ pc = "priority" /\ Prioritizable
  /\ Done("priority", "today")
  /\ UNCHANGED <<request, intent, found, evidence, answer>>

Today ==
  /\ pc = "today"
  /\ Done("today", "end")
  /\ answer' = [status |-> "success", stage |-> "today"]
  /\ UNCHANGED <<request, intent, found, evidence>>

\* The request model of the stage refuses what the stages before it made.
Refuse ==
  /\ \/ pc = "input" /\ ~Accepted
     \/ pc = "research" /\ ~Researchable
     \/ pc = "verification" /\ ~Verifiable
     \/ pc = "planning" /\ ~Plannable
     \/ pc = "priority" /\ ~Prioritizable
  /\ Fail("limit")

Next ==
  \/ Input \/ Interpret \/ Ask \/ Context \/ Research \/ Verify \/ Plan \/ Prioritize \/ Today
  \/ Refuse \/ Raise

Spec == Init /\ [][Next]_vars

-----------------------------------------------------------------------------
\* The stage that is reported as failed is the one that raised, and the answer holds the results
\* of the stages before it and of no other: a failure is worked out from what is missing, far
\* from where it happens.
FailureNamesStage ==
  failure # None =>
    /\ answer = [status |-> "failed", stage |-> failure.stage]
    /\ \A m, n \in DOMAIN StageOrder :
         StageOrder[n] = failure.stage => (StageOrder[m] \in results <=> m < n)

\* Unless a service raises, a text is refused for one of eight reasons only, wherever it meets
\* the limit: it is blank or too long; its goal is blank or too long to search for, or has too
\* many entities; a single step cannot be named after it; the intent or the time reference is
\* blank; a source is blank; more is verified than a plan takes.
RefusedByLimitsOnly ==
  pc = "end" /\ (failure # None => failure.cause = "limit") =>
    (answer.status = "success" <=>
       /\ request.text.length \in 1 .. MaxContent
       /\ intent.length <= QueryLimit /\ ~intent.blank /\ ~intent.crowded
       /\ \A n \in Joined : ~request.sources[n].blank
       /\ \/ intent.planned = "template"
          \/ (intent.planned = "single" /\ intent.title \in 1 .. TitleLimit)
       /\ Cardinality(evidence.verified) <= MaxInformation
       /\ intent.when # "blank")

\* The sources have different ids.
Distinct == \A m, n \in DOMAIN request.sources : request.sources[m].id = request.sources[n].id => m = n

\* If all sources have ids of their own, a claim that reaches the plan as verified is stated by
\* two of the sources that are relevant to the goal and denied by none, and a status of verified
\* says that no two relevant sources disagree on anything.
VerifiedIsCorroborated ==
  evidence # None /\ Distinct =>
    /\ \A f \in evidence.verified :
         /\ \E m, n \in found :
              m # n /\ f \in request.sources[m].facts /\ f \in request.sources[n].facts
         /\ \A n \in found : \A g \in request.sources[n].facts : g.key = f.key => g = f
    /\ evidence.status = "verified" =>
         \A m, n \in found : \A f \in request.sources[m].facts : \A g \in request.sources[n].facts :
           g.key = f.key => g = f
=============================================================================
