----------------------------- MODULE ActionFlow -----------------------------
(***************************************************************************)
(* From a permission request to an effect and its verification: the        *)
(* orchestration of M9 and M10 (src/app/services/orchestration_service.py),*)
(* the action engine and its adapters (action_service.py, actions/), the   *)
(* webhook call to n8n (src/app/integrations) and the execution verifier,  *)
(* M11 (execution_service.py).                                             *)
(*                                                                         *)
(* Every call of the engine runs in a thread of its own and shares nothing *)
(* with the others.  It is one step up to the webhook's POST, where the    *)
(* thread blocks for the answer; the POST may be lost or late, and the     *)
(* workflow it starts cannot be called back.                               *)
(***************************************************************************)
EXTENDS Permission

CONSTANTS
  Calls,        \* calls of the engine
  Uuids,        \* the action ids that are UUIDs
  Asked,        \* the permission requests that reach OrchestrationService
  Posed,        \* the action requests that reach ActionService directly
  Supplied      \* the sets of evidence that callers of M11 add

VARIABLES
  runs,         \* what each call was given, and what it answered
  network,      \* the calls whose POST is on its way to n8n
  started,      \* the calls whose POST started a workflow
  verdicts      \* what M11 said of each call

vars == <<runs, network, started, verdicts>>

LocalTypes ==
  {"no_op", "create_local_note", "create_local_task", "prepare_email_draft",
   "prepare_message_draft", "open_url", "record_action"}

FutureTypes == {"send_email", "send_message", "telegram_message", "external_api_call"}

\* The action types ActionRequest admits, and those ExecutionRequest admits.
ActionTypes ==
  LocalTypes \cup FutureTypes \cup {"dry_run", "n8n_dispatch_preview", "create_calendar_event"}

VerifiableTypes == LocalTypes \cup {"dry_run", "n8n_dispatch_preview"}

\* The types whose parameters _validate_parameters looks at.
ParameterTypes ==
  {"create_local_note", "create_local_task", "prepare_email_draft", "prepare_message_draft",
   "open_url", "create_calendar_event"}

Parameters == {"complete", "incomplete", "unsafe"}

ActionScope ==
  [scope_type : ScopeTypes, type : Types \cup {None}, target : Targets \cup {None},
   target_type : TargetTypes \cup {None}, one_time : BOOLEAN, reusable : BOOLEAN]

ActionRequest ==
  [request : Requests, action : Actions, type : Types, required : BOOLEAN,
   decision : {"ALLOW", "REQUIRE_APPROVAL", "DENY", None},
   state : {"not_required", "required", "granted", "denied", "expired", "invalid", "pending"},
   valid : BOOLEAN, granted : ActionScope \cup {None}, requested : ActionScope \cup {None},
   params : Parameters, dry : BOOLEAN]

\* "posting": blocked on the webhook.  "raised": execute raised.  "lost": the process stopped.
Responses == {"blocked", "failed", "unsupported", "would_execute", "executed"}

\* What the adapter returned; "none" if it was not called, "error" if it raised.
Results == {"none", "error", "dry_run", "preview", "record", "no_op", "created", "answer"}

Run == [asked : PermissionRequest \cup {None}, act : ActionRequest \cup {None},
        status : Responses \cup {"posting", "raised", "lost"}, result : Results]

\* What a piece of evidence with a good status shows: an identifier of a note, task or draft,
\* a browser that opened the URL, a prepared payload, a record.
Evidence == {"note", "task", "draft", "browser", "preview", "record"}

\* "refused": no ExecutionRequest can be made of the response.
Verdict == [status : {"verified_success", "unknown", "not_attempted", "refused"},
            observed : {"none", "completed", "dry_run_completed", "browser_opened"},
            evidence : SUBSET Evidence]

TypeOK ==
  /\ runs \in [Calls -> Run \cup {None}]
  /\ network \subseteq Calls
  /\ started \subseteq Calls
  /\ verdicts \in [Calls -> Verdict \cup {None}]

-----------------------------------------------------------------------------
\* The request M10 gets from M9's decision; its granted and requested scope are the same.
Rebuilt(r, params, dry) ==
  LET d == Evaluate(r) IN
    [request |-> r.request, action |-> r.action, type |-> r.type, required |-> d.required,
     decision |-> d.decision, state |-> d.state, valid |-> d.valid,
     granted |-> d.scope, requested |-> d.scope, params |-> params, dry |-> dry]

\* UUID(action_id) and the model of ActionRequest accept it.
Acceptable(a, category) ==
  /\ a.action \in Uuids
  /\ a.type \in ActionTypes
  /\ category # "draft"
  /\ \A s \in {a.granted, a.requested} : s # None => s.scope_type \in ScopeTypes
  /\ a.params # "unsafe"

\* _scope_matches of M10.
Agree(granted, requested, type) ==
  /\ granted # None
  /\ requested # None
  /\ granted.scope_type = requested.scope_type
  /\ granted.type \in {None, requested.type}
  /\ granted.target \in {None, requested.target}
  /\ granted.target_type \in {None, requested.target_type}
  /\ granted.scope_type = "one_time" =>
       granted.one_time /\ requested.one_time /\ granted.type = type

\* _permission_block_reason gives none.
Permitted(a) ==
  /\ a.decision = "ALLOW"
  /\ a.state \in {"granted", "not_required"}
  /\ a.state = "granted" => a.valid /\ Agree(a.granted, a.requested, a.type)

ASSUME AskedAssumption == Asked \subseteq PermissionRequest
ASSUME PosedAssumption == \A a \in Posed : a \in ActionRequest /\ Acceptable(a, "information")
ASSUME SuppliedAssumption == Supplied \subseteq SUBSET Evidence
ASSUME AbsenceAssumption ==
  None \notin Run \cup ActionRequest \cup PermissionRequest \cup Verdict

-----------------------------------------------------------------------------
\* What LocalAdapter and N8NActionAdapter return; notes, drafts and URLs carry no identifier.
Result(type) ==
  CASE type = "no_op" -> "no_op"
    [] type = "record_action" -> "record"
    [] type = "n8n_dispatch_preview" -> "preview"
    [] OTHER -> "created"

Returns(c, asked, a, status, result) ==
  /\ runs' = [runs EXCEPT ![c] =
       [asked |-> asked, act |-> a, status |-> status, result |-> result]]
  /\ UNCHANGED <<started, verdicts>>

\* The request goes to DryRunAdapter.
DryRun(a) == a.dry \/ a.type = "dry_run"

\* ActionService.execute up to its answer or the POST: the gate, the parameters, the adapter.
Execute(c, asked, a) ==
  \/ /\ ~Permitted(a)
     /\ Returns(c, asked, a, "blocked", "none") /\ UNCHANGED network
  \/ /\ Permitted(a)
     /\ a.type \in ParameterTypes /\ a.params = "incomplete"
     /\ Returns(c, asked, a, "failed", "none") /\ UNCHANGED network
  \/ /\ Permitted(a)
     /\ ~(a.type \in ParameterTypes /\ a.params = "incomplete")
     /\ \/ /\ a.type \in FutureTypes
           /\ Returns(c, asked, a, "unsupported", "none") /\ UNCHANGED network
        \/ /\ a.type \notin FutureTypes
           /\ DryRun(a)
           /\ Returns(c, asked, a, "would_execute", "dry_run") /\ UNCHANGED network
        \/ /\ a.type \in LocalTypes \cup {"n8n_dispatch_preview"}
           /\ ~a.dry
           /\ Returns(c, asked, a, "executed", Result(a.type)) /\ UNCHANGED network
        \/ /\ a.type = "create_calendar_event"
           /\ ~a.dry
           /\ \/ /\ Returns(c, asked, a, "posting", "none")
                 /\ network' = network \cup {c}
              \/ /\ Returns(c, asked, a, "failed", "error")    \* no webhook configured
                 /\ UNCHANGED network

\* OrchestrationService.execute: M9's decision, rebuilt as M10's request.
Orchestrate(c, r, params, dry) ==
  /\ runs[c] = None
  /\ IF Acceptable(Rebuilt(r, params, dry), Evaluate(r).category)
       THEN Execute(c, r, Rebuilt(r, params, dry))
       ELSE Returns(c, r, None, "raised", "none") /\ UNCHANGED network

\* POST /api/action: the caller brings the decision.
Act(c, a) ==
  /\ runs[c] = None
  /\ Execute(c, None, a)

\* The POST reaches n8n, whether or not the call still waits for the answer.
Arrive(c) ==
  /\ c \in network
  /\ network' = network \ {c}
  /\ started' = started \cup {c}
  /\ UNCHANGED <<runs, verdicts>>

\* The POST is lost, or n8n refuses it.
Lose(c) ==
  /\ c \in network
  /\ network' = network \ {c}
  /\ UNCHANGED <<runs, started, verdicts>>

AnsweredAlways(c) ==    \* mutant: whatever comes back counts as success
  /\ runs[c] # None /\ runs[c].status = "posting"
  /\ Returns(c, runs[c].asked, runs[c].act, "executed", "answer")
  /\ UNCHANGED network

\* n8n answers the started workflow: with an object or nothing, with an object whose own
\* would_execute is true, which decides the status though the workflow has started, with an HTTP
\* error or something that is no JSON, or with JSON that is no object, on which result.get raises.
Answered(c) ==
  /\ runs[c] # None /\ runs[c].status = "posting"
  /\ c \in started
  /\ \E to \in {<<"executed", "answer">>, <<"would_execute", "answer">>, <<"failed", "error">>,
                <<"raised", "none">>} :
       Returns(c, runs[c].asked, runs[c].act, to[1], to[2])
  /\ UNCHANGED network

TimeOutNever(c) == FALSE /\ UNCHANGED vars    \* mutant: urlopen is given no timeout

\* urlopen gives up: no connection, a refusal, or 20 seconds without an answer.
TimeOut(c) ==
  /\ runs[c] # None /\ runs[c].status = "posting"
  /\ Returns(c, runs[c].asked, runs[c].act, "failed", "error")
  /\ UNCHANGED network

\* The process stops: the calls under way answer nothing.
Crash ==
  /\ \E c \in Calls : runs[c] # None /\ runs[c].status = "posting"
  /\ runs' = [c \in Calls |->
       IF runs[c] # None /\ runs[c].status = "posting" THEN [runs[c] EXCEPT !.status = "lost"]
       ELSE runs[c]]
  /\ UNCHANGED <<network, started, verdicts>>

-----------------------------------------------------------------------------
ControlledSuccessOfDryRuns(status) ==    \* mutant: would_execute passes
  status \in {"executed", "would_execute"}

\* The part of _controlled_success that M10's results do not always fulfil.
ControlledSuccess(status) == status = "executed"

\* _verify_no_op, _verify_local_record, ...: which evidence proves an action that was not a
\* dry run, beside what the result shows of itself.
Proof(type) ==
  CASE type = "create_local_note" -> "note"
    [] type = "create_local_task" -> "task"
    [] type \in {"prepare_email_draft", "prepare_message_draft"} -> "draft"
    [] type = "open_url" -> "browser"
    [] type = "n8n_dispatch_preview" -> "preview"
    [] type = "record_action" -> "record"
    [] OTHER -> "no_op"

\* verify, of an attempt of a type it knows: URLs and previews are judged before the caller's
\* dry_run flag is looked at, all others after it.
Judged(run, dry, evidence) ==
  LET proved == Proof(run.act.type) \in evidence \/ run.result = Proof(run.act.type)
  IN  IF run.act.type = "open_url"
        THEN IF proved THEN "browser_opened" ELSE "none"
      ELSE IF run.act.type # "n8n_dispatch_preview" /\ (dry \/ run.act.type = "dry_run")
        THEN IF run.result = "dry_run" THEN "dry_run_completed" ELSE "none"
      ELSE IF run.act.type = "no_op"
        THEN IF ControlledSuccess(run.status) THEN "completed" ELSE "none"
      ELSE IF proved THEN "completed" ELSE "none"

\* POST /api/execution/verify with the response of a call, a dry_run flag and evidence that
\* the caller adds.
Verify(c, dry, evidence) ==
  /\ runs[c] # None
  /\ runs[c].status \in Responses
  /\ LET observed == Judged(runs[c], dry, evidence)
         Says(status, o) == [status |-> status, observed |-> o, evidence |-> evidence]
     IN  verdicts' = [verdicts EXCEPT ![c] =
           IF runs[c].act.type \notin VerifiableTypes THEN Says("refused", "none")
           ELSE IF runs[c].result = "none" THEN Says("not_attempted", "none")
           ELSE IF observed = "none" THEN Says("unknown", "none")
           ELSE Says("verified_success", observed)]
  /\ UNCHANGED <<runs, network, started>>

-----------------------------------------------------------------------------
Init ==
  /\ runs = [c \in Calls |-> None]
  /\ network = {}
  /\ started = {}
  /\ verdicts = [c \in Calls |-> None]

Step(c) ==
  \/ /\ runs[c] = None
     /\ \E r \in Asked, params \in Parameters, dry \in BOOLEAN : Orchestrate(c, r, params, dry)
  \/ \E a \in Posed : Act(c, a)
  \/ Arrive(c)
  \/ Lose(c)
  \/ Answered(c)
  \/ TimeOut(c)
  \/ \E dry \in BOOLEAN, evidence \in Supplied : Verify(c, dry, evidence)

Next == Crash \/ \E c \in Calls : Step(c)

Spec == Init /\ [][Next]_vars

\* A call that waits for the webhook goes on at the latest when its socket times out.
Fairness == \A c \in Calls : WF_vars(TimeOut(c))

FairSpec == Spec /\ Fairness

-----------------------------------------------------------------------------
Effects == network \cup started

\* The approval the caller supplied covers this request.
Covers(p, r) ==
  /\ p.status = "approved"
  /\ Lower(p.scope.type) = Lower(r.type)
  /\ p.scope.target # None => p.scope.target = r.target
  /\ p.scope.target_type # None => p.scope.target_type = r.target_type
  /\ p.scope.one_time \/ ~p.scope.reusable => p.action = r.action
  /\ p.expires # None => r.time # None /\ r.time < p.expires

\* Whatever policy the caller supplies, nothing is sent to n8n for OrchestrationService
\* without an approval that covers the request and no denial beside it: no type with an
\* effect is one that M9 knows, so no waiver of M9 reaches an adapter with an effect.
EffectsApproved ==
  \A c \in Effects : runs[c].asked # None =>
    /\ runs[c].asked.approval_status # "denied"
    /\ runs[c].asked.approval # None
    /\ runs[c].asked.approval.scope # None
    /\ Covers(runs[c].asked.approval, runs[c].asked)

\* What a call answers about its effect is true for good, also when the POST is late, lost or
\* arrives after the call has given up: "executed" means that the workflow has started, "blocked"
\* and "unsupported" that it never will.  "would_execute" means that it never will if a dry run
\* was asked for; otherwise the word is n8n's, about a workflow that has started.
AnswersAreHonest ==
  \A c \in Calls : runs[c] # None =>
    /\ (runs[c].status = "executed" /\ runs[c].act.type = "create_calendar_event")
         => c \in started
    /\ runs[c].status \in {"blocked", "unsupported"} => c \notin Effects
    /\ runs[c].status = "would_execute" =>
         IF DryRun(runs[c].act) THEN c \notin Effects ELSE c \in started

\* An answer is given once, a call posts once, and a POST starts one workflow: the engine sends
\* nothing again after a timeout, an error or a restart, and no late POST changes an answer.
StartsOnceStep ==
  \A c \in Calls :
    /\ runs[c] # None /\ runs[c].status # "posting" => runs'[c] = runs[c]
    /\ runs[c] # None /\ c \notin network => c \notin network'
    /\ c \in started => c \in started' /\ c \notin network'

StartsOnce == [][StartsOnceStep]_vars

\* M11 reports success only of what M10 executed and either shows by its result or the
\* caller shows by evidence of the right kind, or of a dry run, and then says so; a wrong
\* dry_run flag changes nothing about that.
VerdictsAreEarned ==
  \A c \in Calls : verdicts[c] # None =>
    (verdicts[c].status = "verified_success" =>
       \/ /\ runs[c].status = "would_execute"
          /\ verdicts[c].observed = "dry_run_completed"
       \/ /\ runs[c].status = "executed"
          /\ runs[c].result \in {"no_op", "preview", "record"}
       \/ Proof(runs[c].act.type) \in verdicts[c].evidence)

\* Every call of the engine ends, whatever becomes of its POST.
CallsEnd ==
  \A c \in Calls :
    (runs[c] # None /\ runs[c].status = "posting")
      ~> (runs[c] # None /\ runs[c].status # "posting")
=============================================================================
