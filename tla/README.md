# Verification of Today AI

This directory holds TLA+ models of the Today AI backend (`src/app`, `src/oauth_runtime`), the
TLC configurations that model-check them, and TLAPS proofs about them. Paths below are
relative to the repository's root, which is `src/` in the source references.

## 1. The system

Today AI is a FastAPI application of small engines. A user's text goes through a pipeline of
eight stages to a plan for the day; actions that follow from the plan have to be permitted,
executed and verified; memories, conversations and audit events are kept; calendar events are
created in the user's Google account.

`main.py` registers the routers of input, assistant, Google OAuth and n8n, and the static
frontend. The other engines have routers of their own that an embedding application (and the
tests) mount.

| component | state | operations | interacts with |
|---|---|---|---|
| Memory engine M12 (`services/memory_service.py`) | SQLite table `memories` (or a dict) | store, retrieve, list, update, forget | its repository: `get`, `all`, `save`, each its own connection and transaction |
| Google connection (`integrations/google_oauth`, `integrations/connections`, `oauth_runtime`, `integrations/google_calendar`) | signed states (in the URL), token database, `ConnectionStore` in memory | connect, callback, status, disconnect, get_valid_access_token, execute | Google's token endpoint and calendar; called by the n8n route |
| Permission engine M9 (`services/permission_service.py`) | none | evaluate: classification, risk, scope, approvals | its answer is fed to M10 by `OrchestrationService` |
| Action engine M10 (`services/action_service.py`, `services/actions/*`) | the adapters' effects | execute: the gate, parameter checks, adapter call | M9's decision, adapters, n8n |
| n8n dispatch (`integrations/action_integration.py`, `n8n/*`) | workflows started outside | POST to a webhook, timeouts | M10, `IntegrationOrchestrationService` |
| Execution verification M11 (`services/execution_service.py`) | none | verify an action's result against what was requested | M10's responses |
| Pipeline (`orchestrator/pipeline.py`) | local to a run | M1 input, M2 intent, M3 context, M4 research, M5 verification, M6 planning, M7 priority, M8 today | each stage's output is the next one's request |
| Planning M6, Priority M7, Today M8 | none | step ordering, ranking, selection and dependency-aware order | the pipeline |
| Research verification M5 | none | grouping and comparing claims | the pipeline |
| Audit log M13 | append-only table or list | create, get, list, search | callers only |
| Security policy M14 | none | check a text, a URL, an action; permission policy; audit event of a decision | callers only |
| Conversation M15 (`services/ui_service.py`, `services/conversation`) | messages per session, shared by threads | add, handle, list, clear | a backend the caller provides |
| Persistence bootstrap (`persistence/migrations.py`) | tables, indexes, schema version | initialise, migrate | every construction of a SQLite repository of M12 or M13 |
| HTTP middleware (`core/security.py`) | bytes received so far | body limit, headers | all routes |
| Frontend (`frontend/app.js`) | UI state, messages, utterance, recogniser | submit, clear, speech and recognition callbacks | the assistant route |
| LLM providers, input M1, intent M2, context M3, research M4, voice | none | text rules and one blocking HTTP call | the pipeline |

### What is hard

* **Threads.** `def` routes run in the web server's thread pool. The memory engine reads and
  writes back whole rows in separate transactions, so two requests interleave between them; so
  do the lists of the conversation repository and two initialisers of one database.
* **Coroutines.** The Google and n8n routes are coroutines of one event loop. State read before
  an `await` (a token, a status) is used and saved after it.
* **Two stores that must agree.** The connection entries live in memory and the tokens in a
  database; a restart empties one of them.
* **Clocks.** Memory requests carry their own `current_time`; access tokens expire at a time
  that is counted from the receipt of an answer, not from its issue.
* **Partial failure and retry.** Any repository call may raise between two others. A webhook
  call may time out after the workflow has started.
* **Modules with different vocabularies.** The output of each engine is rebuilt as the request
  of the next, whose enumerations, limits and validators differ.
* **Orders.** Plans and days are topological orders merged with rankings, with a fallback for
  cycles.

* **Events of the browser.** Speech, recognition and fetches end in any order, whatever the user
  has clicked meanwhile.

`PROJECT.json` lists each of these hazards at its line, with the properties that bear on it and a note on what none of them
covers: several are what the code does and nothing in the repository promises otherwise, so no property forbids them.

### What makes each component correct

* *Memory*: users are isolated in the table and in responses; no credential is stored; a user
  has at most one live memory under a key; forgetting is final; versions count changes; a memory
  lapses exactly at its expiry.
* *Google connection*: the status tells whether the consent stands; tokens and entries agree;
  calls carry a working token; refresh tokens are not lost.
* *Permission, action, dispatch, verification*: no effect without a decision that permits exactly
  this action, for this user and scope; blocked and failed answers mean what they say; what is
  reported verified was done.
* *Pipeline*: stages run in order, a failure is attributed to the stage that raised, nothing of
  a failed stage or a later one is in the answer.
* *Planning, priority, today*: orders are permutations, dependencies come first, the selection is
  closed under open dependencies, the ranking is total.
* *Conversation, audit, frontend, migrations, body limit*: bounded histories keep the newest,
  pages skip nothing while the log grows, late callbacks leave the page in no state that nothing ends,
  nobody works on half a schema, exactly the oversized bodies never reach a handler.
* *Security policy*: no permission lifts what the policy blocks, and what is sent to be sanitized can be.

## 2. Modules and runs

In the order of importance, which is the order in which they were written:

1. **Memory**: `MemoryEngine`, the abstract `MemoryPromise`, their refinement (`MemoryRefinement`).
2. **Google connection**: `GoogleConnection`.
3. **Permitted actions**: `Permission` (M9's decision as operators) and `ActionFlow` (M10's gate and
   adapters, the webhook that may be lost or late, M11).
4. **The day plan**: `Planning` (M6), `Today` (M8) and `DayPlan`, which connects them through
   priority (M7) as the pipeline does; loop invariants and agreement of the three.
5. **Pipeline**: `Pipeline`, the stages as steps with their limits, failures and the partial result, with
   the verification of sources (M5).
6. **Services**: `Conversation` (threads of one session, eviction, clear), `Bootstrap` (initialisers of one database)
   under `AuditTrail` (recording and paging), `Security` (the policy).
7. **The web page and its server**: `Frontend` (the page), `Gate` (middleware and error handlers), and `Web`, which
   joins them.

An `MC` module instantiates each of the seven for TLC, and a `Proofs` module proves what can be
proved of it (section 10). There is one run for each question. Twelve runs, nine that pass with forty properties and
three that show a finding, are what a team will wait for, so the services, which share nothing, are run together, and a type
invariant that is proved for every instance takes no place in a run; neither do five properties of
section 10 that are proved: `LatestGrantStored` and `SelectionJustified`, which another one all but implies, and `NoSecretAtRest`,
`StartsOnce` and `SanitizeAgrees`, which are about a check of one request.
Modules meant for proofs have no `RECURSIVE` operator.

## 3. Memory (M12)

`MemoryEngine.tla` models `memory_service.py` over `memory_repository.py`.

**State.** `records` is the table. A worker is a thread serving a request: `pc`, `caller`, `held`
(its local copies of rows), `change` (the requested update) and `reply`. `now` is the latest
`current_time` seen so far; a request may carry one that lies up to `Skew` before it.

**Steps.** A step is one repository call with the local code up to the next one: `Store`,
`Retrieve`, `List`, `UpdateGet`, `Forget` begin a request (`Begin`) and end in an `Answer` or in
records to `Write`; `UpdateScan` is the second read of update; `Save` is one
`repository.save`, the upsert of a whole row (list saves its lapsed records one by one); `Fail` is an
exception in the next repository call, or the end of the process, at any of these points.

**Data.** A memory's type and key are always compared together and are one element of `Keys`.
`_secret_present` recognises the members of `Secrets`. Confidence, evidence, source and tags have
no effect on control and are left out; so is text normalisation, whose results `Keys` and
`Values` stand for. The filters of list are modelled as a set of wanted keys. `duplicate` and
`conflict` follow the first active candidate in table order, which is left open.

`MemoryPromise.tla` is what the engine promises: an atomic book in which a memory is live, dead or
forgotten. `MemoryRefinement.tla` maps a row and the time to an entry: a lapsed memory is dead
whether or not some request has already marked it expired, so lazy expiry, the two halves of each
handler and failures in the middle become single steps or stutters.

| run | instance | shows |
|---|---|---|
| `memory_serial` | 1 worker, 2 users, 2 values, 2 ids, times 0..2, Skew 0, versions to 3 | `UniqueLive`, `ForgottenFinal`, `VersionCounts`; `KeepsPromise`: the engine implements the book |
| `memory_concurrent` | 2 workers, 2 users, a secret, 2 ids, times 0..1, Skew 1 | `ReplyIsolation`, `ExpiredHasLapsed`, `Ownership`, `ForgottenStays` |
| `memory_lost_forget` | 2 workers, memories without expiry (`NothingLapses`) | `ForgottenFinal` is violated: an update saves what it read before a forget |

`ForgottenStays` is what holds of forgetting when requests overlap: only a copy read before the forget can change
the forgotten row. A stale copy may be an update's, which makes the memory active and retrievable again, or one that `retrieve` or
`list` saves as expired (lines 191 and 225), which changes the status of a memory that stays irretrievable. The
constraint of `memory_lost_forget` leaves only the first.

The first three properties of `memory_serial` also hold for a clock that runs backwards, as the proofs show; the refinement
does not, since a lapsed memory would live again.

`UniqueLive` is checked with one worker only. With two it does not hold: both scan the table before either
saves, and both are answered "stored".

*Bounds.* Two ids are what uniqueness, conflicts and a list that saves more than one record need;
isolation and ownership are about a pair of users; a third time point lets a memory be live,
lapse and be looked at later; versions up to three allow an update and a forget of an updated
memory. One key suffices where the properties compare rows under one key. Nothing counts beyond these
numbers in the code. `MaxVersion` only limits how often a memory is changed.

## 4. Google connection

`GoogleConnection.tla` models the consent flow, the token refresh, the two stores and
the calendar call.

**State.** `tokens` is the table `google_oauth_tokens`, `entries` the `ConnectionStore`, `issued` the
expiry of the latest signed state made for a user (any state that has not expired is accepted, and
states are not consumed), `task` what each coroutine awaits with the locals it will go on with, `sent`
the calendar call made in the last step. The rest is history, for the properties: `grants` counts the consents of a
user and `standing` says which of them stand. A user consents at Google, before the callback, so a consent is counted and stands
from `Callback` on; a disconnect withdraws all that were given before it, also those whose exchange is still awaited; one
whose exchange fails is lost, and the user is told. A consent is *in force* (`InForce`) when it stands and its exchange has been
answered.

**Steps.** The event loop switches only at an `await`, so a step is the code between two of them:
`Connect`, `Callback` up to the exchange, `Exchanged` (save_token and mark_connected),
`CreateEvent` up to the call or the awaited refresh, `Refreshed` (merge, save_token, call),
`AwaitFails`, `Disconnect`. `Restart` ends the process at any point, with entries and coroutines
lost. `Tick` lets time pass. The answer of Google may have been issued at any time since the
request (`Received`).

**Clock assumption.** `Delay <= Margin` says that an answer is taken up no later after the request
than the margin the code refreshes before expiry (60 s; the HTTP client's timeout is 20 s). The
code does not enforce it: the timeout is per phase, and the calendar's `urlopen` blocks the
loop. It is an assumption on the environment, and `CallsCarryLiveToken` is as good as it.
The other properties do not rest on it.

| run | instance | shows |
|---|---|---|
| `google_serial` | 1 task, 2 users, 2 consents, times 0..4 | `StatusTellsConsent`, with restarts at any point |
| `google_concurrent` | 2 tasks, 1 user, 3 consents, times 0..6 | `ConnectedHasToken`, `ConsentShown`, `StatusStaysTrue`, `CallsCarryLiveToken`, `RefreshTokenKept` |
| `google_resurrected` | 2 tasks, 1 user, no exchange overtaken by a disconnect (`ExchangesNotOvertaken`) | `StatusTellsConsent` is violated: a refresh under way saves the token that a disconnect deleted |

`StatusTellsConsent` fails in two ways when tasks overlap, both of which need a disconnect while an answer is awaited. A
refresh that is awaited brings the token back (`google_resurrected`); an exchange that is awaited connects the user after the
disconnect (section 11). `StatusStaysTrue` says that there is no third: nothing else ever
makes a user's status wrong or prepares it, and a disconnect for whom nothing is awaited puts right whatever was
wrong. Of the two halves of `StatusTellsConsent` one always holds, `ConsentShown`: who has consented is shown as connected.

*Bounds.* A token lives for 3 ticks with a margin of 1, so that within the clock bound it is fresh,
stale and past its end, and an answer can arrive at the last admissible moment. Two tasks are
enough for every pair of handlers to interleave; users share nothing but the tasks, and
the run with two of them checks that. Three consents allow one before, during and after a refresh.

## 5. Permitted actions (M9, M10, n8n, M11)

`Permission.tla` models `permission_service.py` as operators on a request: `Category`, `Risk`,
`ScopeMatches`, `Waived` (the policy) and `Evaluate`. `ActionFlow.tla` models what follows:
`Rebuilt` (how `OrchestrationService` makes M10's request of M9's decision), `Acceptable` (what the
model of that request refuses), `Permitted` (the gate), `Execute` (parameters, adapter, answer), the
webhook call and `Verify` (M11 over a call's response).

**State.** Each element of `Calls` is one call of the engine in a thread of its own: `runs` holds what
it was given and its answer. `network` are the POSTs on their way, `started` those that
started a workflow, `verdicts` what M11 said. The engine itself has no state: a retry is
another call with the same request.

**Steps.** `Orchestrate` and `Act` (the action route) are one step each, up to the answer or up to the
POST, where the thread blocks in `urlopen`. `Arrive` and `Lose` are the network's and n8n's, `Answered` and
`TimeOut` the call's, `Crash` the end of the process. An answer of n8n may be an object or empty
(executed), an object with a `would_execute` that is true, on which lines 161 to 171 answer "would_execute" although the workflow has
started, an error or no JSON (failed), or JSON that is no object, on which `result.get` raises
outside the `try`.

**Data.** `Requests`, `Actions`, `Types` and `Targets` are ids; `Create_Calendar_Event` stands for any
spelling that differs in case only. The target types the risk table treats alike have one representative.
Parameters are complete, incomplete or unsafe; evidence is what it proves.

| run | instance | shows |
|---|---|---|
| `action` | 1 call; some 14000 requests crossing policies, risks, approvals, scopes, expiry, times; contradictory claims on the action route; each action type with evidence and both flags; a POST lost or late, a crash; fair timeouts | `EffectsApproved`, `AnswersAreHonest`, `VerdictsAreEarned`, `CallsEnd` |

`EffectsApproved` is worth a remark. M9 lets a generous policy waive approval for low and medium risk, so
one expects effects without approval. There are none, because none of the types that M10 executes
is in M9's table, and an unknown type is of high risk; the one-line mutant that adds the calendar event to
the table breaks the property. `AnswersAreHonest` says of "would_execute" that nothing happens only where a dry run was asked for
(`DryRun`); elsewhere the word is n8n's, about a workflow that has started. It deliberately says nothing of "failed": the
workflow may have started, and a caller that repeats the request starts another. That the call itself does not is `StartsOnce`, which is proved
and has no run.

*Bounds.* A decision depends on one request only, and calls share nothing but the crash, which ends them all: each call
of a behaviour with several goes through a behaviour of its own. The theorems say so for any number of calls. A piece of evidence
is looked at for one action type only, so none, each kind alone and all but one stand for the sets of evidence.

*Fairness.* `CallsEnd` assumes weak fairness of `TimeOut` alone: `urlopen` has a timeout of 20 s on each
socket operation. An n8n that sends its answer byte by byte for ever would defeat it.

## 6. The day plan (M6, M7, M8)

`Planning.tla` models `create_plan`, `Today.tla` models `build_today`, and `DayPlan.tla` puts them together with
`prioritize_plan` between them, as the pipeline or a client of the three routes does. A day
may also be asked for directly, with deadlines, completed tasks and flags that no plan of M6 has.

**State.** In `Planning`, `drafts` are the steps (supplied, or derived by a template), `remaining`, `ready` and
`ordered` the locals of `_order_drafts`, `plan` the answer. In `DayPlan`, `priorities` is what M7 says of each
step. In `Today`, `request` holds the tasks, `selected` the set that `_select_today_tasks` grows, `waits` the
dependencies that each `indegree` counts, `frontier` the list `ready`, `listed` the answer, and `phase` where
the engine is.

**Steps.** `Round` and `BreakCycle` begin an iteration of the outer loop of `_order_drafts`, `Place` is one of
the inner loop, `CreatePlan` numbers the steps. `Prioritize` and `AskToday` are calls of M7 and M8, `Refuse` a
validation error of their request models. `Receive` selects the relevant tasks, `Extend` is a pass over them
that adds dependencies, `Arrange` the pass that adds none, `ListNext` an iteration of
`_dependency_aware_order`, `Answer` its end.

**Data.** A step is its position in the list of drafts, and its key an element of a small set. Lists of
dependencies are sets with a note of what is in them twice, as M6 copies a repetition and M7 refuses it. Which template
a goal leads to is left open; the templates of bookings, purchases, research and the fallback differ in names only.
Scores are thousandths of a point, exact to the floor of a division. Times are numbers and a
day has `DayLength` of them; a zone is an offset. Left out are titles and descriptions with their limits,
confidence, levels, counts, and the list of completed tasks. Two limits matter to what is left out: a simple task takes its
title from the goal, which may be longer than a title (`planning_service.py:96`), and a client that copies an empty
description to M8 is refused (`schemas/today.py:62`).

| run | instance | shows |
|---|---|---|
| `day_plan` | 3 supplied steps with any dependencies among four keys (duplicate keys, a step without id, a repeated dependency), all templates; 3 tasks of seven kinds with any dependencies, two times, zones 0 and 2 of a day of 4 | all properties below |
| `today_zone` | the days in zone 2 | `DueTodaySelected` of the documentation is violated |

* M6: `BrokenOnlyByCycles` (the fallback for cycles disturbs nobody else), `EveryStepPlanned` (duplicate keys), and
  `SortedByDepth`, a reference definition: without cycles a plan is sorted by depth, then as supplied.
* M8: `DependenciesListedFirst`, `NoneLeftOver` (the "defensive" end of the loop is never needed),
  `RankYieldsToDependencies` (only dependencies override the rank), `NextComesFirst` (`next_task`, computed
  apart, is the first actionable task of the list).
* Together: `AcceptedPlansPointBack` (what M7 and M8 refuse is just what M6's fallback made of a cycle, or a
  repetition), `FreshDayIsReady` (plan status, blocked flag and open dependencies agree), `Answered`.

*Bounds.* Three steps allow a cycle with a step behind it and a step beside it, a cycle of three, and a diamond
without its top; the templates go up to seven. Three tasks allow a dependency of a dependency, which takes two passes,
and a better-ranked task that waits for a worse one. The kinds of tasks are one for each way into the
selection, two for deadlines on which UTC and the zone disagree, and differ in score.

*Fairness.* `Answered` assumes weak fairness of `Next`: the engines are loops of one thread which wait
for nothing. A client that takes a plan and never asks for the day is not modelled.

## 7. The pipeline (M1 to M8) and research verification (M5)

`Pipeline.tla` models `Orchestrator.run`: eight stages, each of which builds the request of its service from what
the stages before it made, and one `except` clause for all of them. The stages up to M5 are
modelled in it; of M6 to M8 it has what they refuse, and `DayPlan` the rest. `POST /assistant` is one such run.

**State.** `pc` is the stage that is running, which the code does not record; `intent`, `found` and `evidence` are what
M2, M4 and M5 answered, `completed` the keys of the dictionary of that name, `results` those of
`stage_results`, `answer` the status and stage of the result. `failure` notes for the properties who raised.

**Steps.** One for each stage (`Interpret` or `Ask` for M2, without and with a language model); `Refuse` when a
request model rejects what it is given, `Raise` when a service raises. `Fail` is the `except` clause.

**Data.** A text is its length and that of the title which a plan of one step takes from it (the text
without marks at its end). What M2 makes of a text by its rules is left open; what a language model answers is
chosen from `Interpretations`. A source is what matters of it to M4 (does it match?) and to M5: a set of facts, each a value of a
subject, as `_extract_claims` cuts them out of sentences. Limits are small numbers in the place of 10000, 1000, 300 and 500.

| run | instance | shows |
|---|---|---|
| `pipeline` | texts on both sides of each limit; up to three sources with ids, facts and relevance chosen freely (two may share an id); 70 answers of a model | `FailureNamesStage`, `RefusedByLimitsOnly`, `VerifiedIsCorroborated` |

*Bounds.* Two sources can corroborate or contradict each other or replace one another, a third can break what two agree on;
two subjects let one agree while the other conflicts, and exceed the limit of one verified claim.
The system stops when it has answered, so deadlock is not checked, and no liveness is claimed: each stage is one step.

## 8. Services: conversations, audit log, security policy

`MCServices.tla` puts three services of one process side by side that share nothing. `serving` says which of
them a behaviour is about; their properties stand in their own modules.

### Conversation (M15)

`Conversation.tla` models `UIService` over `InMemoryConversationRepository` for one session and its owner. The router's
functions are `def` routes over one module-level service (`api/routes/ui.py:7`), so threads of the pool share its dictionaries without a lock.

**State.** `lists` are Python's list objects and `current` the one that `self.messages[sid]` is: an append changes an object, eviction
and clear bind a new one, and a thread may hold a reference to the old one. `count` is `message_count`. `threads` says where each
call is, with its message, the object it refers to and the copies made of it. `since` and `overlapped` are history:
the messages since the last clear, and whether two calls have been under way at once.

**Steps.** One for each access to what threads share: `Fetch` and `AppendMessage` (line 11), `Reread` (12), `Fits` or
`CopySystem` and `CopyRest` (13 to 18), `Store` (19), `Tally` and `Count` (20). `Handle` and `Respond` are the two messages of an
exchange, `Fail` a backend that raises or answers something sensitive, `Empty` and `Zero` the two halves of clear. Ids are
drawn in any order, as `uuid4` does, and timestamps come with the request.

`WithinLimit` holds in every interleaving. `EvictsOldestFirst` says what eviction promises, of calls that do not overlap and, where it
speaks of age, of timestamps that do not go back. With overlap nothing of the kind is true, and no property claims it: an eviction
that copied the list before a clear brings the cleared messages back; two evictions lose what the other kept; `count` is of another
moment; a clear between question and answer leaves the answer alone. Question and answer carry one
timestamp, so that `get_messages` orders the two by their random ids (line 22).

### Audit log (M13) and the database (bootstrap)

`Bootstrap.tla` models `initialize_database_at`, which the construction of each SQLite repository runs, that is every request
to the audit and memory routes. `executescript` commits statement by statement, so that others see, and a crash leaves, any part of the script
(`RunStatement`). Two initialisers that both read version 0 both run it; the slower one's `INSERT` raises `IntegrityError`, which becomes
a 500 (`RecordVersion`): the request fails, the database is whole. `Locked` is a wait for a lock that ends in an error.

`AuditTrail.tla` builds on it: `Create` and `Insert` record an event; `Look`, `Continue` and `Page` are a client
that lists or searches page by page, with other clients recording in between, errors after which it asks again, and `Crash`.
`PagesComplete` is stated for both orders and any timestamps, also such as lie in the past. Events move to later pages only,
so none is skipped; in descending order some are seen twice, and the property says exactly when.
Recording is not idempotent: a client that repeats a `POST` after an error it cannot interpret records a second event.

### Security policy (M14)

`Security.tla` models `security_service.py` as operators on what the patterns find: the checks (`Result`), `Decision`, both policy functions and
the audit event. `PermissionNeverOverrides` connects the three results that are computed apart: `action_check`'s early
returns, `permission_policy_check`'s own table and the status of the audit event. `SanitizeAgrees`, which is proved and has no run, connects the decision to
sanitize with `sanitize_text`, which looks again. It supposes the default checks: a request that asks for data
exposure alone may be told to sanitize what `sanitize_text` refuses.
Two remarks: nothing in the repository's application code calls `build_security_audit_event` or `permission_policy_check`, only tests; and line 217 looks for secrets
only if the content is not empty, so a secret in the metadata of an action without content is not seen.

| run | instance | shows |
|---|---|---|
| `services` | sessions: 2 threads, 4 messages, limit 2, 3 list objects, timestamps 1..2; audit: 2 clients, 3 events, instants 1..2, pages of 1 and 2; policy: every action, URL, and text with the default checks or any single one | `WithinLimit`, `EvictsOldestFirst`, `PagesComplete`, `SchemaBeforeUse`, `PermissionNeverOverrides` |

*Bounds.* A limit of two with four messages evicts twice and lets a system message compete with others; two threads hold two objects
besides the current one. Three events and pages of one give three pages, with an event recorded between any two of them; two initialisers
are enough for every pair of statements. Two action constraints (`Bounded`) leave out what no property tells apart: once calls
overlap, ids and timestamps matter to `EvictsOldestFirst` only, which no longer speaks, so messages have them in one order
(`OneOrder`); and while a script runs, the log is empty (`EmptyWhileNew`). The theorems have neither constraint. The run is one of
safety, so constraints and symmetry are sound. A service may use up its ids or answer its one request, so deadlock is not checked.

## 9. The web page and its server

`Frontend.tla` models `frontend/app.js`, `Gate.tla` what a request meets in `main.py`, and `Web.tla` joins them: a `Submit` of the page is an
`Arrival` at the gate, and the status the gate or the route answers decides between `Answer` and `Refusal`.

**State.** Of the page: `display` (`currentState`), `error`, `disabled`, `listening`, `chat`, and of the browser
`fetching`, `recognizer`, `utterance` and `events`, the events of utterances that no handler has seen yet. Of the gate: `requests`, each with the bytes read and
where it is.

**Steps.** Each handler of the page runs to its end; `sendToAssistant` is two, before and after its `await`. `speechSynthesis.cancel`
ends an utterance that is spoken with an event, which comes after the handler, and one that waits perhaps without
(`Cancel`). `recognition.stop` shows in `RecognizerEnds`. At the gate, `Enter` is the check of the content type and the declared length, `Read` takes a chunk, `Disconnect` is a client
that has gone, whose partial body the code passes on; `Route` answers with any status the handlers of `main.py` produce.

`DisplayIsFounded` is the property of the callbacks: the end of an earlier utterance may well set the display to IDLE while
a request is pending, or to SPEAKING after Clear, but whatever the page shows as going on is going on, or an event that ends it is on its
way. `AnswersInPlace` says where the answer of a request lands that was pending when the user cleared: Clear does not cancel it, so it stands below
the greeting. `LimitIsExact` ties `content-length` and the sum of chunks to one limit, and says that the routes see the
whole body unless the client left.

| run | instance | shows |
|---|---|---|
| `web` | the page with and without speech and recognition, two requests of any size to 3; every request of another client; limit 2 | `LimitIsExact`, `DisplayIsFounded`, `AnswersInPlace`, `ButtonsReturn` |

*Bounds.* Two requests let the events of the first answer's utterance fall anywhere in the second. Sizes 0 to 3 lie on both sides of the limit and on it, with a
header that is missing, false or true. Requests of other clients share nothing with the page and have behaviours of their own (`Alone`).
The page stops when its requests are used up and nothing is spoken, so deadlock is not checked.

*Fairness.* `ButtonsReturn` needs that a request is not stuck: weak fairness of the gate's and the route's steps for each request (the server gets to every
request, the page's bodies end, routes return) and of the arrival of the response. Nothing else is assumed: `NetworkFails`,
`Disconnect` and the browser's events may happen or not. The page sets no timeout on its fetch, so without this assumption the buttons may stay disabled for ever.

## 10. Proofs

`MemoryProofs`, `GoogleConnectionProofs`, `ActionFlowProofs`, `DayPlanProofs`, `PipelineProofs`, `ServicesProofs`,
`AuditTrailProofs` and `WebProofs` prove every safety property of the passing runs, and the type invariants, for
every value of the constants. A `Serial` theorem has the hypothesis of its run, that all workers (tasks) are equal.
For each finding they also say how far it reaches.

*Memory, any interleaving.* `TypeCorrect`, `OwnershipKept`, `RepliesIsolated`, `SecretsStayOut` and
`ExpiryIsHonest` follow from `IInv`. The properties speak of the table and of replies, but what a
worker saves is a copy it made earlier; `IInv` therefore says of every held copy what has to hold
when it is saved: that it belongs to the caller, agrees in user and key with the row it will
replace, contains no secret, and is marked expired only if it has lapsed.

*Memory, one worker.* `SerialUniqueLive`, `SerialForgottenFinal`, `SerialVersionCounts` and
`SerialKeepsPromise` are proved under the hypothesis `Serial` (all workers are equal). `SInv` adds that the held
copies still relate to the table as they did when they were made: nobody else has
changed it. `memory_lost_forget` shows that the hypothesis cannot be dropped. The refinement
also needs `Skew = 0`: with a clock that runs backwards a lapsed memory would live again.

What is left of `ForgottenFinal` when requests overlap is `ForgottenForGood`, of the property `ForgottenStays`: once a memory is
forgotten and no request holds an earlier copy of it (`Rested`), its row never changes again. `NoCopyTaken` is the
reason, that no handler copies a forgotten record; so an overwritten forget is always the work of a
request that had read the row before.

*Google, any interleaving.* `TypeCorrect`, `StoresAgree`, `CallsAreLive` and
`RefreshTokenSurvives` follow from an `IInv` that adds: a waiting coroutine knows its user and the
token it read, awaits no longer than `Delay`, and the `expires_at` of a stored token exceeds its true
end by at most `Delay`. The last, with `Delay <= Margin`, is why a token that is not stale still works.

On top of it come the consents. `Numbered` says that consents are numbered in the order in which they are given and each is exchanged
by one coroutine; five lemmas (`QuietBooks` to `DisconnectBooks`) say what each kind of step does to those in force. `ConsentIsShown`
follows from `Backing`: behind a consent in force there is a token, and no entry says "disconnected".
`OnlyDisconnectsUnsettle` is `StatusStaysTrue`, of a user who is `Settled`: token and status are right, and what is awaited for the user will
leave them right. An answered exchange settles the user if its consent still stands (`ExchangedSettles`), a
disconnect if nothing is awaited (`DisconnectSettles`), and every other step keeps the token, the entry or the reason (`SettledKept`).

*Google, one task.* `SerialStatusTellsConsent` and `SerialLatestGrant` (the stored token comes from the latest consent that stands). With one
coroutine no disconnect overlaps an awaited answer, so that `Settled` is invariant (`SerialSettled`); `SInv` adds
that the token a refresh has read and the one stored come from the same consent, and an awaited exchange is for the latest.

*Permitted actions.* `TypeCorrect`, `EffectsAreApproved`, `HonestAnswers` and `EarnedVerdicts`, for any
sets of requests, calls and evidence. `IInv` says of each recorded run that M10's request is M9's decision
rebuilt (`Faithful`), that what the adapter returned fits the answer (`Coherent`), and that a call
with a POST under way or started was permitted, was no dry run, and has not been answered otherwise. `CalendarNotWaived` and
`AllowedIsCovered` are the lemmas about M9 that give `EffectsApproved`; `RebuiltType` says that
M9's decisions are within M10's vocabulary whenever M10's model accepts them. `WorkflowsStartOnce` adds (`StartsOnce`),
however POSTs are late or lost, that a call posts once at most, a POST starts one workflow at most, and no answer is
changed; its invariant `Apart` says that a POST under way has started nothing yet.

*The day plan*, for any number of steps and tasks. Three invariants are proved one after the other. `PInv` says of
`_order_drafts` that ordered and remaining steps share out the kept ones, and that a step in the current
round is free or behind a cycle; `CyclesAlone` and `NoStepLost` follow. `TInv` says what `waits` and `frontier` are in terms of
the list, and `NotOutranked`: a task in the list is not outranked by one that could have been listed then. It is
what sorting the ready list anew amounts to, and the ranking itself is never opened: `DependenciesFirst`, `AllListed`,
`RankYields`, `NextIsFirst` and `Justified` (only open tasks are selected, and irrelevant ones only as dependencies) hold for any ranking. `Link` ties the engines together;

`RoundsAreLevels` is `SortedByDepth` for plans of any size. Its reference definition, `Within`, is a recursive function, and the
theorem needs no induction theorem: the least-number principle shows that a function with that equation exists (`LevelsExist`),
that its levels grow (`WithinAscends`), and that without cycles they reach every step (`Deep`). `Levelled` says that the
current round is a level, of which some steps are placed, and that `BreakCycle` has no occasion. A step is placed sooner than
another if it is on an earlier level, or on the same and supplied earlier (`Sooner`).

`OnlyCyclesRefused` goes from a plan without cycles to dependencies that point back (a cycle of keys would be one
of numbers), and back by the least number of a set; `FreshDay` follows the flags through M7.
`OnlyDatesMiss` and `DueTodayInUTC` delimit the finding of `today_zone`: in no zone does the engine miss a task
due today but by taking its date in UTC, and where all times are in UTC it misses none.
`EveryStepIsFurther` is the variant of the three engines: each step goes to a later stage, or leaves fewer
steps or tasks in the loop of its stage (`Left`). That is the part of `Answered` that needs no fairness: no loop runs for ever.
`TypeCorrect` needs that the score stays on its scale, since a step has no more dependents than the one with the most.
`Least` and `Greatest`, the minimum principle and its mirror image, come from the library's well-foundedness of the
natural numbers.

*The pipeline*, for any requests, answers of a model and limits: `TypeCorrect`, `Blamed`, `OnlyLimits` and
`TwoWitnesses`, that is, all that its run checks. `IInv` says that the completed stages are those before the running one
(`Progress`), that a limit once passed is passed still (`Gates`), that a refusal has a reason (`Reasons`), and that the evidence is what
M5 makes of the sources as they are now (`Grounds`). Each action keeps it because no stage changes what an earlier one looked at.

*Conversation*, for any number of threads and any limit: `TypeCorrect` and `LimitKept`. `WithinLimit` is about the
sessions at rest, but the threads that shorten a list may shorten one that is no longer the session's. `Attended` says
what is true in between: while the session's list is too long, some thread is on its way to look at it (`Shortens`), and it will
look at this list, because an appender re-reads `self.messages` afterwards. `KeptAreFew` says that the `while`
loop leaves no more than the limit: all but the first of the `Youngest` come after it, and are too few (`YoungestAreFew`).

`OldestGoFirst` is about calls that do not overlap, from `Orderly`, which the ghost `overlapped` guards. At rest the session
is within the limit, holds as many as the limit if anything has gone, and keeps its system messages as long as there is room
(`Settled`); during a call `Phase` says how far the one thread has come. `KeptInFull`
counts what an eviction keeps: exactly as many as the limit, and each of them later in the order of eviction than everything that goes.

*Security policy*, for any actions, texts, URLs and threats: `PermissionIsNoOverride` and `SanitizeIsPossible`, from
`PolicyInd` (a decision is that of its request, an event that of the decision).

*Audit log*, for any number of clients, events and page sizes. `SchemaComesFirst` follows from `Ran`: a client in the
middle of the script has run what lies before its place, whoever else ran it too. `AuditTypeCorrect` and `PagesAreComplete` follow from
`Sighted`: of the matching events that were there at the start, those whose `Rank` in the order is below the offset have been
seen. Ranks only grow with the log (`RanksGrow`), so the next slice finds every event that has moved, at its new rank
(`PlacesAreRanks`). `Resting` says that a client that has finished asks for nothing more.

*The page and the gate*, for any number of requests, sizes and any limit: `TypeCorrect`, `LimitExact`, `DisplayFounded`,
`AnswersPlaced`. `Sound` is what is true of a request halfway; `Pending` says that disabled buttons, the one pending fetch and
the last bubble belong together, which is why a late answer finds its place; `Ending`, that behind the
start of an utterance on its way its end is on its way too, or the utterance is still spoken.

*Assumptions.* `TimeAssumption` (bounds are natural numbers), `NeverAssumption` and `NoneAssumption`
(the markers for absent values are no values), `AskedAssumption`, `PosedAssumption`,
`SuppliedAssumption`, `CustomAssumption`, `RequestsAssumption`, `TimesAssumption`, `DayAssumption`, `InputsAssumption`, `LimitsAssumption`,
`ForeignAssumption` (the inputs are well-typed, and the pipeline can be asked at some time in some zone), `NumbersAssumption`, `AuditAssumption`,
`SizesAssumption`, `NamesAssumption` (ids, times, sizes and limits are natural numbers), `AbsentAssumption` (the marker for no request
is no request), `AbsenceAssumption`, `ClockAssumption` (above). `RequestsAssumption` also says that a request has finitely many tasks: they come in a list.

*Only model-checked.* The liveness properties `CallsEnd`, `Answered` and `ButtonsReturn`: fairness and ENABLED are beyond the prover
here. The findings are counterexamples of TLC. For the recursive functions of the models (`Within` alone) nothing is left to TLC.

## 11. Findings

1. An update overwrites a concurrent forget (`memory_lost_forget`).
2. A token refresh undoes a concurrent disconnect (`google_resurrected`).
3. Today selects by the date in UTC, though the documentation promises the caller's date (`today_zone`): a task due later on the caller's
   date, but on the next one in UTC, is not relevant by itself, even if it is required and free of dependencies.

Each is described with its lines in `PROJECT.json`. These divergences were met on the way and have no run:

* Two concurrent stores leave two live memories under one key (section 3).
* A disconnect while the exchange of a code is awaited (`google_oauth/service.py:56-64`) answers "Google account disconnected", and the user
  ends connected. The two requests overlap, and no doc or test says which of them wins, so there is no run for it; `StatusStaysTrue` names it
  as one of the two ways to a wrong status.
* The gate of M10 does not read `permission_required` (`action_service.py:211`), though
  `README_MODULE_10.md:29` makes a granted permission a condition of execution when it is true.
* An approved calendar event does call the n8n webhook (`action_service.py:109`), which
  `README_MODULE_10.md:9` rules out, and its attempt cannot be given to the verifier, whose
  `ActionType` (`schemas/execution.py:9`) lacks it (`Verify` answers "refused").
* Two supplied sources may have one `source_id`. M5 then gets the later one for each result, although a comment
  promises the exact source objects supplied (`pipeline.py:242`); `VerifiedIsCorroborated` therefore supposes different ids.
* A language model that answers an empty `time_reference` instead of none passes six stages and fails at M7
  (`schemas/priority.py:91`), the first to look at it; a goal of one step longer than a title fails at M6.
* The router of `api/routes/ui.py` is not among those that `main.py` registers (lines 36 to 39), nor are those of the audit log, the
  security policy and memory; they run in tests and in applications that mount them.
* Of two requests that set up a new database at once one may answer 500, although `migrations.py:12` calls the migration safe to
  run repeatedly: one after the other it is.

## 12. Not modelled

* LLM providers (`llm/*`): one blocking HTTP call each, with parsing of its answer and no state between calls. `Pipeline` has any
  well-formed answer, and a failure, as outcomes of the intent stage.
* Voice adapters (`services/voice/*`): interfaces and mocks without behaviour.
* The text rules of intent, context and research, and the matching of patterns in the security policy: pure functions of strings;
  the models leave their outcome open.
* `ConnectionManager.connect` and `remove`, which only tests call; token encryption and the signature of states.
* How many blocking calls can pile up in front of an answer of Google: the clock assumption of section 4.
* The repositories in memory of M12 and M13: with persistence off the routes make a new one for each request, which forgets
  everything at once.
* Retrieval and counting of audit events, and their integrity hash, which change nothing; the access log.
