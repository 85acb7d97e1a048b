-------------------------- MODULE ActionFlowProofs --------------------------
(***************************************************************************)
(* Proofs about ActionFlow, for any requests, calls and evidence.          *)
(***************************************************************************)
EXTENDS ActionFlow, TLAPS

\* The kind of action that has an effect, no dry run, with a decision that permits it.
Effective(a) ==
  /\ a # None
  /\ a.type = "create_calendar_event"
  /\ ~a.dry
  /\ Permitted(a)

\* M10's request is M9's decision, if M9 made it.
Faithful(q) ==
  (q.asked # None /\ q.act # None) => q.act = Rebuilt(q.asked, q.act.params, q.act.dry)

Coherent(q) ==
  /\ q.act = None => q.status = "raised"
  /\ q.status \in {"posting", "lost"} => Effective(q.act)
  /\ q.result = "dry_run" => q.status = "would_execute"
  /\ q.result \in {"no_op", "preview", "record"} => q.status = "executed"
  /\ (q.status = "executed" /\ q.act.type = "no_op") => q.result = "no_op"

RunOK(c) ==
  /\ runs[c] = None => c \notin Effects
  /\ runs[c] # None =>
       /\ Faithful(runs[c])
       /\ Coherent(runs[c])
       /\ c \in Effects =>
            /\ Effective(runs[c].act)
            /\ runs[c].status \notin {"blocked", "unsupported"}
       /\ runs[c].status = "executed" /\ runs[c].act.type = "create_calendar_event"
            => c \in started
       /\ runs[c].status = "would_execute" /\ ~DryRun(runs[c].act) => c \in started

VerdictOK(c) ==
  verdicts[c] # None =>
    /\ runs[c] # None
    /\ runs[c].status \in Responses
    /\ verdicts[c].status = "verified_success" =>
         \/ /\ runs[c].status = "would_execute"
            /\ verdicts[c].observed = "dry_run_completed"
         \/ /\ runs[c].status = "executed"
            /\ runs[c].result \in {"no_op", "preview", "record"}
         \/ Proof(runs[c].act.type) \in verdicts[c].evidence

IInv == TypeOK /\ \A c \in Calls : RunOK(c) /\ VerdictOK(c)

-----------------------------------------------------------------------------
\* A calendar event is of no category M9 knows, so its risk is high and no policy waives it.
LEMMA CalendarNotWaived ==
  ASSUME NEW r, r.type = "create_calendar_event"
  PROVE  ~Waived(r)
PROOF
<1>1. Lower(r.type) = "create_calendar_event"
  BY DEF Lower
<1>2. Category(r.type) = "unknown"
  BY <1>1 DEF Category
<1>3. QED
  BY <1>2 DEF Waived

\* What M9 allows for a calendar event, it allows by an approval that covers it.
LEMMA AllowedIsCovered ==
  ASSUME NEW r \in PermissionRequest, r.type = "create_calendar_event",
         Evaluate(r).decision = "ALLOW"
  PROVE  /\ r.approval_status # "denied"
         /\ r.approval # None
         /\ r.approval.scope # None
         /\ Covers(r.approval, r)
PROOF
<1>1. ~Waived(r)
  BY CalendarNotWaived
<1>2. ~Denied(r) /\ Approved(r) /\ ScopeMatches(r)
  BY <1>1 DEF Evaluate, Decision
<1>3. r.approval \in Approval
  BY <1>2 DEF Approved, PermissionRequest
<1>4. r.approval.expires # None =>
        /\ r.time # None
        /\ r.time \in Nat
        /\ r.approval.expires \in Nat
        /\ ~(r.approval.expires <= r.time)
  BY <1>2, <1>3 DEF ScopeMatches, Lapsed, Approval, PermissionRequest
<1>5. r.approval.expires # None => r.time # None /\ r.time < r.approval.expires
  BY <1>4
<1>6. /\ Lower(r.approval.scope.type) = Lower(r.type)
      /\ r.approval.scope.target \in {None, r.target}
      /\ r.approval.scope.target_type \in {None, r.target_type}
      /\ r.approval.scope.one_time => r.approval.action = r.action
      /\ r.approval.scope.one_time \/ r.approval.scope.reusable
      /\ r.approval.scope # None
  BY <1>2 DEF ScopeMatches
<1>7. r.approval.status = "approved" /\ r.approval_status # "denied" /\ r.approval # None
  BY <1>2 DEF Approved, Denied
<1>8. QED
  BY <1>5, <1>6, <1>7 DEF Covers

\* The request M9's decision is rebuilt to is one of M10's, if M10's model accepts it.
LEMMA RebuiltType ==
  ASSUME NEW r \in PermissionRequest, NEW params \in Parameters, NEW dry \in BOOLEAN,
         Acceptable(Rebuilt(r, params, dry), Evaluate(r).category)
  PROVE  Rebuilt(r, params, dry) \in ActionRequest
PROOF
<1> DEFINE d == Evaluate(r)
<1>1. /\ d.decision \in {"ALLOW", "REQUIRE_APPROVAL", "DENY"}
      /\ d.state \in {"not_required", "required", "granted", "denied", "expired", "invalid"}
      /\ d.required \in BOOLEAN
      /\ d.valid \in BOOLEAN
  BY DEF Evaluate, Decision
<1>2. d.scope = IF r.scope # None \/ r.approval = None THEN r.scope ELSE r.approval.scope
  BY DEF Evaluate, Decision
<1>3. d.scope \in Scope \cup {None}
  BY <1>2 DEF PermissionRequest, Approval
<1>4. d.scope # None => d.scope.scope_type \in ScopeTypes
  BY DEF Acceptable, Rebuilt
<1>5. d.scope \in ActionScope \cup {None}
  BY <1>3, <1>4 DEF Scope, ActionScope
<1>6. r.request \in Requests /\ r.action \in Actions /\ r.type \in Types
  BY DEF PermissionRequest
<1> HIDE DEF d
<1>7. QED
  BY <1>1, <1>5, <1>6 DEF Rebuilt, ActionRequest, d

-----------------------------------------------------------------------------
\* A run q that may be recorded for call c beside the given stores.
Recordable(q, sending, begun, c) ==
  /\ q \in Run
  /\ Faithful(q)
  /\ Coherent(q)
  /\ c \in sending \cup begun =>
       /\ Effective(q.act)
       /\ q.status \notin {"blocked", "unsupported"}
  /\ q.status = "executed" /\ q.act.type = "create_calendar_event" => c \in begun
  /\ q.status = "would_execute" /\ ~DryRun(q.act) => c \in begun

\* One call gets its answer, or begins to wait for it; no other call is concerned.
LEMMA RecordPreserves ==
  ASSUME IInv, NEW c \in Calls, NEW q,
         runs' = [runs EXCEPT ![c] = q],
         network' \in {network, network \cup {c}},
         started' = started, verdicts' = verdicts,
         verdicts[c] = None,
         Recordable(q, network', started', c)
  PROVE  IInv'
PROOF
<1>1. TypeOK'
  BY DEF IInv, TypeOK, Recordable
<1>2. /\ runs'[c] = q
      /\ \A d \in Calls : d # c => runs'[d] = runs[d]
  BY DEF IInv, TypeOK
<1>3. ASSUME NEW d \in Calls
      PROVE  (RunOK(d) /\ VerdictOK(d))'
  <2>1. RunOK(d) /\ VerdictOK(d)
    BY DEF IInv
  <2>2. CASE d # c
    <3>1. /\ runs'[d] = runs[d]
          /\ d \in Effects' <=> d \in Effects
      BY <1>2, <2>2 DEF Effects
    <3>2. QED
      BY <2>1, <3>1 DEF RunOK, VerdictOK
  <2>3. CASE d = c
    <3>1. q # None
      BY AbsenceAssumption DEF Recordable
    <3>2. VerdictOK(d)'
      BY <2>3 DEF VerdictOK
    <3>3. RunOK(d)'
      BY <1>2, <2>3, <3>1 DEF RunOK, Recordable, Effects
    <3>4. QED
      BY <3>2, <3>3
  <2>4. QED
    BY <2>2, <2>3
<1>4. QED
  BY <1>1, <1>3 DEF IInv

LEMMA InitOK == Init => IInv
PROOF BY DEF Init, IInv, TypeOK, RunOK, VerdictOK, Effects

\* A call that begins has left no trace.
LEMMA FreshCall ==
  ASSUME IInv, NEW c \in Calls, runs[c] = None
  PROVE  c \notin network /\ c \notin started /\ verdicts[c] = None
PROOF BY DEF IInv, RunOK, VerdictOK, Effects

LEMMA ExecutePreserves ==
  ASSUME IInv, NEW c \in Calls, runs[c] = None,
         NEW asked \in PermissionRequest \cup {None}, NEW a \in ActionRequest,
         asked # None => a = Rebuilt(asked, a.params, a.dry),
         Execute(c, asked, a)
  PROVE  IInv'
PROOF
<1> DEFINE Q(status, result) ==
             [asked |-> asked, act |-> a, status |-> status, result |-> result]
<1>1. c \notin network /\ c \notin started /\ verdicts[c] = None
  BY FreshCall
<1>2. a # None
  BY AbsenceAssumption
<1>3. ASSUME NEW status \in Responses \cup {"posting"}, NEW result \in Results
      PROVE  /\ Q(status, result) \in Run
             /\ Faithful(Q(status, result))
             /\ Q(status, result).act = a
             /\ Q(status, result).status = status
             /\ Q(status, result).result = result
  BY DEF Run, Faithful
<1> HIDE DEF Q
<1>4. ASSUME NEW status \in Responses, NEW result \in Results,
             Returns(c, asked, a, status, result), UNCHANGED network,
             result = "dry_run" => status = "would_execute",
             result \in {"no_op", "preview", "record"} => status = "executed",
             status = "executed" => a.type # "create_calendar_event",
             status = "would_execute" => DryRun(a),
             (status = "executed" /\ a.type = "no_op") => result = "no_op"
      PROVE  IInv'
  <2>1. Recordable(Q(status, result), network', started', c)
    <3>1. c \notin network' \cup started'
      BY <1>1, <1>4 DEF Returns
    <3>2. Coherent(Q(status, result))
      BY <1>2, <1>3, <1>4 DEF Coherent, Responses
    <3>3. QED
      BY <1>3, <1>4, <3>1, <3>2 DEF Recordable
  <2>2. QED
    BY <1>1, <1>4, <2>1, RecordPreserves DEF Returns, Q
<1>5. CASE ~Permitted(a) /\ Returns(c, asked, a, "blocked", "none") /\ UNCHANGED network
  BY <1>4, <1>5 DEF Responses, Results
<1>6. CASE Returns(c, asked, a, "failed", "none") /\ UNCHANGED network
  BY <1>4, <1>6 DEF Responses, Results
<1>7. CASE Returns(c, asked, a, "unsupported", "none") /\ UNCHANGED network
  BY <1>4, <1>7 DEF Responses, Results
<1>8. CASE DryRun(a) /\ Returns(c, asked, a, "would_execute", "dry_run") /\ UNCHANGED network
  BY <1>4, <1>8 DEF Responses, Results
<1>9. CASE /\ a.type \in LocalTypes \cup {"n8n_dispatch_preview"}
           /\ Returns(c, asked, a, "executed", Result(a.type)) /\ UNCHANGED network
  <2>1. Result(a.type) \in {"no_op", "record", "preview", "created"}
    BY DEF Result
  <2>2. a.type # "create_calendar_event"
    BY <1>9 DEF LocalTypes
  <2>3. a.type = "no_op" => Result(a.type) = "no_op"
    BY DEF Result
  <2>4. QED
    BY <1>4, <1>9, <2>1, <2>2, <2>3 DEF Responses, Results
<1>10. CASE /\ a.type = "create_calendar_event" /\ ~a.dry /\ Permitted(a)
            /\ Returns(c, asked, a, "posting", "none") /\ network' = network \cup {c}
  <2>1. Effective(a)
    BY <1>2, <1>10 DEF Effective
  <2>2. Coherent(Q("posting", "none"))
    BY <1>2, <1>3, <2>1 DEF Coherent, Results
  <2>3. Recordable(Q("posting", "none"), network', started', c)
    BY <1>3, <2>1, <2>2 DEF Recordable, Results
  <2>4. QED
    BY <1>1, <1>10, <2>3, RecordPreserves DEF Returns, Q
<1>11. CASE Returns(c, asked, a, "failed", "error") /\ UNCHANGED network
  BY <1>4, <1>11 DEF Responses, Results
<1>12. QED
  BY <1>5, <1>6, <1>7, <1>8, <1>9, <1>10, <1>11 DEF Execute

LEMMA OrchestratePreserves ==
  ASSUME IInv, NEW c \in Calls, NEW r \in Asked, NEW params \in Parameters, NEW dry \in BOOLEAN,
         Orchestrate(c, r, params, dry)
  PROVE  IInv'
PROOF
<1> DEFINE a == Rebuilt(r, params, dry)
<1>1. r \in PermissionRequest /\ runs[c] = None
  BY AskedAssumption DEF Orchestrate
<1>2. CASE Acceptable(a, Evaluate(r).category)
  <2>1. a \in ActionRequest
    BY <1>1, <1>2, RebuiltType
  <2>2. a.params = params /\ a.dry = dry
    BY DEF Rebuilt
  <2>3. a = Rebuilt(r, a.params, a.dry)
    BY <2>2
  <2>4. Execute(c, r, a)
    BY <1>2 DEF Orchestrate
  <2> HIDE DEF a
  <2>5. QED
    BY <1>1, <2>1, <2>3, <2>4, ExecutePreserves
<1>3. CASE ~Acceptable(a, Evaluate(r).category)
  <2> DEFINE q == [asked |-> r, act |-> None, status |-> "raised", result |-> "none"]
  <2>1. runs' = [runs EXCEPT ![c] = q] /\ UNCHANGED <<network, started, verdicts>>
    BY <1>3 DEF Orchestrate, Returns
  <2>2. c \notin network /\ c \notin started /\ verdicts[c] = None
    BY <1>1, FreshCall
  <2>3. Recordable(q, network', started', c)
    BY <1>1, <2>1, <2>2 DEF Recordable, Run, Results, Responses, Faithful, Coherent
  <2> HIDE DEF q
  <2>4. QED
    BY <2>1, <2>2, <2>3, RecordPreserves
<1>4. QED
  BY <1>2, <1>3

LEMMA ActPreserves ==
  ASSUME IInv, NEW c \in Calls, NEW a \in Posed, Act(c, a)
  PROVE  IInv'
PROOF
<1>1. a \in ActionRequest /\ runs[c] = None /\ Execute(c, None, a)
  BY PosedAssumption DEF Act
<1>2. QED
  BY <1>1, ExecutePreserves

\* A waiting call has an effective request and no verdict.
LEMMA WaitingCall ==
  ASSUME IInv, NEW c \in Calls, runs[c] # None, runs[c].status = "posting"
  PROVE  /\ Effective(runs[c].act)
         /\ Faithful(runs[c])
         /\ runs[c] \in Run
         /\ runs[c].act # None
         /\ verdicts[c] = None
PROOF
<1>1. runs[c] \in Run /\ Faithful(runs[c]) /\ Coherent(runs[c])
  BY DEF IInv, TypeOK, RunOK
<1>2. Effective(runs[c].act)
  BY <1>1 DEF Coherent
<1>3. verdicts[c] = None
  BY DEF IInv, VerdictOK, Responses
<1>4. QED
  BY <1>1, <1>2, <1>3 DEF Effective

\* A waiting call is told how it ended.
LEMMA EndPreserves ==
  ASSUME IInv, NEW c \in Calls, runs[c] # None, runs[c].status = "posting",
         NEW status \in {"executed", "would_execute", "failed", "raised"}, NEW result \in {"answer", "error", "none"},
         Returns(c, runs[c].asked, runs[c].act, status, result), UNCHANGED network,
         status \in {"executed", "would_execute"} => c \in started
  PROVE  IInv'
PROOF
<1> DEFINE q == [asked |-> runs[c].asked, act |-> runs[c].act, status |-> status, result |-> result]
<1>1. /\ Effective(runs[c].act)
      /\ Faithful(runs[c])
      /\ runs[c] \in Run
      /\ runs[c].act # None
      /\ verdicts[c] = None
  BY WaitingCall
<1>2. /\ q.asked = runs[c].asked
      /\ q.act = runs[c].act
      /\ q.status = status
      /\ q.result = result
  OBVIOUS
<1>3. q \in Run
  BY <1>1 DEF Run, Responses, Results
<1>4. runs' = [runs EXCEPT ![c] = q] /\ UNCHANGED <<network, started, verdicts>>
  BY DEF Returns
<1> HIDE DEF q
<1>5. Faithful(q)
  BY <1>1, <1>2 DEF Faithful
<1>6. Coherent(q)
  BY <1>1, <1>2 DEF Coherent, Effective
<1>7. Recordable(q, network', started', c)
  BY <1>1, <1>2, <1>3, <1>4, <1>5, <1>6 DEF Recordable
<1>8. QED
  BY <1>1, <1>4, <1>7, RecordPreserves

LEMMA AnsweredPreserves ==
  ASSUME IInv, NEW c \in Calls, Answered(c)
  PROVE  IInv'
PROOF
<1>1. runs[c] # None /\ runs[c].status = "posting" /\ c \in started /\ UNCHANGED network
  BY DEF Answered
<1>2. CASE Returns(c, runs[c].asked, runs[c].act, "executed", "answer")
  BY <1>1, <1>2, EndPreserves
<1>3. CASE Returns(c, runs[c].asked, runs[c].act, "failed", "error")
  BY <1>1, <1>3, EndPreserves
<1>4. CASE Returns(c, runs[c].asked, runs[c].act, "raised", "none")
  BY <1>1, <1>4, EndPreserves
<1>5. CASE Returns(c, runs[c].asked, runs[c].act, "would_execute", "answer")
  BY <1>1, <1>5, EndPreserves
<1>6. QED
  BY <1>2, <1>3, <1>4, <1>5 DEF Answered

LEMMA TimeOutPreserves ==
  ASSUME IInv, NEW c \in Calls, TimeOut(c)
  PROVE  IInv'
PROOF BY EndPreserves DEF TimeOut

\* The POST of a call arrives or is lost: the effects do not grow.
LEMMA TravelPreserves ==
  ASSUME IInv, NEW c \in Calls, Arrive(c) \/ Lose(c)
  PROVE  IInv'
PROOF
<1>1. /\ network' = network \ {c}
      /\ started \subseteq started'
      /\ started' \subseteq Calls
      /\ Effects' \subseteq Effects
      /\ UNCHANGED <<runs, verdicts>>
  BY DEF Arrive, Lose, Effects, IInv, TypeOK
<1>2. TypeOK'
  BY <1>1 DEF IInv, TypeOK
<1>3. ASSUME NEW d \in Calls
      PROVE  (RunOK(d) /\ VerdictOK(d))'
  BY <1>1 DEF IInv, RunOK, VerdictOK
<1>4. QED
  BY <1>2, <1>3 DEF IInv

LEMMA CrashPreserves ==
  ASSUME IInv, Crash
  PROVE  IInv'
PROOF
<1>1. UNCHANGED <<network, started, verdicts>>
  BY DEF Crash
<1>2. ASSUME NEW d \in Calls, ~(runs[d] # None /\ runs[d].status = "posting")
      PROVE  runs'[d] = runs[d]
  BY <1>2 DEF Crash
<1>3. ASSUME NEW d \in Calls, runs[d] # None, runs[d].status = "posting"
      PROVE  /\ runs'[d] \in Run
             /\ runs'[d] # None
             /\ runs'[d].asked = runs[d].asked
             /\ runs'[d].act = runs[d].act
             /\ runs'[d].status = "lost"
             /\ runs'[d].result = runs[d].result
  <2>1. runs'[d] = [runs[d] EXCEPT !.status = "lost"]
    BY <1>3 DEF Crash
  <2>2. runs[d] \in Run
    BY <1>3, WaitingCall
  <2>3. runs'[d] \in Run
    BY <2>1, <2>2 DEF Run
  <2>4. /\ runs'[d].asked = runs[d].asked
        /\ runs'[d].act = runs[d].act
        /\ runs'[d].status = "lost"
        /\ runs'[d].result = runs[d].result
    BY <2>1, <2>2 DEF Run
  <2>5. QED
    BY <2>3, <2>4, AbsenceAssumption
<1>4. TypeOK'
  <2>1. runs' \in [Calls -> Run \cup {None}]
    <3>1. \A d \in Calls : runs'[d] \in Run \cup {None}
      BY <1>2, <1>3 DEF IInv, TypeOK
    <3>2. runs' = [d \in Calls |-> runs'[d]]
      BY DEF Crash
    <3>3. QED
      BY <3>1, <3>2
  <2>2. QED
    BY <1>1, <2>1 DEF IInv, TypeOK
<1>5. ASSUME NEW d \in Calls
      PROVE  (RunOK(d) /\ VerdictOK(d))'
  <2>1. RunOK(d) /\ VerdictOK(d)
    BY DEF IInv
  <2>2. CASE ~(runs[d] # None /\ runs[d].status = "posting")
    <3>1. runs'[d] = runs[d]
      BY <1>2, <2>2
    <3>2. QED
      BY <1>1, <2>1, <3>1 DEF RunOK, VerdictOK, Effects
  <2>3. CASE runs[d] # None /\ runs[d].status = "posting"
    <3>1. /\ Effective(runs[d].act)
          /\ Faithful(runs[d])
          /\ verdicts[d] = None
      BY <2>3, WaitingCall
    <3>2. /\ runs'[d] # None
          /\ runs'[d].asked = runs[d].asked
          /\ runs'[d].act = runs[d].act
          /\ runs'[d].status = "lost"
          /\ runs'[d].result = runs[d].result
      BY <1>3, <2>3
    <3>3. Coherent(runs[d])
      BY <2>1, <2>3 DEF RunOK
    <3>4. Faithful(runs[d])'
      BY <3>1, <3>2 DEF Faithful
    <3>5. Coherent(runs[d])'
      BY <2>3, <3>1, <3>2, <3>3 DEF Coherent, Effective
    <3>6. RunOK(d)'
      BY <1>1, <3>1, <3>2, <3>4, <3>5 DEF RunOK, Effects, Effective
    <3>7. VerdictOK(d)'
      BY <1>1, <3>1 DEF VerdictOK
    <3>8. QED
      BY <3>6, <3>7
  <2>4. QED
    BY <2>2, <2>3
<1>6. QED
  BY <1>4, <1>5 DEF IInv

\* M11 finds for success only what VerdictOK allows.
LEMMA JudgedSoundly ==
  ASSUME NEW q \in Run, Coherent(q), NEW dry \in BOOLEAN, NEW evidence \in SUBSET Evidence,
         q.status \in Responses, Judged(q, dry, evidence) # "none"
  PROVE  \/ q.status = "would_execute" /\ Judged(q, dry, evidence) = "dry_run_completed"
         \/ q.status = "executed" /\ q.result \in {"no_op", "preview", "record"}
         \/ Proof(q.act.type) \in evidence
PROOF
<1>1. Proof(q.act.type) \in {"note", "task", "draft", "browser", "preview", "record", "no_op"}
  BY DEF Proof
<1>2. q.result \in Results
  BY DEF Run
<1>3. q.result = Proof(q.act.type) => q.result \in {"no_op", "preview", "record"}
  BY <1>1, <1>2 DEF Results
<1>4. QED
  BY <1>3 DEF Judged, ControlledSuccess, Coherent

LEMMA VerifyPreserves ==
  ASSUME IInv, NEW c \in Calls, NEW dry \in BOOLEAN, NEW evidence \in Supplied,
         Verify(c, dry, evidence)
  PROVE  IInv'
PROOF
<1> DEFINE o == Judged(runs[c], dry, evidence)
           Says(status, observed) ==
             [status |-> status, observed |-> observed, evidence |-> evidence]
<1>1. /\ runs[c] # None /\ runs[c].status \in Responses
      /\ UNCHANGED <<runs, network, started>>
  BY DEF Verify
<1>2. runs[c] \in Run /\ Coherent(runs[c])
  BY <1>1 DEF IInv, TypeOK, RunOK
<1>3. evidence \in SUBSET Evidence
  BY SuppliedAssumption
<1>4. o \in {"none", "completed", "dry_run_completed", "browser_opened"}
  BY DEF Judged
<1>5. o # "none" =>
        \/ runs[c].status = "would_execute" /\ o = "dry_run_completed"
        \/ runs[c].status = "executed" /\ runs[c].result \in {"no_op", "preview", "record"}
        \/ Proof(runs[c].act.type) \in evidence
  BY <1>1, <1>2, <1>3, JudgedSoundly
<1>6. \E v \in {Says("refused", "none"), Says("not_attempted", "none"), Says("unknown", "none"),
                 Says("verified_success", o)} :
        /\ verdicts' = [verdicts EXCEPT ![c] = v]
        /\ v = Says("verified_success", o) => o # "none"
  BY DEF Verify
<1> HIDE DEF o
<1>7. PICK v \in {Says("refused", "none"), Says("not_attempted", "none"), Says("unknown", "none"),
                  Says("verified_success", o)} :
        /\ verdicts' = [verdicts EXCEPT ![c] = v]
        /\ v = Says("verified_success", o) => o # "none"
  BY <1>6
<1>8. v \in Verdict
  BY <1>3, <1>4, <1>7 DEF Verdict
<1>9. v.evidence = evidence
  BY <1>7
<1>10. v.status = "verified_success" => v.observed = o /\ o # "none"
  BY <1>7
<1>11. TypeOK'
  BY <1>1, <1>7, <1>8 DEF IInv, TypeOK
<1>12. ASSUME NEW d \in Calls
       PROVE  (RunOK(d) /\ VerdictOK(d))'
  <2>1. RunOK(d) /\ VerdictOK(d)
    BY DEF IInv
  <2>2. RunOK(d)'
    BY <1>1, <2>1 DEF RunOK, Effects
  <2>3. CASE d # c
    <3>1. verdicts'[d] = verdicts[d]
      BY <1>7, <2>3 DEF IInv, TypeOK
    <3>2. QED
      BY <1>1, <2>1, <2>2, <3>1 DEF VerdictOK
  <2>4. CASE d = c
    <3>1. verdicts'[c] = v
      BY <1>7 DEF IInv, TypeOK
    <3>2. VerdictOK(c)'
      BY <1>1, <1>5, <1>9, <1>10, <3>1 DEF VerdictOK
    <3>3. QED
      BY <2>2, <2>4, <3>2
  <2>5. QED
    BY <2>3, <2>4
<1>13. QED
  BY <1>11, <1>12 DEF IInv

-----------------------------------------------------------------------------
\* No step of any call, and no crash, breaks the invariant.
LEMMA NextPreserves ==
  ASSUME IInv, [Next]_vars
  PROVE  IInv'
PROOF
<1>1. CASE UNCHANGED vars
  BY <1>1 DEF vars, IInv, TypeOK, RunOK, VerdictOK, Effects
<1>2. CASE Crash
  BY <1>2, CrashPreserves
<1>3. ASSUME NEW c \in Calls, Step(c)
      PROVE  IInv'
  <2>1. CASE \E r \in Asked, params \in Parameters, dry \in BOOLEAN : Orchestrate(c, r, params, dry)
    BY <2>1, OrchestratePreserves
  <2>2. CASE \E a \in Posed : Act(c, a)
    BY <2>2, ActPreserves
  <2>3. CASE Arrive(c) \/ Lose(c)
    BY <2>3, TravelPreserves
  <2>4. CASE Answered(c)
    BY <2>4, AnsweredPreserves
  <2>5. CASE TimeOut(c)
    BY <2>5, TimeOutPreserves
  <2>6. CASE \E dry \in BOOLEAN, evidence \in Supplied : Verify(c, dry, evidence)
    BY <2>6, VerifyPreserves
  <2>7. QED
    BY <1>3, <2>1, <2>2, <2>3, <2>4, <2>5, <2>6 DEF Step
<1>4. QED
  BY <1>1, <1>2, <1>3 DEF Next

THEOREM Invariance == Spec => []IInv
PROOF
<1>1. Init => IInv
  BY InitOK
<1>2. IInv /\ [Next]_vars => IInv'
  BY NextPreserves
<1>3. QED
  BY <1>1, <1>2, PTL DEF Spec

\* Runs, stores and verdicts keep their types.
THEOREM TypeCorrect == Spec => []TypeOK
PROOF
<1>1. IInv => TypeOK
  BY DEF IInv
<1>2. QED
  BY <1>1, Invariance, PTL

\* Whatever requests, policies and approvals callers supply, what OrchestrationService sends
\* to n8n is covered by an approval.
THEOREM EffectsAreApproved == Spec => []EffectsApproved
PROOF
<1>1. IInv => EffectsApproved
  <2> SUFFICES ASSUME IInv, NEW c \in Effects, runs[c].asked # None
               PROVE  /\ runs[c].asked.approval_status # "denied"
                      /\ runs[c].asked.approval # None
                      /\ runs[c].asked.approval.scope # None
                      /\ Covers(runs[c].asked.approval, runs[c].asked)
    BY DEF EffectsApproved
  <2>1. c \in Calls
    BY DEF IInv, TypeOK, Effects
  <2>2. /\ runs[c] \in Run
        /\ Faithful(runs[c])
        /\ Effective(runs[c].act)
    BY <2>1 DEF IInv, TypeOK, RunOK
  <2>3. PICK r \in PermissionRequest : r = runs[c].asked
    BY <2>2 DEF Run
  <2>4. runs[c].act = Rebuilt(r, runs[c].act.params, runs[c].act.dry)
    BY <2>2, <2>3 DEF Faithful, Effective
  <2>5. runs[c].act.type = r.type /\ runs[c].act.decision = Evaluate(r).decision
    BY <2>4 DEF Rebuilt
  <2>6. r.type = "create_calendar_event" /\ Evaluate(r).decision = "ALLOW"
    BY <2>2, <2>5 DEF Effective, Permitted
  <2>7. QED
    BY <2>3, <2>6, AllowedIsCovered
<1>2. QED
  BY <1>1, Invariance, PTL

\* However POSTs are delayed and lost and calls give up, answers about effects are true.
THEOREM HonestAnswers == Spec => []AnswersAreHonest
PROOF
<1>1. IInv => AnswersAreHonest
  BY DEF IInv, RunOK, AnswersAreHonest, Effective, DryRun
<1>2. QED
  BY <1>1, Invariance, PTL

\* Whatever flags and evidence callers of M11 supply, its successes are earned.
THEOREM EarnedVerdicts == Spec => []VerdictsAreEarned
PROOF
<1>1. IInv => VerdictsAreEarned
  BY DEF IInv, VerdictOK, VerdictsAreEarned
<1>2. QED
  BY <1>1, Invariance, PTL

-----------------------------------------------------------------------------
\* A POST is either on its way or has started its workflow.
Apart == network \cap started = {}

\* A call that is begun posts for itself alone.
LEMMA ExecuteOnce ==
  ASSUME IInv, Apart, NEW c \in Calls, runs[c] = None, NEW asked, NEW a, Execute(c, asked, a)
  PROVE  StartsOnceStep /\ Apart'
<1>1. /\ started' = started
      /\ \A d \in Calls : d # c => runs'[d] = runs[d]
      /\ network' = network \/ network' = network \cup {c}
  BY DEF Execute, Returns, IInv, TypeOK
<1>2. c \notin started
  BY FreshCall DEF Effects
<1> QED
  BY <1>1, <1>2 DEF StartsOnceStep, Apart

\* The answer of a call that waited.
LEMMA ReturnsOnce ==
  ASSUME IInv, Apart, NEW c \in Calls, runs[c] # None, runs[c].status = "posting",
         NEW asked, NEW a, NEW status, NEW result,
         Returns(c, asked, a, status, result), UNCHANGED network
  PROVE  StartsOnceStep /\ Apart'
<1>1. UNCHANGED <<network, started>> /\ \A d \in Calls : d # c => runs'[d] = runs[d]
  BY DEF Returns, IInv, TypeOK
<1> QED
  BY <1>1 DEF StartsOnceStep, Apart

LEMMA NextOnce == IInv /\ Apart /\ [Next]_vars => [StartsOnceStep]_vars /\ Apart'
<1> SUFFICES ASSUME IInv, Apart, [Next]_vars PROVE StartsOnceStep /\ Apart'
  OBVIOUS
<1>1. ASSUME UNCHANGED <<runs, network, started>> PROVE StartsOnceStep /\ Apart'
  BY <1>1 DEF StartsOnceStep, Apart
<1>2. CASE Crash
  <2>1. UNCHANGED <<network, started>>
    BY <1>2 DEF Crash
  <2>2. \A c \in Calls : runs[c] # None /\ runs[c].status # "posting" => runs'[c] = runs[c]
    BY <1>2 DEF Crash
  <2> QED
    BY <2>1, <2>2 DEF StartsOnceStep, Apart
<1>3. ASSUME NEW c \in Calls, Step(c) PROVE StartsOnceStep /\ Apart'
  <2>1. ASSUME NEW r \in Asked, NEW params \in Parameters, NEW dry \in BOOLEAN, runs[c] = None,
               Orchestrate(c, r, params, dry)
        PROVE  StartsOnceStep /\ Apart'
    <3>1. CASE Execute(c, r, Rebuilt(r, params, dry))
      BY <2>1, <3>1, ExecuteOnce
    <3>2. CASE Returns(c, r, None, "raised", "none") /\ UNCHANGED network
      <4>1. UNCHANGED <<network, started>> /\ \A d \in Calls : d # c => runs'[d] = runs[d]
        BY <3>2 DEF Returns, IInv, TypeOK
      <4> QED
        BY <2>1, <4>1 DEF StartsOnceStep, Apart
    <3> QED
      BY <2>1, <3>1, <3>2 DEF Orchestrate
  <2>2. ASSUME NEW a \in Posed, Act(c, a) PROVE StartsOnceStep /\ Apart'
    BY <2>2, ExecuteOnce DEF Act
  <2>3. CASE Arrive(c)
    BY <2>3 DEF Arrive, StartsOnceStep, Apart
  <2>4. CASE Lose(c)
    BY <2>4 DEF Lose, StartsOnceStep, Apart
  <2>5. CASE Answered(c)
    <3>1. /\ runs[c] # None /\ runs[c].status = "posting" /\ UNCHANGED network
          /\ \E to : Returns(c, runs[c].asked, runs[c].act, to[1], to[2])
      BY <2>5 DEF Answered
    <3> QED
      BY <3>1, ReturnsOnce
  <2>6. CASE TimeOut(c)
    BY <2>6, ReturnsOnce DEF TimeOut
  <2>7. ASSUME NEW dry \in BOOLEAN, NEW evidence \in Supplied, Verify(c, dry, evidence)
        PROVE  StartsOnceStep /\ Apart'
    BY <1>1, <2>7 DEF Verify
  <2> QED
    BY <1>3, <2>1, <2>2, <2>3, <2>4, <2>5, <2>6, <2>7 DEF Step
<1> QED
  BY <1>1, <1>2, <1>3 DEF Next, vars

\* However POSTs are delayed and lost, calls give up and processes crash: no call starts a second
\* workflow, and no answer is changed.
THEOREM WorkflowsStartOnce == Spec => StartsOnce
<1>1. Init => Apart
  BY DEF Init, Apart
<1> QED
  BY <1>1, Invariance, NextOnce, PTL DEF Spec, StartsOnce
=============================================================================
