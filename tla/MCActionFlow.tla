---------------------------- MODULE MCActionFlow ----------------------------
(* Instances of ActionFlow for TLC. *)
EXTENDS ActionFlow

Scoped(scope_type, type, target, one_time, reusable) ==
  [scope_type |-> scope_type, type |-> type, target |-> target, target_type |-> None,
   one_time |-> one_time, reusable |-> reusable]

Request(type, status, approval, policy, time) ==
  [request |-> "r1", action |-> "a1", type |-> type, target |-> "t1",
   target_type |-> "user_local_data", external |-> FALSE, reversibility |-> "reversible",
   approval_status |-> status, approval |-> approval, scope |-> None, policy |-> policy, time |-> time]

Generous == [low |-> TRUE, medium |-> TRUE]

\* Requests without an approval, under every policy.
Unapproved ==
  {[Request(t, s, None, p, None) EXCEPT !.target_type = tt, !.external = x, !.reversibility = v] :
     t \in {"create_calendar_event", "read", "draft_email", "send_email", "delete_file", "fill_form"},
     s \in {"not_provided", "approved", "denied"}, p \in Policy,
     tt \in TargetTypes \cup {None}, x \in BOOLEAN,
     v \in {"reversible", "irreversible", "unknown"}}

Scopes ==
  {Scoped(st, t, tg, o, u) :
     st \in {"action", "one_time", "other"},
     t \in {"create_calendar_event", "Create_Calendar_Event", "create_local_note"},
     tg \in {"t1", "t2", None}, o \in BOOLEAN, u \in BOOLEAN}

\* Requests with an approval that fits in all, some or no respects.
Approvals ==
  {[status |-> s, action |-> i, scope |-> o, expires |-> e] :
     s \in {"approved", "denied"}, i \in {"a1", "a2", None}, o \in Scopes \cup {None}, e \in {1, None}}

WithApproval ==
  {Request("create_calendar_event", s, a, Generous, t) :
     s \in {"not_provided", "denied"}, a \in Approvals, t \in {0, 1, None}}

\* A narrower scope of its own beside the approval's.
WithScope ==
  {[Request("create_calendar_event", "not_provided",
      [status |-> "approved", action |-> "a1", expires |-> None,
       scope |-> Scoped("action", "create_calendar_event", "t1", TRUE, FALSE)], Generous, None)
    EXCEPT !.scope = o] : o \in Scopes}

\* One request of each action type, approved for this action.
Granted(t) ==
  Request(t, "not_provided",
    [status |-> "approved", action |-> "a1", expires |-> None,
     scope |-> Scoped("action", t, None, TRUE, FALSE)], Generous, None)

GrantedRequests == {Granted(t) : t \in ActionTypes}

DecisionRequests == Unapproved \cup WithApproval \cup WithScope \cup GrantedRequests

\* What a caller of the action route may send: waived, granted, denied, with one contradiction
\* between permission_required and the state.
Claims ==
  {[request |-> "r1", action |-> "a1", type |-> "create_calendar_event", required |-> q,
    decision |-> d, state |-> s, valid |-> TRUE,
    granted |-> None, requested |-> None, params |-> "complete", dry |-> FALSE] :
      q \in BOOLEAN, d \in {"ALLOW", None}, s \in {"not_required", "denied"}}

\* No evidence, one piece of each kind, and all kinds but one.
SomeEvidence == {{}} \cup {{e} : e \in Evidence} \cup {Evidence \ {e} : e \in {"note", "browser"}}
=============================================================================
