----------------------------- MODULE Permission -----------------------------
(***************************************************************************)
(* The permission engine, M9 (src/app/services/permission_service.py): a   *)
(* function from a request, with the approval and the policy the caller    *)
(* supplies, to a decision.                                                *)
(***************************************************************************)
EXTENDS Naturals

CONSTANTS
  Requests,     \* request ids
  Actions,      \* action ids, those that are UUIDs and others
  Types,        \* action types, in any spelling
  Targets,      \* targets
  None          \* no approval, no scope, no id, no time

TargetTypes == {"user_local_data", "external_service"}

External == {"third_party_account", "financial_institution", "external_service"}

ScopeTypes == {"action", "action_type", "specific_target", "session", "one_time", "recurring"}

Scope ==
  [scope_type : ScopeTypes \cup {"other"}, type : Types, target : Targets \cup {None},
   target_type : TargetTypes \cup {None}, one_time : BOOLEAN, reusable : BOOLEAN]

Approval ==
  [status : {"not_provided", "approved", "denied"}, action : Actions \cup {None},
   scope : Scope \cup {None}, expires : Nat \cup {None}]

Policy == [low : BOOLEAN, medium : BOOLEAN]

PermissionRequest ==
  [request : Requests, action : Actions, type : Types, target : Targets \cup {None},
   target_type : TargetTypes \cup {None}, external : BOOLEAN,
   reversibility : {"reversible", "partially_reversible", "irreversible", "unknown"},
   approval_status : {"not_provided", "approved", "denied"},
   approval : Approval \cup {None}, scope : Scope \cup {None}, policy : Policy,
   time : Nat \cup {None}]                             \* current_datetime

ASSUME NoneAssumption == None \notin Approval \cup Scope \cup Nat

-----------------------------------------------------------------------------
\* str.lower() of an action type; one differently spelled type stands for them all.
Lower(t) == IF t = "Create_Calendar_Event" THEN "create_calendar_event" ELSE t

CategoryOfEvents(t) ==    \* mutant: creating a calendar event passes for a navigation
  IF Lower(t) \in {"navigate", "create_calendar_event"} THEN "navigation" ELSE "unknown"

\* classify and ALIASES.
Category(t) ==
  CASE Lower(t) \in {"info", "information"} -> "information"
    [] Lower(t) = "read" -> "read"
    [] Lower(t) \in {"navigation", "navigate"} -> "navigation"
    [] Lower(t) \in {"draft", "draft_email", "draft_message"} -> "draft"
    [] Lower(t) \in {"send_email", "send_message", "send_sms", "send_whatsapp",
                     "post_publicly", "communication"} -> "communication"
    [] Lower(t) \in {"account_change", "change_account"} -> "account_change"
    [] Lower(t) \in {"form_preparation", "fill_form"} -> "form_preparation"
    [] Lower(t) \in {"form_submission", "submit_form"} -> "form_submission"
    [] Lower(t) \in {"financial", "payment", "transfer"} -> "financial"
    [] Lower(t) \in {"purchase", "buy"} -> "purchase"
    [] Lower(t) \in {"deletion", "delete", "delete_file"} -> "deletion"
    [] Lower(t) \in {"authentication", "login"} -> "authentication"
    [] Lower(t) \in {"privacy_sensitive", "external_side_effect"} -> Lower(t)
    [] OTHER -> "unknown"

Consequential == {"communication", "account_change", "form_submission", "authentication",
                  "privacy_sensitive", "external_side_effect"}

\* risk_for
Risk(category, r) ==
  CASE category \in {"financial", "purchase", "deletion"} -> "critical"
    [] category = "unknown" -> "high"
    [] OTHER ->
         IF r.reversibility = "irreversible" THEN "critical"
         ELSE IF category \in Consequential \/ r.external THEN "high"
         ELSE IF r.target_type \in External THEN "medium"
         ELSE IF category = "form_preparation" /\ r.reversibility = "unknown" THEN "medium"
         ELSE "low"

Lapsed(r) ==
  /\ r.approval.expires # None
  /\ r.time # None
  /\ r.approval.expires <= r.time

Approved(r) == r.approval # None /\ r.approval.status = "approved"

Denied(r) == r.approval_status = "denied" \/ (r.approval # None /\ r.approval.status = "denied")

\* _scope_matches, of an approved approval.
ScopeMatches(r) ==
  /\ r.approval.scope # None
  /\ Lower(r.approval.scope.type) = Lower(r.type)
  /\ r.approval.scope.target \in {None, r.target}
  /\ r.approval.scope.target_type \in {None, r.target_type}
  /\ r.approval.scope.one_time => r.approval.action = r.action
  /\ r.approval.scope.one_time \/ r.approval.scope.reusable
  /\ r.approval.expires # None => (r.time # None /\ ~Lapsed(r))

\* The policy lets this action pass without an approval.
Waived(r) ==
  /\ Category(r.type) # "unknown"
  /\ \/ Risk(Category(r.type), r) = "low" /\ r.policy.low
     \/ Risk(Category(r.type), r) = "medium" /\ r.policy.medium

Decision(r, decision, required, state, valid) ==
  [decision |-> decision, category |-> Category(r.type), required |-> required,
   state |-> state, valid |-> valid,
   scope |-> IF r.scope # None \/ r.approval = None THEN r.scope ELSE r.approval.scope]

EvaluateDenialLast(r) ==    \* mutant: a valid approval outweighs a denial
  IF Waived(r) THEN Decision(r, "ALLOW", FALSE, "not_required", FALSE)
  ELSE IF Approved(r) /\ ScopeMatches(r) THEN Decision(r, "ALLOW", TRUE, "granted", TRUE)
  ELSE Decision(r, "DENY", TRUE, "denied", FALSE)

\* evaluate
Evaluate(r) ==
  IF Denied(r) THEN Decision(r, "DENY", TRUE, "denied", FALSE)
  ELSE IF Waived(r) THEN Decision(r, "ALLOW", FALSE, "not_required", FALSE)
  ELSE IF ~Approved(r) THEN Decision(r, "REQUIRE_APPROVAL", TRUE, "required", FALSE)
  ELSE IF ScopeMatches(r) THEN Decision(r, "ALLOW", TRUE, "granted", TRUE)
  ELSE Decision(r, "DENY", TRUE, IF Lapsed(r) THEN "expired" ELSE "invalid", FALSE)
=============================================================================
