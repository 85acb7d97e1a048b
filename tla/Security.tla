------------------------------ MODULE Security ------------------------------
(* The security policy (M14): what services/security_service.py says of an action, a text or a  *)
(* URL, and the audit event it makes of a decision.  A text is what the patterns find in it.    *)
EXTENDS Naturals, Sequences

CONSTANTS
  CheckLists,   \* lists of check types that requests ask for
  Absent

VARIABLES
  asked,        \* the request
  decision,     \* the SecurityDecision
  event         \* what build_security_audit_event makes of it

policyVars == <<asked, decision, event>>

CheckTypes ==
  {"secret_detection", "credential_detection", "url_validation", "input_validation",
   "command_injection_detection", "script_injection_detection", "path_traversal_detection",
   "suspicious_payload_detection", "data_exposure_detection", "action_safety_check",
   "permission_policy_check", "request_integrity_check"}

DefaultChecks ==
  CheckTypes \ {"url_validation", "action_safety_check", "permission_policy_check"}

ActionCategories ==
  {"information", "navigation", "read", "draft", "communication", "account_change",
   "form_submission", "financial", "purchase", "deletion", "authentication",
   "privacy_sensitive", "external_side_effect", "unknown"}

\* secret, metaSecret: a secret in the content, in the metadata.  withinLimits: of _input_limits, of whose
\* two threats one stands for both.  url: the content as a URL.
Text ==
  [secret : BOOLEAN, metaSecret : BOOLEAN, command : BOOLEAN, script : BOOLEAN,
   traversal : BOOLEAN, personal : BOOLEAN, withinLimits : BOOLEAN,
   url : {"good", "oversized", "malicious", "credentials"}]

CheckRequests == [checks : CheckLists, text : Text, sanitize : BOOLEAN]

\* described: the content is not empty.
ActionRequests ==
  [category : ActionCategories, credential_handling : BOOLEAN, described : BOOLEAN,
   secret : BOOLEAN, granted : BOOLEAN,
   permission : {"ALLOW", "REQUIRE_APPROVAL", "DENY", Absent}]

URLRequests == [url : {"good", "oversized", "malicious", "credentials"}]

ASSUME AbsentAssumption == Absent \notin ActionRequests \cup CheckRequests \cup URLRequests

-----------------------------------------------------------------------------
\* Risk levels: 0 none, 1 low, 2 medium, 3 high, 4 critical.
Threat(threat, risk) == [passed |-> FALSE, risk |-> risk, threat |-> threat]

Passed(risk) == [passed |-> TRUE, risk |-> risk, threat |-> "none"]

Sanitizable(failed) == \A r \in failed : r.threat \in {"data_exposure", "suspicious_payload"}

\* _decision: results is what the checks say, in any order.
Decision(results, sanitize) ==
  LET failed  == {r \in results : ~r.passed}
      outcome == IF failed = {} THEN "allow"
                 ELSE IF sanitize /\ Sanitizable(failed) THEN "sanitize" ELSE "block"
  IN  [decision |-> outcome,
       risk |-> CHOOSE n \in {0} \cup {r.risk : r \in results} : \A r \in results : r.risk <= n,
       threats |-> {r.threat : r \in results} \ {"none"},
       blocked |-> outcome = "block"]

ReviewRequired(made) == [made EXCEPT !.decision = "review_required", !.blocked = FALSE]

DetectSecret(found) == IF found THEN Threat("secret_exposure", 4) ELSE Passed(0)

ValidateUrl(url) ==
  CASE url = "good" -> Passed(0)
    [] url = "oversized" -> Threat("oversized_payload", 3)
    [] url = "malicious" -> Threat("malicious_url", 3)
    [] url = "credentials" -> Threat("malicious_url", 4)

PatternResult(found, threat) == IF found THEN Threat(threat, 3) ELSE Passed(0)

DataExposure(text) ==
  IF text.secret \/ text.metaSecret THEN Threat("credential_exposure", 4)
  ELSE IF text.personal THEN Threat("data_exposure", 2) ELSE Passed(0)

Unsafe(text) == text.command \/ text.script \/ text.traversal

\* One check of check_request; the last three types pass.
Result(type, text) ==
  CASE type = "secret_detection" -> DetectSecret(text.secret \/ text.metaSecret)
    [] type = "credential_detection" ->
         IF text.secret \/ text.metaSecret THEN Threat("credential_exposure", 4) ELSE Passed(0)
    [] type = "url_validation" -> ValidateUrl(text.url)
    [] type = "input_validation" -> IF text.withinLimits THEN Passed(0) ELSE Threat("oversized_payload", 3)
    [] type = "command_injection_detection" -> PatternResult(text.command, "command_injection")
    [] type = "script_injection_detection" -> PatternResult(text.script, "script_injection")
    [] type = "path_traversal_detection" -> PatternResult(text.traversal, "path_traversal")
    [] type = "suspicious_payload_detection" -> PatternResult(Unsafe(text), "suspicious_payload")
    [] type = "data_exposure_detection" -> DataExposure(text)
    [] OTHER -> Passed(0)

CheckRequest(r) == Decision({Result(type, r.text) : type \in r.checks}, r.sanitize)

\* sanitize_text raises ValueError.
CannotSanitize(text) == text.secret \/ Unsafe(text)

\* The classification at the head of action_check.
ActionSafety(r) ==
  LET cat == r.category
      verdict ==
        IF cat = "unknown" THEN Threat("unsafe_action", 3)
        ELSE IF r.credential_handling \/ cat = "authentication" THEN Threat("credential_exposure", 4)
        ELSE IF cat \in {"financial", "purchase"} THEN Threat("unsafe_action", 4)
        ELSE IF cat \in {"deletion", "account_change", "form_submission"} THEN Threat("unsafe_action", 3)
        ELSE IF cat = "external_side_effect" THEN Threat("unsafe_action", 2)
        ELSE IF cat = "communication" THEN Passed(2)
        ELSE Passed(1)
  IN  IF verdict.passed /\ r.described /\ r.secret THEN DetectSecret(TRUE) ELSE verdict

\* What action_check makes of the permission, once the action is safe.
Authorization(r, safety) ==
  IF r.permission = "DENY" THEN Decision({Threat("unsafe_action", 3)}, FALSE)
  ELSE IF r.permission = "REQUIRE_APPROVAL" THEN ReviewRequired(Decision({Threat("unsafe_action", 3)}, FALSE))
  ELSE IF r.permission = "ALLOW" /\ ~r.granted THEN Decision({Threat("invalid_request", 3)}, FALSE)
  ELSE IF ~r.granted THEN ReviewRequired(Decision({safety}, FALSE))
  ELSE Decision({safety}, FALSE)

PermissionFirst(r) ==    \* mutant: an approval is asked for before the action is looked at
  IF r.permission = "REQUIRE_APPROVAL" \/ ActionSafety(r).passed
    THEN Authorization(r, ActionSafety(r))
    ELSE Decision({ActionSafety(r)}, FALSE)

ActionCheck(r) ==
  IF ActionSafety(r).passed
    THEN Authorization(r, ActionSafety(r))
    ELSE Decision({ActionSafety(r)}, FALSE)

PermissionPolicyCheck(r) ==
  Decision(
    {IF r.credential_handling \/ r.category \in {"authentication", "financial", "purchase"}
       THEN Threat("unsafe_action", 4)
     ELSE IF r.category = "unknown" THEN Threat("unsafe_action", 3)
     ELSE Passed(0)},
    FALSE)

BuildEvent(made) ==
  [status |-> CASE made.decision = "block" -> "blocked"
                [] made.decision = "review_required" -> "pending"
                [] OTHER -> "success",
   severity |-> made.risk]

-----------------------------------------------------------------------------
PolicyInit == asked = Absent /\ decision = Absent /\ event = Absent

\* POST /api/security/action, /check and /url.
ChecksAction == asked' \in ActionRequests /\ decision' = ActionCheck(asked')

ChecksText == asked' \in CheckRequests /\ decision' = CheckRequest(asked')

ChecksUrl == asked' \in URLRequests /\ decision' = Decision({ValidateUrl(asked'.url)}, FALSE)

Check == asked = Absent /\ (ChecksAction \/ ChecksText \/ ChecksUrl) /\ UNCHANGED event

Record ==
  /\ decision # Absent /\ event = Absent
  /\ event' = BuildEvent(decision)
  /\ UNCHANGED <<asked, decision>>

PolicyNext == Check \/ Record

PolicySpec == PolicyInit /\ [][PolicyNext]_policyVars

-----------------------------------------------------------------------------
OfAction == asked # Absent /\ "category" \in DOMAIN asked

OfText == asked # Absent /\ "checks" \in DOMAIN asked

\* An audit event says success of an action only if both policy functions let it pass and the
\* permission is there: what either of them blocks stays blocked with every permission, and an
\* approval that is missing never passes for one.
PermissionNeverOverrides ==
  OfAction /\ event # Absent =>
    /\ PermissionPolicyCheck(asked).blocked => event.status = "blocked"
    /\ event.status = "success" => asked.granted /\ asked.permission \in {"ALLOW", Absent}
    /\ ActionCheck([asked EXCEPT !.granted = TRUE, !.permission = "ALLOW"]).blocked =>
         event.status = "blocked"

\* A text that the default checks send to be sanitized can be: sanitize_text, which looks for
\* threats by itself, does not refuse it.
SanitizeAgrees ==
  OfText /\ decision.decision = "sanitize" /\ DefaultChecks \subseteq asked.checks =>
    ~CannotSanitize(asked.text)
=============================================================================
