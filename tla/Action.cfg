\* One call: decisions over many requests, each action type with evidence, a POST lost or late,
\* and a crash, under fairness.
CONSTANTS
  Requests = {"r1"}
  Actions = {"a1", "a2"}
  Types = {"create_calendar_event", "Create_Calendar_Event", "create_local_note", "create_local_task", "prepare_email_draft", "prepare_message_draft", "open_url", "record_action", "no_op", "dry_run", "n8n_dispatch_preview", "send_email", "send_message", "telegram_message", "external_api_call", "read", "draft_email", "delete_file", "fill_form"}
  Targets = {"t1", "t2"}
  None = None
  Calls = {c1}
  Uuids = {"a1"}
  Asked <- DecisionRequests
  Posed <- Claims
  Supplied <- SomeEvidence
SPECIFICATION FairSpec
CHECK_DEADLOCK FALSE
INVARIANTS EffectsApproved AnswersAreHonest VerdictsAreEarned
PROPERTIES CallsEnd
