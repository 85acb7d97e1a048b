----------------------------- MODULE Bootstrap ------------------------------
(* The SQLite database comes into being: initialize_database_at, which every construction of a  *)
(* SQLite repository runs, and with it every request to /api/memory and /api/audit. Threads and *)
(* processes do so side by side. executescript commits what is pending and then each statement  *)
(* by itself, so others see, and a crash leaves, any part of the script.                        *)
EXTENDS Naturals, Sequences

CONSTANT Clients     \* who makes requests, one at a time each

VARIABLES
  schema,       \* the tables and indexes of the database
  versions,     \* the rows of schema_migrations
  opening       \* how far each client's request has got with opening the database

databaseVars == <<schema, versions, opening>>

SCHEMA_VERSION == 1

\* The statements of version 1 before its INSERT.
Script ==
  <<"memories", "idx_memories_user_id", "idx_memories_active_key",
    "audit_events", "idx_audit_timestamp", "idx_audit_request_id", "idx_audit_user_id">>

Objects == {Script[n] : n \in DOMAIN Script}

\* next: the statement of the script to run.
Opening == [step : {"closed", "create", "read", "script", "open"}, next : 1 .. Len(Script) + 1]

Closed == [step |-> "closed", next |-> 1]

DatabaseTypes ==
  /\ schema \subseteq Objects \cup {"schema_migrations"}
  /\ versions \subseteq {SCHEMA_VERSION}
  /\ opening \in [Clients -> Opening]

\* No database, or one that an earlier process has set up.
DatabaseInit ==
  /\ \/ schema = {} /\ versions = {}
     \/ schema = Objects \cup {"schema_migrations"} /\ versions = {SCHEMA_VERSION}
  /\ opening = [c \in Clients |-> Closed]

-----------------------------------------------------------------------------
At(c, step) == opening[c].step = step

Reaches(c, step, next) == opening' = [opening EXCEPT ![c] = [step |-> step, next |-> next]]

Closes(c) == opening' = [opening EXCEPT ![c] = Closed]

\* A repository is constructed: the directory, the connection.
Open(c) == At(c, "closed") /\ Reaches(c, "create", 1) /\ UNCHANGED <<schema, versions>>

\* CREATE TABLE IF NOT EXISTS schema_migrations
CreateVersions(c) ==
  /\ At(c, "create")
  /\ schema' = schema \cup {"schema_migrations"}
  /\ Reaches(c, "read", 1)
  /\ UNCHANGED versions

CountsOnTables(c) ==    \* mutant: tables that exist are taken for a finished script
  /\ At(c, "read")
  /\ Reaches(c, IF {"memories", "audit_events"} \cap schema = {} THEN "script" ELSE "open", 1)
  /\ UNCHANGED <<schema, versions>>

\* SELECT COALESCE(MAX(version), 0)
ReadVersion(c) ==
  /\ At(c, "read")
  /\ Reaches(c, IF versions = {} THEN "script" ELSE "open", 1)
  /\ UNCHANGED <<schema, versions>>

\* CREATE ... IF NOT EXISTS, one statement of the script.
RunStatement(c) ==
  /\ At(c, "script")
  /\ opening[c].next <= Len(Script)
  /\ schema' = schema \cup {Script[opening[c].next]}
  /\ Reaches(c, "script", opening[c].next + 1)
  /\ UNCHANGED versions

\* INSERT INTO schema_migrations, the end of the script; then commit() has nothing left to do.
\* Where another initialiser was faster, the INSERT raises IntegrityError, which no route catches.
RecordVersion(c) ==
  /\ At(c, "script")
  /\ opening[c].next > Len(Script)
  /\ IF SCHEMA_VERSION \in versions THEN Closes(c) ELSE Reaches(c, "open", 1)
  /\ versions' = versions \cup {SCHEMA_VERSION}
  /\ UNCHANGED schema

\* Another connection holds the lock for longer than sqlite3 waits.
Locked(c) == opening[c].step \in {"create", "read", "script"} /\ Closes(c) /\ UNCHANGED <<schema, versions>>

Initialises(c) == CreateVersions(c) \/ ReadVersion(c) \/ RunStatement(c) \/ RecordVersion(c) \/ Locked(c)

-----------------------------------------------------------------------------
\* Whoever gets past the initialisation finds everything the script creates, however several of
\* them interleave and wherever one of them has crashed.
SchemaBeforeUse == \A c \in Clients : At(c, "open") => Objects \subseteq schema
=============================================================================
