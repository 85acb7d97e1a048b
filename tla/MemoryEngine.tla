---------------------------- MODULE MemoryEngine ----------------------------
(***************************************************************************)
(* The memory engine (src/app/services/memory_service.py) over the SQLite  *)
(* repository (src/app/persistence/repositories/memory_repository.py).     *)
(*                                                                         *)
(* Every request runs in a thread of the web server's pool, here a worker. *)
(* The repository has three operations, get, all and save, each of them a  *)
(* transaction of its own on a connection of its own; nothing locks the    *)
(* store between two of them.  A step of this model is therefore one       *)
(* repository call together with the local code up to the next one.        *)
(***************************************************************************)
EXTENDS Naturals

CONSTANTS
  Users,        \* user ids
  Keys,         \* pairs (memory_type, key), which the code always compares together
  Values,       \* memory values
  Secrets,      \* the keys and values _secret_present recognises
  Ids,          \* memory ids that uuid4 may return
  Workers,      \* threads that serve requests
  MaxTime,      \* bound: requests carry a current_time in 0..MaxTime
  Skew,         \* how far a request's current_time may lie before the latest one seen
  MaxVersion,   \* bound: update and forget are not requested beyond it
  Never,        \* expires_at = None
  None          \* no such record, no such reply

ASSUME TimeAssumption == MaxTime \in Nat /\ Skew \in Nat
ASSUME NeverAssumption == Never \notin Nat

VARIABLES
  records,      \* the memories table: id -> record
  now,          \* the latest current_time any request carried
  pc,           \* where each worker is between repository calls
  caller,       \* user_id of the worker's last request
  held,         \* the records (local copies, by id) the worker goes on with
  change,       \* value, expires_at and current_time of an update under way
  reply         \* the worker's last response, final once it is idle again

vars == <<records, now, pc, caller, held, change, reply>>

Expiry == Nat \cup {Never}

Record == [user : Users, key : Keys, value : Values,
           status : {"active", "expired", "forgotten"},
           expires : Expiry, version : Nat]

Change == [value : Values, expires : Expiry, time : Nat]

Statuses == {"stored", "duplicate", "conflict", "rejected", "not_found", "expired", "found",
             "listed", "updated", "forgotten", "already_forgotten", "error"}

Reply == [status : Statuses, memories : SUBSET Record]

TypeOK ==
  /\ records \in [Ids -> Record \cup {None}]
  /\ now \in Nat
  /\ pc \in [Workers -> {"idle", "scan", "save"}]
  /\ caller \in [Workers -> Users \cup {None}]
  /\ held \in [Workers -> [Ids -> Record \cup {None}]]
  /\ change \in [Workers -> Change \cup {None}]
  /\ reply \in [Workers -> Reply \cup {None}]

-----------------------------------------------------------------------------
Nothing == [id \in Ids |-> None]

Only(id, r) == [Nothing EXCEPT ![id] = r]

\* _secret_present; update passes no key.
SecretPresent(k, v) == k \in Secrets \/ v \in Secrets

Expired(r, t) == r.expires # Never /\ t >= r.expires

Live(r, t) == r # None /\ r.status = "active" /\ ~Expired(r, t)

OwnedByAnyone(u) == {id \in Ids : records[id] # None}    \* mutant: no user_id check

Owned(u) == {id \in Ids : records[id] # None /\ records[id].user = u}

\* What the handlers show a user: another user's and forgotten records do not exist.
VisibleForgotten(u) == Owned(u)    \* mutant: no status check

Visible(u) == {id \in Owned(u) : records[id].status # "forgotten"}

\* The active, unexpired records of this user under this key.
CandidatesForGood(u, k, t) ==    \* mutant: temporary memories are overlooked
  {id \in Owned(u) : Live(records[id], t) /\ records[id].expires = Never
                      /\ records[id].key = k}

ActiveCandidates(u, k, t) ==
  {id \in Owned(u) : Live(records[id], t) /\ records[id].key = k}

\* uuid4 never repeats an id, stored or about to be stored.
Fresh == {id \in Ids : records[id] = None /\ \A w \in Workers : held[w][id] = None}

StatusTooSoon(e, t) == IF e # Never /\ e <= t + 1 THEN "expired" ELSE "active"    \* mutant

StatusAt(e, t) == IF e # Never /\ e <= t THEN "expired" ELSE "active"

NewRecord(u, k, v, e, t) ==
  [user |-> u, key |-> k, value |-> v, status |-> StatusAt(e, t),
   expires |-> e, version |-> 1]

MarkExpiredCounted(r) == [r EXCEPT !.status = "expired", !.version = @ + 1]    \* mutant

MarkExpired(r) == [r EXCEPT !.status = "expired"]

Forgotten(r) == [r EXCEPT !.status = "forgotten", !.version = @ + 1]

UpdatedInPlace(r, c) ==    \* mutant: the version stays
  [r EXCEPT !.value = c.value, !.expires = c.expires, !.status = StatusAt(c.expires, c.time)]

Updated(r, c) ==
  [r EXCEPT !.value = c.value, !.expires = c.expires, !.version = @ + 1,
            !.status = StatusAt(c.expires, c.time)]

-----------------------------------------------------------------------------
\* A worker takes up a request of user u that carries current_time t.
Begin(w, u, t) ==
  /\ pc[w] = "idle"
  /\ t + Skew >= now
  /\ now' = IF t > now THEN t ELSE now
  /\ caller' = [caller EXCEPT ![w] = u]

\* The handler returns.
Answer(w, status, memories) ==
  /\ pc' = [pc EXCEPT ![w] = "idle"]
  /\ held' = [held EXCEPT ![w] = Nothing]
  /\ change' = [change EXCEPT ![w] = None]
  /\ reply' = [reply EXCEPT ![w] = [status |-> status, memories |-> memories]]

\* The handler calls save on the given records and will then return.
Write(w, recs, status, memories) ==
  /\ pc' = [pc EXCEPT ![w] = "save"]
  /\ held' = [held EXCEPT ![w] = recs]
  /\ change' = [change EXCEPT ![w] = None]
  /\ reply' = [reply EXCEPT ![w] = [status |-> status, memories |-> memories]]

\* store: refuse credentials, scan the table, hold the new record for save.
Store(w, u, k, v, e, t) ==
  /\ Begin(w, u, t)
  /\ UNCHANGED records
  /\ \/ /\ SecretPresent(k, v)
        /\ Answer(w, "rejected", {})
     \/ /\ ~SecretPresent(k, v)
        /\ \E id \in ActiveCandidates(u, k, t) :
             IF records[id].value = v
               THEN Answer(w, "duplicate", {records[id]})
               ELSE Answer(w, "conflict", {})
     \/ /\ ~SecretPresent(k, v)
        /\ ActiveCandidates(u, k, t) = {}
        /\ \E id \in Fresh :
             LET r == NewRecord(u, k, v, e, t)
             IN  Write(w, Only(id, r), "stored", {r})

\* retrieve: get the record; one that is found expired is saved as such.
Retrieve(w, u, id, t) ==
  /\ Begin(w, u, t)
  /\ UNCHANGED records
  /\ \/ /\ id \notin Visible(u)
        /\ Answer(w, "not_found", {})
     \/ /\ id \in Visible(u) /\ Expired(records[id], t)
        /\ Write(w, Only(id, MarkExpired(records[id])), "expired", {})
     \/ /\ id \in Visible(u) /\ ~Expired(records[id], t)
        /\ IF records[id].status = "active"
             THEN Answer(w, "found", {records[id]})
             ELSE Answer(w, "not_found", {})

\* list: one scan; the user's expired records are saved one after the other,
\* the live ones that pass the request's filters are returned.
List(w, u, wanted, t) ==
  LET lapsed == {id \in Visible(u) : Expired(records[id], t)}
      shown  == {id \in Visible(u) : Live(records[id], t) /\ records[id].key \in wanted}
      listed == {records[id] : id \in shown}
      recs   == [id \in Ids |-> IF id \in lapsed THEN MarkExpired(records[id]) ELSE None]
  IN  /\ Begin(w, u, t)
      /\ UNCHANGED records
      /\ IF lapsed = {} THEN Answer(w, "listed", listed)
                        ELSE Write(w, recs, "listed", listed)

\* update, up to the get and the checks on what it returned.
UpdateGet(w, u, id, v, e, t) ==
  /\ Begin(w, u, t)
  /\ UNCHANGED records
  /\ \/ /\ SecretPresent(None, v)
        /\ Answer(w, "rejected", {})
     \/ /\ ~SecretPresent(None, v) /\ id \notin Visible(u)
        /\ Answer(w, "not_found", {})
     \/ /\ ~SecretPresent(None, v) /\ id \in Visible(u) /\ Expired(records[id], t)
        /\ Write(w, Only(id, MarkExpired(records[id])), "expired", {})
     \/ /\ ~SecretPresent(None, v) /\ id \in Visible(u) /\ ~Expired(records[id], t)
        /\ IF records[id].status # "active"
             THEN Answer(w, "not_found", {})
             ELSE /\ pc' = [pc EXCEPT ![w] = "scan"]
                  /\ held' = [held EXCEPT ![w] = Only(id, records[id])]
                  /\ change' = [change EXCEPT ![w] = [value |-> v, expires |-> e, time |-> t]]
                  /\ reply' = [reply EXCEPT ![w] = None]

\* update, second half: scan for other active records under the same key, then
\* hold the changed copy of what the get returned.
UpdateScan(w) ==
  /\ pc[w] = "scan"
  /\ UNCHANGED <<records, now, caller>>
  /\ \E id \in Ids :
       /\ held[w][id] # None
       /\ LET r      == held[w][id]
              c      == change[w]
              others == ActiveCandidates(r.user, r.key, c.time) \ {id}
          IN  \/ \E o \in others :
                   IF records[o].value = c.value
                     THEN Answer(w, "duplicate", {records[o]})
                     ELSE Answer(w, "conflict", {})
              \/ /\ others = {}
                 /\ Write(w, Only(id, Updated(r, c)), "updated", {Updated(r, c)})

\* forget: expiry is not looked at; the record stays in the table.
Forget(w, u, id, t) ==
  /\ Begin(w, u, t)
  /\ UNCHANGED records
  /\ \/ /\ id \notin Owned(u)
        /\ Answer(w, "not_found", {})
     \/ /\ id \in Owned(u)
        /\ IF records[id].status = "forgotten"
             THEN Answer(w, "already_forgotten", {})
             ELSE Write(w, Only(id, Forgotten(records[id])), "forgotten", {})

\* One save: the whole row is replaced by the worker's copy.
Save(w) ==
  /\ pc[w] = "save"
  /\ \E id \in Ids :
       /\ held[w][id] # None
       /\ records' = [records EXCEPT ![id] = held[w][id]]
       /\ held' = [held EXCEPT ![w][id] = None]
       /\ pc' = [pc EXCEPT ![w] = IF held'[w] = Nothing THEN "idle" ELSE "save"]
  /\ UNCHANGED <<now, caller, change, reply>>

\* The next repository call raises, or the process stops: the request ends there.
Fail(w) ==
  /\ pc[w] # "idle"
  /\ Answer(w, "error", {})
  /\ UNCHANGED <<records, now, caller>>

-----------------------------------------------------------------------------
Init ==
  /\ records = Nothing
  /\ now = 0
  /\ pc = [w \in Workers |-> "idle"]
  /\ caller = [w \in Workers |-> None]
  /\ held = [w \in Workers |-> Nothing]
  /\ change = [w \in Workers |-> None]
  /\ reply = [w \in Workers |-> None]

Times == 0..MaxTime
Expiries == Times \cup {Never}
Changeable == {id \in Ids : records[id] = None \/ records[id].version < MaxVersion}

Handle(w) ==
  \/ UpdateScan(w)
  \/ Save(w)
  \/ Fail(w)
  \/ \E u \in Users, t \in Times :
       \/ \E k \in Keys, v \in Values, e \in Expiries : Store(w, u, k, v, e, t)
       \/ \E id \in Ids : Retrieve(w, u, id, t)
       \/ \E wanted \in SUBSET Keys : List(w, u, wanted, t)
       \/ \E id \in Changeable, v \in Values, e \in Expiries : UpdateGet(w, u, id, v, e, t)
       \/ \E id \in Changeable : Forget(w, u, id, t)

Next == \E w \in Workers : Handle(w)

Spec == Init /\ [][Next]_vars

-----------------------------------------------------------------------------
(* Safety, under any number of workers.                                    *)

\* A memory belongs to the user and the key it was stored under for good, is
\* never deleted from the table, and is changed only on behalf of its owner
\* (the user_id checks of retrieve, list, update and forget, applied to a copy
\* that is saved back later).
OwnershipStep ==
  \A id \in Ids : records'[id] # records[id] =>
    /\ records'[id] # None
    /\ \E w \in Workers : held[w][id] # None /\ caller[w] = records'[id].user
    /\ records[id] # None => /\ records'[id].user = records[id].user
                             /\ records'[id].key = records[id].key

Ownership == [][OwnershipStep]_vars

\* A response carries only memories of the user who asked, whichever scan or
\* local copy they were taken from.
ReplyIsolation ==
  \A w \in Workers : reply[w] # None =>
    \A m \in reply[w].memories : m.user = caller[w]

\* No credential reaches the table, through store or through an update of a
\* harmless memory.
NoSecretAtRest ==
  \A id \in Ids : records[id] # None =>
    records[id].key \notin Secrets /\ records[id].value \notin Secrets

\* The status expired is only ever given to a memory whose time has come, even
\* when it is written from a copy read before another request changed the row.
ExpiredHasLapsed ==
  \A id \in Ids : records[id] # None =>
    (records[id].status = "expired" => Expired(records[id], now))

\* A memory that is forgotten and of which no worker holds a copy.
Rested(id) ==
  /\ records[id] # None /\ records[id].status = "forgotten"
  /\ \A w \in Workers : held[w][id] = None

\* Once a memory is forgotten and every request that had read it before has ended, its row never
\* changes again, whatever requests overlap from then on: no handler takes up a forgotten record
\* to save it back.
ForgottenStaysStep ==
  \A id \in Ids : Rested(id) => Rested(id)' /\ records'[id] = records[id]

ForgottenStays == [][ForgottenStaysStep]_vars

(* Safety of one worker at a time.                                         *)

\* What duplicate and conflict detection is for: a user never has two live
\* memories under one key.
UniqueLive ==
  \A a, b \in Ids :
    (Live(records[a], now) /\ Live(records[b], now)
       /\ records[a].user = records[b].user /\ records[a].key = records[b].key)
    => a = b

\* A forgotten memory stays forgotten: no later request brings it back.
ForgottenFinalStep ==
  \A id \in Ids : records[id] # None =>
    (records[id].status = "forgotten" => records'[id] = records[id])

ForgottenFinal == [][ForgottenFinalStep]_vars

\* The version counts the changes a caller asked for: it goes up by one with
\* every new value, new expiry or forget, and marking a memory expired leaves it.
VersionCountsStep ==
  \A id \in Ids : (records[id] # None /\ records'[id] # records[id]) =>
    records'[id] = MarkExpired(records[id]) \/ records'[id].version = records[id].version + 1

VersionCounts == [][VersionCountsStep]_vars

=============================================================================
