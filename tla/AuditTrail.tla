----------------------------- MODULE AuditTrail -----------------------------
(* The audit log (M13) in SQLite: AuditService.create_event, and list_events and search_events  *)
(* as clients use them, a page per request with offsets that go on from the page before, while   *)
(* other clients record events. Every request constructs the repository anew.                   *)
EXTENDS Bootstrap, FiniteSets

CONSTANTS
  EventIds,     \* event ids in their order; uuid4() draws each once
  Instants,     \* timestamps of events, chosen by the callers
  Limits,       \* limits of pages
  NoCall        \* the client wants nothing

ASSUME AuditAssumption == EventIds \subseteq Nat /\ Instants \subseteq Nat /\ Limits \subseteq Nat \ {0}

VARIABLES
  log,          \* audit_events
  calls         \* what each client wants

auditVars == <<databaseVars, log, calls>>

\* matches: the event meets the filter or the query of those who read the log, if they have one.
Event == [id : EventIds, time : Instants, matches : BOOLEAN]

\* seen: the events of the pages so far.  initial: the log when the first page was asked for.
Traversal ==
  [ascending : BOOLEAN, limit : Limits, offset : Nat, seen : Seq(Event),
   initial : SUBSET Event, finished : BOOLEAN]

\* A client wants an event recorded, or to read the log.
AuditTypes ==
  /\ DatabaseTypes
  /\ log \subseteq Event /\ IsFiniteSet(log)
  /\ calls \in [Clients -> Event \cup Traversal \cup {NoCall}]

-----------------------------------------------------------------------------
Recording(c) == calls[c] # NoCall /\ "id" \in DOMAIN calls[c]

Reading(c) == calls[c] # NoCall /\ "seen" \in DOMAIN calls[c]

Wants(c, call) == calls' = [calls EXCEPT ![c] = call]

\* (timestamp, event_id), reversed unless ascending.
Before(ascending, d, e) ==
  LET precedes == d.time < e.time \/ (d.time = e.time /\ d.id < e.id)
  IN  d # e /\ (precedes <=> ascending)

Matching(events) == {e \in events : e.matches}

\* _ordered: the events in their order.
Orderings(ascending, events) ==
  {s \in [1 .. Cardinality(events) -> events] :
     \A m, n \in DOMAIN s : m < n => Before(ascending, s[m], s[n])}

\* ordered[offset : offset + limit]
Slice(traversal, ordered) ==
  SubSeq(ordered, traversal.offset + 1,
         IF traversal.offset + traversal.limit < Len(ordered)
           THEN traversal.offset + traversal.limit ELSE Len(ordered))

FilteredSlices(traversal) ==    \* mutant: offset and limit are applied before the filter
  {SelectSeq(Slice(traversal, ordered), LAMBDA e : e.matches) :
     ordered \in Orderings(traversal.ascending, log)}

\* list_events and search_events: all(), the filter, the order, the slice.
PagesOf(traversal) ==
  {Slice(traversal, ordered) : ordered \in Orderings(traversal.ascending, Matching(log))}

-----------------------------------------------------------------------------
\* POST /api/audit; an event that is not valid is rejected before the repository sees it.
Create(c, id, time, matches) ==
  /\ At(c, "closed") /\ ~Reading(c)
  /\ \A d \in Clients : Recording(d) => calls[d].id # id
  /\ \A e \in log : e.id # id
  /\ Wants(c, [id |-> id, time |-> time, matches |-> matches])
  /\ Open(c)
  /\ UNCHANGED log

\* The first GET /api/audit or /api/audit/search of a client.
Look(c, ascending, limit) ==
  /\ At(c, "closed") /\ ~Reading(c)
  /\ Wants(c, [ascending |-> ascending, limit |-> limit, offset |-> 0,
                 seen |-> <<>>, initial |-> log, finished |-> FALSE])
  /\ Open(c)
  /\ UNCHANGED log

\* The next page, or the same one again after an error.
Continue(c) ==
  /\ At(c, "closed") /\ Reading(c) /\ ~calls[c].finished
  /\ Open(c)
  /\ UNCHANGED <<log, calls>>

Leave(c) ==
  /\ At(c, "closed") /\ Reading(c)
  /\ Wants(c, NoCall)
  /\ UNCHANGED <<databaseVars, log>>

\* INSERT INTO audit_events, commit; or the database is locked, and the request is rejected.
Insert(c) ==
  /\ At(c, "open") /\ Recording(c)
  /\ log' \in {log, log \cup {calls[c]}}
  /\ Wants(c, NoCall)
  /\ Closes(c)
  /\ UNCHANGED <<schema, versions>>

\* A page and the total, by which the client knows whether there are more.
Page(c) ==
  /\ At(c, "open") /\ Reading(c)
  /\ LET traversal == calls[c]
         offset == traversal.offset + traversal.limit
     IN  \E page \in PagesOf(traversal) :
           Wants(c, [traversal EXCEPT
             !.seen = @ \o page, !.offset = offset,
             !.finished = offset >= Cardinality(Matching(log))])
  /\ Closes(c)
  /\ UNCHANGED <<log, schema, versions>>

\* The process stops, with the requests it serves.
Crash ==
  /\ opening' = [c \in Clients |-> Closed]
  /\ calls' = [c \in Clients |-> IF Recording(c) THEN NoCall ELSE calls[c]]
  /\ UNCHANGED <<schema, versions, log>>

-----------------------------------------------------------------------------
AuditInit ==
  /\ DatabaseInit
  /\ log = {}
  /\ calls = [c \in Clients |-> NoCall]

AuditNext ==
  \/ \E c \in Clients :
       \/ \E id \in EventIds, time \in Instants, matches \in BOOLEAN : Create(c, id, time, matches)
       \/ \E ascending \in BOOLEAN, limit \in Limits : Look(c, ascending, limit)
       \/ Continue(c) \/ Leave(c) \/ Insert(c) \/ Page(c)
       \/ Initialises(c) /\ UNCHANGED <<log, calls>>
  \/ Crash

AuditSpec == AuditInit /\ [][AuditNext]_auditVars

-----------------------------------------------------------------------------
\* Whoever reads the log page by page, in either order, sees every event that was there when they
\* began, whatever is recorded meanwhile: the log grows, so events move to later pages only. They
\* see them in order and none twice, unless one has been recorded that sorts before those.
PagesComplete ==
  \A c \in Clients : Reading(c) =>
    LET t == calls[c]
        seen == t.seen
    IN  /\ t.finished =>
             \A e \in Matching(t.initial) : \E n \in DOMAIN seen : seen[n] = e
        /\ \A m, n \in DOMAIN seen : m < n /\ ~Before(t.ascending, seen[m], seen[n]) =>
             \E e \in Matching(log \ t.initial) : Before(t.ascending, e, seen[m])
=============================================================================
