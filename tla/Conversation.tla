---------------------------- MODULE Conversation ----------------------------
(* One conversation session of M15: UIService over InMemoryConversationRepository, which the   *)
(* threads of FastAPI's pool share without a lock. self.messages holds a reference to a list   *)
(* object; eviction and clear replace the list, an append changes it in place, and a thread    *)
(* may append to one that has been replaced meanwhile.                                         *)
EXTENDS Integers, Sequences, FiniteSets

CONSTANTS
  Threads,      \* threads that serve requests
  Lists,        \* list objects, as many as are in use at once
  Ids,          \* message ids in the order of their hex form; each is drawn once
  Times,        \* timestamps of requests, chosen by the clients
  Limit,        \* max_messages
  None

ASSUME NumbersAssumption == Ids \subseteq Nat /\ Times \subseteq Nat /\ Limit \in Nat \ {0}

VARIABLES
  lists,        \* the contents of the list objects
  current,      \* the object that self.messages[sid] is
  count,        \* message_count of the session
  threads,      \* what each thread is doing
  unused,       \* ids that no message has yet
  since,        \* the messages since the last clear, while calls have not overlapped
  overlapped    \* two calls have been under way at once

vars == <<lists, current, count, threads, unused, since, overlapped>>

Message == [id : Ids, role : {"user", "assistant", "system"}, time : Times]

Steps ==
  {"idle", "fetch", "append", "reread", "trim", "rest", "store", "tally", "count", "respond",
   "empty", "zero"}

\* Some of the messages of a list, by their positions there.
Copy == UNION {[P -> Message] : P \in {Q \in SUBSET Nat : IsFiniteSet(Q)}}

\* list: the object a local variable refers to.  system, rest: the copies made of it.
Thread ==
  [step : Steps, message : Message \cup {None}, list : Lists \cup {None},
   system : Copy, rest : Copy, length : Nat]

Uncopied == [n \in {} |-> None]

Idle ==
  [step |-> "idle", message |-> None, list |-> None, system |-> Uncopied, rest |-> Uncopied,
   length |-> 0]

TypeOK ==
  /\ lists \in [Lists -> Seq(Message)]
  /\ current \in Lists
  /\ count \in Nat
  /\ threads \in [Threads -> Thread]
  /\ unused \subseteq Ids
  /\ since \in Seq(Message)
  /\ overlapped \in BOOLEAN

-----------------------------------------------------------------------------
MessagesOf(items) == {items[n] : n \in DOMAIN items}

Precedes(a, b) == a.time < b.time \/ (a.time = b.time /\ a.id < b.id)

\* sorted(..., key=lambda m: (m.timestamp, m.message_id.hex))
Sortings(M) ==
  {s \in [1 .. Cardinality(M) -> M] : \A m, n \in DOMAIN s : m < n => Precedes(s[m], s[n])}

CopyOf(items, roles) == [n \in {k \in DOMAIN items : items[k].role \in roles} |-> items[n]]

\* The last of some positions, at most so many.
Youngest(P, many) == {n \in P : Cardinality({m \in P : m > n}) < many}

DropsSystemFirst(system, rest) ==    \* mutant: system messages are evicted like the others
  LET kept == Youngest(DOMAIN system \cup DOMAIN rest, Limit)
  IN  {system[n] : n \in kept \cap DOMAIN system} \cup {rest[n] : n \in kept \cap DOMAIN rest}

\* What the while loop leaves: the oldest of the others go first, then the oldest system messages.
Kept(system, rest) ==
  {system[n] : n \in Youngest(DOMAIN system, Limit)}
    \cup {rest[n] : n \in Youngest(DOMAIN rest, Limit - Cardinality(DOMAIN system))}

Becomes(t, thread) == threads' = [threads EXCEPT ![t] = thread]

Goes(t, step) == Becomes(t, [threads[t] EXCEPT !.step = step])

\* Binds self.messages[sid] to a new object; objects nothing refers to any more are gone.
Rebind(t, items) ==
  LET held == {threads[o].list : o \in Threads \ {t}}
  IN  \E l \in Lists \ held :
        /\ current' = l
        /\ lists' = [o \in Lists |-> IF o = l THEN items ELSE IF o \in held THEN lists[o] ELSE <<>>]

-----------------------------------------------------------------------------
\* A new call is under way beside those already there.
Overlaps(t) == \E o \in Threads \ {t} : threads[o].step # "idle"

Begins(t) ==
  /\ threads[t].step = "idle"
  /\ overlapped' = (overlapped \/ Overlaps(t))
  /\ since' = IF overlapped' THEN <<>> ELSE since
  /\ UNCHANGED <<lists, current, count>>

\* uuid4(), and the way to repo.add_message.
Draws(t, id, role, time) ==
  /\ id \in unused
  /\ unused' = unused \ {id}
  /\ Becomes(t, [Idle EXCEPT !.step = "fetch", !.message = [id |-> id, role |-> role, time |-> time]])

\* handle of the owner of the session, up to its first add_message.
Handle(t, id, time) == Begins(t) /\ Draws(t, id, "user", time)

\* add_message of a system message.
AddSystem(t, id, time) == Begins(t) /\ Draws(t, id, "system", time)

\* self.messages.setdefault(...)
Fetch(t) ==
  /\ threads[t].step = "fetch"
  /\ Becomes(t, [threads[t] EXCEPT !.step = "append", !.list = current])
  /\ UNCHANGED <<lists, current, count, unused, since, overlapped>>

\* .append(msg), to the object fetched before.
AppendMessage(t) ==
  /\ threads[t].step = "append"
  /\ lists' = [lists EXCEPT ![threads[t].list] = Append(@, threads[t].message)]
  /\ since' = IF overlapped THEN <<>> ELSE Append(since, threads[t].message)
  /\ Becomes(t, [threads[t] EXCEPT !.step = "reread", !.list = None])
  /\ UNCHANGED <<current, count, unused, overlapped>>

\* items = self.messages[msg.session_id]
Reread(t) ==
  /\ threads[t].step = "reread"
  /\ Becomes(t, [threads[t] EXCEPT !.step = "trim", !.list = current])
  /\ UNCHANGED <<lists, current, count, unused, since, overlapped>>

FitsByCount(t) ==    \* mutant: the limit is applied to message_count, which the message will raise
  /\ threads[t].step = "trim"
  /\ count < Limit
  /\ Becomes(t, [threads[t] EXCEPT !.step = "tally", !.list = None])
  /\ UNCHANGED <<lists, current, count, unused, since, overlapped>>

\* len(items) is within the limit.
Fits(t) ==
  /\ threads[t].step = "trim"
  /\ Len(lists[threads[t].list]) <= Limit
  /\ Becomes(t, [threads[t] EXCEPT !.step = "tally", !.list = None])
  /\ UNCHANGED <<lists, current, count, unused, since, overlapped>>

\* system = [...]: what has been appended by the time the comprehension ends.
CopySystem(t) ==
  /\ threads[t].step = "trim"
  /\ Len(lists[threads[t].list]) > Limit
  /\ Becomes(t, [threads[t] EXCEPT
       !.step = "rest", !.system = CopyOf(lists[threads[t].list], {"system"})])
  /\ UNCHANGED <<lists, current, count, unused, since, overlapped>>

\* non = [...]; the while loop works on the two copies only.
CopyRest(t) ==
  /\ threads[t].step = "rest"
  /\ Becomes(t, [threads[t] EXCEPT
       !.step = "store", !.list = None,
       !.rest = CopyOf(lists[threads[t].list], {"user", "assistant"})])
  /\ UNCHANGED <<lists, current, count, unused, since, overlapped>>

\* self.messages[msg.session_id] = sorted(...)
Store(t) ==
  /\ threads[t].step = "store"
  /\ \E items \in Sortings(Kept(threads[t].system, threads[t].rest)) : Rebind(t, items)
  /\ Becomes(t, [threads[t] EXCEPT !.step = "tally", !.system = Uncopied, !.rest = Uncopied])
  /\ UNCHANGED <<count, unused, since, overlapped>>

\* len(self.messages[msg.session_id]) of the updated session.
Tally(t) ==
  /\ threads[t].step = "tally"
  /\ Becomes(t, [threads[t] EXCEPT !.step = "count", !.length = Len(lists[current])])
  /\ UNCHANGED <<lists, current, count, unused, since, overlapped>>

\* self.sessions[msg.session_id] = ...; handle then asks the backend, everything else returns.
Count(t) ==
  /\ threads[t].step = "count"
  /\ count' = threads[t].length
  /\ Becomes(t, IF threads[t].message.role = "user"
                  THEN [threads[t] EXCEPT !.step = "respond", !.length = 0]
                  ELSE Idle)
  /\ UNCHANGED <<lists, current, unused, since, overlapped>>

\* The backend answers; the answer carries the timestamp of the request.
Respond(t, id) ==
  /\ threads[t].step = "respond"
  /\ Draws(t, id, "assistant", threads[t].message.time)
  /\ UNCHANGED <<lists, current, count, since, overlapped>>

\* The backend raises, or its answer looks sensitive: the route says 400 or 500.
Fail(t) ==
  /\ threads[t].step = "respond"
  /\ Becomes(t, Idle)
  /\ UNCHANGED <<lists, current, count, unused, since, overlapped>>

\* clear_session of the owner.
Clear(t) ==
  /\ Begins(t)
  /\ Goes(t, "empty")
  /\ UNCHANGED unused

\* self.messages[sid] = []
Empty(t) ==
  /\ threads[t].step = "empty"
  /\ Rebind(t, <<>>)
  /\ since' = <<>>
  /\ Goes(t, "zero")
  /\ UNCHANGED <<count, unused, overlapped>>

\* message_count = 0
Zero(t) ==
  /\ threads[t].step = "zero"
  /\ count' = 0
  /\ Becomes(t, Idle)
  /\ UNCHANGED <<lists, current, unused, since, overlapped>>

-----------------------------------------------------------------------------
\* create_session has been called.
Init ==
  /\ lists = [l \in Lists |-> <<>>]
  /\ current \in Lists
  /\ count = 0
  /\ threads = [t \in Threads |-> Idle]
  /\ unused = Ids
  /\ since = <<>>
  /\ overlapped = FALSE

Step(t) ==
  \/ \E id \in Ids, time \in Times : Handle(t, id, time) \/ AddSystem(t, id, time)
  \/ \E id \in Ids : Respond(t, id)
  \/ Fetch(t) \/ AppendMessage(t) \/ Reread(t) \/ Fits(t) \/ CopySystem(t) \/ CopyRest(t) \/ Store(t)
  \/ Tally(t) \/ Count(t) \/ Fail(t) \/ Clear(t) \/ Empty(t) \/ Zero(t)

Next == \E t \in Threads : Step(t)

Spec == Init /\ [][Next]_vars

-----------------------------------------------------------------------------
AtRest == \A t \in Threads : threads[t].step = "idle"

Listed == MessagesOf(lists[current])

\* When no call is under way, a session holds at most max_messages messages, whatever the
\* threads did to its list meanwhile: whoever makes a list too long also cuts one down, though
\* perhaps not that one.
WithinLimit == AtRest => Len(lists[current]) <= Limit

\* As long as the timestamps of the requests have not gone back.
Ascending == \A m, n \in DOMAIN since : m < n => since[m].time <= since[n].time

Gone == MessagesOf(since) \ Listed

\* Calls that do not overlap lose messages to the limit only, and then no more than must go:
\* others before system messages and, if timestamps do not go back, none before an older one.
\* message_count says how many are left.
EvictsOldestFirst ==
  ~overlapped /\ AtRest =>
    /\ count = Len(lists[current])
    /\ Listed \subseteq MessagesOf(since)
    /\ Gone # {} => count = Limit
    /\ \A e \in Gone : \A k \in Listed :
         /\ e.role = "system" => k.role = "system"
         /\ Ascending /\ (e.role = "system" <=> k.role = "system") => e.time <= k.time
=============================================================================
