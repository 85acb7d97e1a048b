---------------------------- MODULE MemoryPromise ----------------------------
(***************************************************************************)
(* What the memory engine promises (src/README_MODULE_12.md and the        *)
(* handlers of src/app/services/memory_service.py): a book of memories in  *)
(* which each request is one atomic step.  A memory is live until its time *)
(* comes, is dead from then on, and can be forgotten at any time for good. *)
(***************************************************************************)
EXTENDS Naturals

CONSTANTS Users, Keys, Values, Ids, None

VARIABLE book

Entry == [user : Users, key : Keys, value : Values,
          life : {"live", "dead", "forgotten"}, version : Nat]

PromiseTypeOK == book \in [Ids -> Entry \cup {None}]

Living == {id \in Ids : book[id] # None /\ book[id].life = "live"}

\* The next version of memory m.
NextVersion(m, v, l) ==
  [user |-> m.user, key |-> m.key, value |-> v, life |-> l, version |-> m.version + 1]

\* A new memory: its user has no live one under this key.  A memory whose
\* expiry has already come is dead from the start.
Add(id) ==
  /\ book[id] = None
  /\ \E e \in [user : Users, key : Keys, value : Values,
               life : {"live", "dead"}, version : {1}] :
       /\ \A o \in Living : book[o].user # e.user \/ book[o].key # e.key
       /\ book' = [book EXCEPT ![id] = e]

\* Only a live memory takes a new value or a new expiry.
Revise(id) ==
  /\ id \in Living
  /\ \E v \in Values, l \in {"live", "dead"} :
       book' = [book EXCEPT ![id] = NextVersion(@, v, l)]

\* Live or dead, a memory can be forgotten, once.
Drop(id) ==
  /\ book[id] # None
  /\ book[id].life # "forgotten"
  /\ book' = [book EXCEPT ![id] = NextVersion(@, @.value, "forgotten")]

\* Time passes and some memories reach their expiry.
Lapse ==
  \E S \in SUBSET Living :
    /\ S # {}
    /\ book' = [id \in Ids |-> IF id \in S THEN [book[id] EXCEPT !.life = "dead"] ELSE book[id]]

PromiseInit == book = [id \in Ids |-> None]

PromiseNext == Lapse \/ \E id \in Ids : Add(id) \/ Revise(id) \/ Drop(id)

PromiseSpec == PromiseInit /\ [][PromiseNext]_book
=============================================================================
