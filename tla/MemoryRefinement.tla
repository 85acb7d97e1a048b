-------------------------- MODULE MemoryRefinement --------------------------
(***************************************************************************)
(* MemoryEngine serving one request at a time implements MemoryPromise.    *)
(***************************************************************************)
EXTENDS MemoryEngine

\* A stored row as the promise sees it at time t: whether a lapsed memory has
\* been marked expired in the table yet makes no difference.
Life(r, t) ==
  CASE r.status = "forgotten" -> "forgotten"
    [] Live(r, t)             -> "live"
    [] OTHER                  -> "dead"

Row(r, t) ==
  [user |-> r.user, key |-> r.key, value |-> r.value, life |-> Life(r, t), version |-> r.version]

Book == [id \in Ids |-> IF records[id] = None THEN None ELSE Row(records[id], now)]

Promise == INSTANCE MemoryPromise WITH book <- Book

\* None stands for no row in the table and for no entry in the book.
ASSUME NoneAssumption == None \notin Record \cup Promise!Entry

\* Served one at a time and with current_time never running backwards, the
\* engine is the atomic book: lazy expiry by retrieve, list and update, the two
\* repository calls of each handler and requests that fail halfway all show as
\* single steps of it or as nothing at all.
KeepsPromise == Promise!PromiseSpec
=============================================================================
