--------------------------- MODULE ServicesProofs ---------------------------
(***************************************************************************)
(* Proofs about two of the services: the limit of a session and the order  *)
(* of eviction, for any number of threads, lists and messages; and the     *)
(* security policy, for every action, text and URL.                        *)
(***************************************************************************)
EXTENDS Conversation, Security, TLAPS, FiniteSetTheorems, WellFoundedInduction

-----------------------------------------------------------------------------
\* What is left of a list: at most Limit messages.
Below == OpToRel(<, Nat)

LEMMA BelowHolds == \A x \in Nat, y \in Nat : y < x => <<y, x>> \in Below
  BY DEF OpToRel, Below

LEMMA BelowFounded == IsWellFoundedOn(Below, Nat)
  BY NatLessThanWellFounded DEF Below

\* Every non-empty set of positions has a first one.
LEMMA First ==
  ASSUME NEW S \in SUBSET Nat, S # {}
  PROVE  \E x \in S : \A y \in S : x <= y
<1>1. PICK x \in S : \A y \in S : ~(<<y, x>> \in Below)
  BY BelowFounded, WFMin
<1>2. ASSUME NEW y \in S PROVE x <= y
  <2>1. x \in Nat /\ y \in Nat
    OBVIOUS
  <2>2. ~(<<y, x>> \in Below)
    BY <1>1
  <2>3. ~(y < x)
    BY <2>1, <2>2, BelowHolds, Zenon
  <2> QED
    BY <2>1, <2>3
<1> QED
  BY <1>2

\* The last positions of a finite set are no more than asked for: all but the first of them come
\* after it, and those are too few to make it one more.
LEMMA YoungestAreFew ==
  ASSUME NEW P \in SUBSET Nat, IsFiniteSet(P), NEW many \in Int
  PROVE  /\ IsFiniteSet(Youngest(P, many))
         /\ Cardinality(Youngest(P, many)) \in Nat
         /\ Cardinality(Youngest(P, many)) <= IF many > 0 THEN many ELSE 0
<1> DEFINE Y == Youngest(P, many)
<1>1. Y \in SUBSET P
  BY DEF Youngest
<1>2. IsFiniteSet(Y) /\ Cardinality(Y) \in Nat
  BY <1>1, FS_Subset, FS_CardinalityType
<1>3. CASE Y = {}
  <2>1. Cardinality(Y) = 0
    BY <1>3, FS_EmptySet
  <2> QED
    BY <1>2, <2>1
<1>4. CASE Y # {}
  <2>1. Y \in SUBSET Nat
    BY <1>1
  <2>2. PICK n \in Y : \A m \in Y : n <= m
    BY <1>4, <2>1, First
  <2> DEFINE later == {m \in P : m > n}
  <2>3. Cardinality(later) < many
    BY <2>2 DEF Youngest
  <2>4. IsFiniteSet(later) /\ Cardinality(later) \in Nat
    <3>1. later \in SUBSET P
      OBVIOUS
    <3> QED
      BY <3>1, FS_Subset, FS_CardinalityType
  <2>5. Y \ {n} \in SUBSET later
    <3>1. ASSUME NEW m \in Y \ {n} PROVE m \in P /\ m > n
      <4>1. n <= m /\ m # n /\ m \in Nat /\ n \in Nat
        BY <2>1, <2>2
      <4> QED
        BY <1>1, <4>1
    <3> QED
      BY <3>1
  <2>6. Cardinality(Y \ {n}) <= Cardinality(later)
    BY <2>4, <2>5, FS_Subset
  <2>7. Cardinality(Y \ {n}) = Cardinality(Y) - 1
    BY <1>2, <2>2, FS_RemoveElement
  <2>8. Cardinality(Y) - 1 < many
    <3> HIDE DEF Y, later
    <3> QED
      BY <1>2, <2>3, <2>4, <2>6, <2>7
  <2>9. Cardinality(Y) <= IF many > 0 THEN many ELSE 0
    <3> HIDE DEF Y
    <3> QED
      BY <1>2, <2>8
  <2> QED
    BY <1>2, <2>9
<1> QED
  BY <1>3, <1>4

\* The image of a finite set has no more elements.
LEMMA ImageIsNoLarger ==
  ASSUME NEW f, NEW S, IsFiniteSet(S)
  PROVE  /\ IsFiniteSet({f[n] : n \in S})
         /\ Cardinality({f[n] : n \in S}) \in Nat
         /\ Cardinality({f[n] : n \in S}) <= Cardinality(S)
<1> DEFINE T == {f[n] : n \in S}
           g == [n \in S |-> f[n]]
<1>1. g \in Surjection(S, T)
  BY DEF Surjection
<1>2. IsFiniteSet(T) /\ Cardinality(T) <= Cardinality(S)
  <2> HIDE DEF g, T
  <2> QED
    BY <1>1, FS_Surjection
<1> QED
  BY <1>2, FS_CardinalityType

\* Eviction leaves messages of the two copies, no more of them than the limit.
LEMMA KeptAreFew ==
  ASSUME NEW system \in Copy, NEW rest \in Copy, Limit \in Nat
  PROVE  /\ Kept(system, rest) \subseteq Message
         /\ Cardinality(Kept(system, rest)) \in Nat
         /\ Cardinality(Kept(system, rest)) <= Limit
<1> DEFINE P == DOMAIN system
           Q == DOMAIN rest
           size == Cardinality(P)
           A == Youngest(P, Limit)
           B == Youngest(Q, Limit - size)
           SA == {system[n] : n \in A}
           SB == {rest[n] : n \in B}
<1>1. P \in SUBSET Nat /\ IsFiniteSet(P) /\ system \in [P -> Message]
  BY DEF Copy
<1>2. Q \in SUBSET Nat /\ IsFiniteSet(Q) /\ rest \in [Q -> Message]
  BY DEF Copy
<1>3. size \in Nat /\ Limit \in Int /\ Limit - size \in Int
  BY <1>1, FS_CardinalityType
<1>4. /\ IsFiniteSet(A) /\ Cardinality(A) \in Nat
      /\ Cardinality(A) <= IF Limit > 0 THEN Limit ELSE 0
  <2> HIDE DEF P
  <2> QED
    BY <1>1, <1>3, YoungestAreFew
<1>5. /\ IsFiniteSet(B) /\ Cardinality(B) \in Nat
      /\ Cardinality(B) <= IF Limit - size > 0 THEN Limit - size ELSE 0
  <2> HIDE DEF Q, size
  <2> QED
    BY <1>2, <1>3, YoungestAreFew
<1>6. Cardinality(A) <= size
  <2>1. A \in SUBSET P
    BY DEF Youngest
  <2> QED
    BY <1>1, <2>1, FS_Subset
<1>7. IsFiniteSet(SA) /\ Cardinality(SA) \in Nat /\ Cardinality(SA) <= Cardinality(A)
  <2> HIDE DEF A
  <2> QED
    BY <1>4, ImageIsNoLarger
<1>8. IsFiniteSet(SB) /\ Cardinality(SB) \in Nat /\ Cardinality(SB) <= Cardinality(B)
  <2> HIDE DEF B
  <2> QED
    BY <1>5, ImageIsNoLarger
<1>9. Kept(system, rest) = SA \cup SB
  BY DEF Kept
<1>10. /\ Cardinality(SA \cup SB) = Cardinality(SA) + Cardinality(SB) - Cardinality(SA \cap SB)
       /\ Cardinality(SA \cup SB) \in Nat
       /\ Cardinality(SA \cap SB) \in Nat
  <2> HIDE DEF SA, SB
  <2>1. IsFiniteSet(SA \cup SB)
    BY <1>7, <1>8, FS_Union
  <2>2. IsFiniteSet(SA \cap SB)
    <3>1. SA \cap SB \in SUBSET SA
      OBVIOUS
    <3> QED
      BY <1>7, <3>1, FS_Subset
  <2> QED
    BY <1>7, <1>8, <2>1, <2>2, FS_Union, FS_CardinalityType
<1>11. Cardinality(SA \cup SB) <= Limit
  <2> HIDE DEF SA, SB, A, B, size
  <2> QED
    BY <1>3, <1>4, <1>5, <1>6, <1>7, <1>8, <1>10
<1>12. SA \cup SB \subseteq Message
  BY <1>1, <1>2 DEF Youngest
<1> QED
  BY <1>9, <1>10, <1>11, <1>12

\* What the eviction stores has its messages from the copies, and fits.
LEMMA StoredFits ==
  ASSUME NEW system \in Copy, NEW rest \in Copy, Limit \in Nat,
         NEW items \in Sortings(Kept(system, rest))
  PROVE  items \in Seq(Message) /\ Len(items) \in Nat /\ Len(items) <= Limit
<1> DEFINE M == Kept(system, rest)
           size == Cardinality(M)
<1>1. M \subseteq Message /\ size \in Nat /\ size <= Limit
  BY KeptAreFew
<1>2. items \in [1 .. size -> M]
  BY DEF Sortings
<1>3. items \in Seq(M) /\ Len(items) = size
  <2> HIDE DEF M, size
  <2> QED
    BY <1>1, <1>2
<1>4. items \in Seq(Message)
  <2> HIDE DEF M, size
  <2> QED
    BY <1>1, <1>3
<1> QED
  <2> HIDE DEF size
  <2> QED
    BY <1>1, <1>3, <1>4

LEMMA NothingCopied == Uncopied \in Copy
<1>1. IsFiniteSet({}) /\ {} \in SUBSET Nat
  BY FS_EmptySet
<1>2. Uncopied \in [{} -> Message]
  BY DEF Uncopied
<1> QED
  BY <1>1, <1>2 DEF Copy

LEMMA CopyIsFinite ==
  ASSUME NEW items \in Seq(Message), NEW roles
  PROVE  CopyOf(items, roles) \in Copy
<1> DEFINE P == {k \in DOMAIN items : items[k].role \in roles}
<1>1. DOMAIN items = 1 .. Len(items) /\ Len(items) \in Nat
  OBVIOUS
<1>2. 1 \in Int /\ Len(items) \in Int
  BY <1>1
<1>3. IsFiniteSet(1 .. Len(items))
  BY <1>2, FS_Interval
<1>4. P \in SUBSET (1 .. Len(items))
  BY <1>1
<1>5. IsFiniteSet(P)
  BY <1>3, <1>4, FS_Subset
<1>6. P \in SUBSET Nat
  BY <1>4
<1>7. CopyOf(items, roles) \in [P -> Message]
  <2>1. \A k \in P : items[k] \in Message
    BY <1>1
  <2> QED
    BY <2>1 DEF CopyOf
<1> QED
  BY <1>5, <1>6, <1>7 DEF Copy

-----------------------------------------------------------------------------
\* The inductive invariant.  Local variables hold what the steps that read them need; and a list
\* that is too long has someone who will replace it.
Carrying(t) ==
  threads[t].step \notin {"idle", "empty", "zero"} => threads[t].message \in Message

Pointing(t) == threads[t].step \in {"append", "trim", "rest"} => threads[t].list \in Lists

Locals == \A t \in Threads : Carrying(t) /\ Pointing(t)

Shortens(t) ==
  \/ threads[t].step \in {"reread", "store"}
  \/ threads[t].step \in {"trim", "rest"} /\ threads[t].list = current

Attended == Len(lists[current]) > Limit => \E t \in Threads : Shortens(t)

Ind == TypeOK /\ Locals /\ Attended

LEMMA IdleIsThread == Idle \in Thread
  BY NothingCopied DEF Idle, Thread, Steps

LEMMA IndInit == Init => Ind
<1> SUFFICES ASSUME Init PROVE Ind
  OBVIOUS
<1>1. TypeOK
  <2>1. <<>> \in Seq(Message)
    OBVIOUS
  <2>2. lists \in [Lists -> Seq(Message)] /\ threads \in [Threads -> Thread]
    BY <2>1, IdleIsThread DEF Init
  <2>3. current \in Lists /\ count \in Nat /\ unused \subseteq Ids /\ overlapped \in BOOLEAN
    BY DEF Init
  <2>4. since \in Seq(Message)
    BY <2>1 DEF Init
  <2> QED
    BY <2>2, <2>3, <2>4 DEF TypeOK
<1>2. Locals
  <2>1. \A t \in Threads : threads[t].step = "idle"
    BY DEF Init, Idle
  <2> QED
    BY <2>1 DEF Locals, Carrying, Pointing
<1>3. Attended
  <2>1. lists[current] = <<>>
    BY DEF Init
  <2>2. Len(lists[current]) = 0
    BY <2>1
  <2>3. ~(Len(lists[current]) > Limit)
    BY <2>2, NumbersAssumption
  <2> QED
    BY <2>3 DEF Attended
<1> QED
  BY <1>1, <1>2, <1>3 DEF Ind

\* A thread's own step, in general: the invariant asks nothing of others that the step could
\* disturb but the lists.
LEMMA StepTyped ==
  ASSUME TypeOK, Locals, NEW t \in Threads, NEW thread \in Thread, Becomes(t, thread),
         thread.step \notin {"idle", "empty", "zero"} => thread.message \in Message,
         thread.step \in {"append", "trim", "rest"} => thread.list \in Lists
  PROVE  /\ threads' \in [Threads -> Thread]
         /\ Locals'
         /\ threads'[t] = thread
         /\ \A u \in Threads \ {t} : threads'[u] = threads[u]
<1>1. threads \in [Threads -> Thread]
  BY DEF TypeOK
<1>2. threads' = [threads EXCEPT ![t] = thread]
  BY DEF Becomes
<1>3. /\ threads' \in [Threads -> Thread]
      /\ threads'[t] = thread
      /\ \A u \in Threads \ {t} : threads'[u] = threads[u]
  BY <1>1, <1>2
<1>4. ASSUME NEW u \in Threads PROVE Carrying(u)' /\ Pointing(u)'
  <2>1. CASE u = t
    BY <1>3, <2>1 DEF Carrying, Pointing
  <2>2. CASE u # t
    BY <1>3, <2>2 DEF Locals, Carrying, Pointing
  <2> QED
    BY <2>1, <2>2
<1> QED
  BY <1>3, <1>4 DEF Locals

\* Whoever was to shorten the list still is, when the step is another's and rebinds nothing.
LEMMA OthersAttend ==
  ASSUME Attended, NEW t \in Threads, lists' = lists, current' = current,
         \A u \in Threads \ {t} : threads'[u] = threads[u],
         Shortens(t) => Shortens(t)' \/ ~(Len(lists[current]) > Limit)
  PROVE  Attended'
<1> SUFFICES ASSUME Len(lists'[current']) > Limit PROVE \E u \in Threads : Shortens(u)'
  BY DEF Attended
<1>1. PICK u \in Threads : Shortens(u)
  BY DEF Attended
<1>2. CASE u = t
  BY <1>1, <1>2
<1>3. CASE u # t
  BY <1>1, <1>3 DEF Shortens
<1> QED
  BY <1>2, <1>3

LEMMA RebindTyped ==
  ASSUME TypeOK, NEW t \in Threads, NEW items \in Seq(Message), Rebind(t, items)
  PROVE  /\ lists' \in [Lists -> Seq(Message)]
         /\ current' \in Lists
         /\ lists'[current'] = items
<1> DEFINE held == {threads[o].list : o \in Threads \ {t}}
<1>1. PICK l \in Lists \ held :
        /\ current' = l
        /\ lists' = [o \in Lists |-> IF o = l THEN items ELSE IF o \in held THEN lists[o] ELSE <<>>]
  BY DEF Rebind
<1>2. lists \in [Lists -> Seq(Message)] /\ <<>> \in Seq(Message)
  BY DEF TypeOK
<1> HIDE DEF held
<1> QED
  BY <1>1, <1>2

-----------------------------------------------------------------------------
\* One lemma per kind of step.
LEMMA BeginsKeeps ==
  ASSUME Ind, NEW t \in Threads, Begins(t), NEW thread \in Thread, Becomes(t, thread),
         unused' \subseteq Ids,
         thread.step \in {"fetch", "empty"},
         thread.step = "fetch" => thread.message \in Message
  PROVE  Ind'
<1> USE DEF Ind
<1>1. /\ threads' \in [Threads -> Thread] /\ Locals' /\ threads'[t] = thread
      /\ \A u \in Threads \ {t} : threads'[u] = threads[u]
  BY StepTyped
<1>2. threads[t].step = "idle" /\ lists' = lists /\ current' = current /\ count' = count
  BY DEF Begins
<1>3. since' \in Seq(Message) /\ overlapped' \in BOOLEAN
  BY DEF Begins, TypeOK
<1>4. TypeOK'
  BY <1>1, <1>2, <1>3 DEF TypeOK
<1>5. Attended'
  BY <1>1, <1>2, OthersAttend DEF Shortens
<1> QED
  BY <1>1, <1>4, <1>5

LEMMA DrawnIsThread ==
  ASSUME Ind, NEW t \in Threads, NEW id, NEW role \in {"user", "assistant", "system"},
         NEW time \in Times, Draws(t, id, role, time)
  PROVE  \E thread \in Thread :
           /\ Becomes(t, thread) /\ unused' \subseteq Ids
           /\ thread.step = "fetch" /\ thread.message \in Message
<1> DEFINE message == [id |-> id, role |-> role, time |-> time]
           thread == [Idle EXCEPT !.step = "fetch", !.message = message]
<1>1. id \in Ids /\ unused' \subseteq Ids
  BY DEF Draws, Ind, TypeOK
<1>2. message \in Message
  BY <1>1 DEF Message
<1>3. thread \in Thread /\ thread.step = "fetch" /\ thread.message = message
  <2> HIDE DEF message
  <2> QED
    BY <1>2, IdleIsThread DEF Idle, Thread, Steps
<1>4. Becomes(t, thread)
  BY DEF Draws
<1> HIDE DEF thread, message
<1> QED
  BY <1>1, <1>2, <1>3, <1>4

LEMMA HandleKeeps ==
  ASSUME Ind, NEW t \in Threads, NEW id \in Ids, NEW time \in Times,
         Handle(t, id, time) \/ AddSystem(t, id, time)
  PROVE  Ind'
<1>1. Begins(t) /\ (Draws(t, id, "user", time) \/ Draws(t, id, "system", time))
  BY DEF Handle, AddSystem
<1>2. PICK thread \in Thread :
        /\ Becomes(t, thread) /\ unused' \subseteq Ids
        /\ thread.step = "fetch" /\ thread.message \in Message
  BY <1>1, DrawnIsThread
<1> QED
  BY <1>1, <1>2, BeginsKeeps

LEMMA ClearKeeps ==
  ASSUME Ind, NEW t \in Threads, Clear(t)
  PROVE  Ind'
<1> DEFINE thread == [threads[t] EXCEPT !.step = "empty"]
<1>1. Begins(t) /\ Becomes(t, thread) /\ unused' = unused
  BY DEF Clear, Goes
<1>2. threads[t] \in Thread /\ unused \subseteq Ids
  BY DEF Ind, TypeOK
<1>3. thread \in Thread /\ thread.step = "empty"
  BY <1>2 DEF Thread, Steps
<1> HIDE DEF thread
<1> QED
  BY <1>1, <1>2, <1>3, BeginsKeeps

\* The steps that change nothing but the thread, the ids and message_count.
LEMMA LocalStepKeeps ==
  ASSUME Ind, NEW t \in Threads, NEW thread \in Thread, Becomes(t, thread),
         lists' = lists, current' = current, since' = since, overlapped' = overlapped,
         count' \in Nat, unused' \subseteq Ids,
         thread.step \notin {"idle", "empty", "zero"} => thread.message \in Message,
         thread.step \in {"append", "trim", "rest"} => thread.list \in Lists,
         Shortens(t) =>
           \/ thread.step \in {"reread", "store"}
           \/ thread.step \in {"trim", "rest"} /\ thread.list = current
           \/ ~(Len(lists[current]) > Limit)
  PROVE  Ind'
<1> USE DEF Ind
<1>1. /\ threads' \in [Threads -> Thread] /\ Locals' /\ threads'[t] = thread
      /\ \A u \in Threads \ {t} : threads'[u] = threads[u]
  BY StepTyped
<1>2. TypeOK'
  BY <1>1 DEF TypeOK
<1>3. Shortens(t) => Shortens(t)' \/ ~(Len(lists[current]) > Limit)
  BY <1>1 DEF Shortens
<1>4. Attended'
  BY <1>1, <1>3, OthersAttend
<1> QED
  BY <1>1, <1>2, <1>4

LEMMA FetchKeeps == ASSUME Ind, NEW t \in Threads, Fetch(t) PROVE Ind'
<1> DEFINE thread == [threads[t] EXCEPT !.step = "append", !.list = current]
<1>1. threads[t] \in Thread /\ current \in Lists /\ count \in Nat /\ unused \subseteq Ids
  BY DEF Ind, TypeOK
<1>2. threads[t].step = "fetch" /\ threads[t].message \in Message
  BY DEF Fetch, Ind, Locals, Carrying
<1>3. /\ thread \in Thread /\ thread.step = "append" /\ thread.list = current
      /\ thread.message = threads[t].message
  BY <1>1 DEF Thread, Steps
<1>4. ~Shortens(t)
  BY <1>2 DEF Shortens
<1>5. /\ Becomes(t, thread)
      /\ lists' = lists /\ current' = current /\ since' = since /\ overlapped' = overlapped
      /\ count' \in Nat /\ unused' \subseteq Ids
  BY <1>1 DEF Fetch
<1> HIDE DEF thread
<1> QED
  BY <1>1, <1>2, <1>3, <1>4, <1>5, LocalStepKeeps

LEMMA RereadKeeps == ASSUME Ind, NEW t \in Threads, Reread(t) PROVE Ind'
<1> DEFINE thread == [threads[t] EXCEPT !.step = "trim", !.list = current]
<1>1. threads[t] \in Thread /\ current \in Lists /\ count \in Nat /\ unused \subseteq Ids
  BY DEF Ind, TypeOK
<1>2. threads[t].step = "reread" /\ threads[t].message \in Message
  BY DEF Reread, Ind, Locals, Carrying
<1>3. /\ thread \in Thread /\ thread.step = "trim" /\ thread.list = current
      /\ thread.message = threads[t].message
  BY <1>1 DEF Thread, Steps
<1>4. /\ Becomes(t, thread)
      /\ lists' = lists /\ current' = current /\ since' = since /\ overlapped' = overlapped
      /\ count' \in Nat /\ unused' \subseteq Ids
  BY <1>1 DEF Reread
<1> HIDE DEF thread
<1> QED
  BY <1>1, <1>2, <1>3, <1>4, LocalStepKeeps

LEMMA FitsKeeps == ASSUME Ind, NEW t \in Threads, Fits(t) PROVE Ind'
<1> DEFINE thread == [threads[t] EXCEPT !.step = "tally", !.list = None]
<1>1. threads[t] \in Thread /\ count \in Nat /\ unused \subseteq Ids
  BY DEF Ind, TypeOK
<1>2. threads[t].step = "trim" /\ threads[t].message \in Message /\ threads[t].list \in Lists
  BY DEF Fits, Ind, Locals, Carrying, Pointing
<1>3. thread \in Thread /\ thread.step = "tally" /\ thread.message = threads[t].message
  BY <1>1 DEF Thread, Steps
<1>4. Shortens(t) => ~(Len(lists[current]) > Limit)
  <2>1. Shortens(t) => threads[t].list = current
    BY <1>2 DEF Shortens
  <2>2. Len(lists[threads[t].list]) <= Limit
    BY DEF Fits
  <2>3. lists[threads[t].list] \in Seq(Message)
    BY <1>2 DEF Ind, TypeOK
  <2>4. ~(Len(lists[threads[t].list]) > Limit)
    BY <2>2, <2>3, NumbersAssumption
  <2> QED
    BY <2>1, <2>4
<1>5. /\ Becomes(t, thread)
      /\ lists' = lists /\ current' = current /\ since' = since /\ overlapped' = overlapped
      /\ count' \in Nat /\ unused' \subseteq Ids
  BY <1>1 DEF Fits
<1> HIDE DEF thread
<1> QED
  BY <1>1, <1>2, <1>3, <1>4, <1>5, LocalStepKeeps

LEMMA CopySystemKeeps == ASSUME Ind, NEW t \in Threads, CopySystem(t) PROVE Ind'
<1> DEFINE copy == CopyOf(lists[threads[t].list], {"system"})
           thread == [threads[t] EXCEPT !.step = "rest", !.system = copy]
<1>1. threads[t] \in Thread /\ count \in Nat /\ unused \subseteq Ids
  BY DEF Ind, TypeOK
<1>2. threads[t].step = "trim" /\ threads[t].message \in Message /\ threads[t].list \in Lists
  BY DEF CopySystem, Ind, Locals, Carrying, Pointing
<1>3. copy \in Copy
  <2>1. lists[threads[t].list] \in Seq(Message)
    BY <1>2 DEF Ind, TypeOK
  <2> QED
    BY <2>1, CopyIsFinite
<1>4. /\ Becomes(t, thread)
      /\ lists' = lists /\ current' = current /\ since' = since /\ overlapped' = overlapped
      /\ count' \in Nat /\ unused' \subseteq Ids
  BY <1>1 DEF CopySystem
<1> HIDE DEF copy
<1>5. /\ thread \in Thread /\ thread.step = "rest" /\ thread.list = threads[t].list
      /\ thread.message = threads[t].message
  BY <1>1, <1>3 DEF Thread, Steps
<1>6. Shortens(t) => thread.list = current
  BY <1>2, <1>5 DEF Shortens
<1> HIDE DEF thread
<1> QED
  BY <1>1, <1>2, <1>4, <1>5, <1>6, LocalStepKeeps

LEMMA CopyRestKeeps == ASSUME Ind, NEW t \in Threads, CopyRest(t) PROVE Ind'
<1> DEFINE copy == CopyOf(lists[threads[t].list], {"user", "assistant"})
           thread == [threads[t] EXCEPT !.step = "store", !.list = None, !.rest = copy]
<1>1. threads[t] \in Thread /\ count \in Nat /\ unused \subseteq Ids
  BY DEF Ind, TypeOK
<1>2. threads[t].step = "rest" /\ threads[t].message \in Message /\ threads[t].list \in Lists
  BY DEF CopyRest, Ind, Locals, Carrying, Pointing
<1>3. copy \in Copy
  <2>1. lists[threads[t].list] \in Seq(Message)
    BY <1>2 DEF Ind, TypeOK
  <2> QED
    BY <2>1, CopyIsFinite
<1>4. /\ Becomes(t, thread)
      /\ lists' = lists /\ current' = current /\ since' = since /\ overlapped' = overlapped
      /\ count' \in Nat /\ unused' \subseteq Ids
  BY <1>1 DEF CopyRest
<1> HIDE DEF copy
<1>5. thread \in Thread /\ thread.step = "store" /\ thread.message = threads[t].message
  BY <1>1, <1>3 DEF Thread, Steps
<1> HIDE DEF thread
<1> QED
  BY <1>1, <1>2, <1>4, <1>5, LocalStepKeeps

LEMMA TallyKeeps == ASSUME Ind, NEW t \in Threads, Tally(t) PROVE Ind'
<1> DEFINE length == Len(lists[current])
           thread == [threads[t] EXCEPT !.step = "count", !.length = length]
<1>1. /\ threads[t] \in Thread /\ count \in Nat /\ unused \subseteq Ids
      /\ lists[current] \in Seq(Message)
  BY DEF Ind, TypeOK
<1>2. threads[t].step = "tally" /\ threads[t].message \in Message
  BY DEF Tally, Ind, Locals, Carrying
<1>3. length \in Nat
  BY <1>1
<1>4. /\ Becomes(t, thread)
      /\ lists' = lists /\ current' = current /\ since' = since /\ overlapped' = overlapped
      /\ count' \in Nat /\ unused' \subseteq Ids
  BY <1>1 DEF Tally
<1> HIDE DEF length
<1>5. thread \in Thread /\ thread.step = "count" /\ thread.message = threads[t].message
  BY <1>1, <1>3 DEF Thread, Steps
<1>6. ~Shortens(t)
  BY <1>2 DEF Shortens
<1> HIDE DEF thread
<1> QED
  BY <1>1, <1>2, <1>4, <1>5, <1>6, LocalStepKeeps

LEMMA CountKeeps == ASSUME Ind, NEW t \in Threads, Count(t) PROVE Ind'
<1> DEFINE thread == IF threads[t].message.role = "user"
                       THEN [threads[t] EXCEPT !.step = "respond", !.length = 0]
                       ELSE Idle
<1>1. threads[t] \in Thread /\ unused \subseteq Ids
  BY DEF Ind, TypeOK
<1>2. threads[t].step = "count" /\ threads[t].message \in Message /\ threads[t].length \in Nat
  BY <1>1 DEF Count, Ind, Locals, Carrying, Thread
<1>3. /\ Becomes(t, thread)
      /\ lists' = lists /\ current' = current /\ since' = since /\ overlapped' = overlapped
      /\ count' \in Nat /\ unused' \subseteq Ids
  BY <1>1, <1>2 DEF Count
<1>4. /\ thread \in Thread
      /\ \/ thread.step = "respond" /\ thread.message = threads[t].message
         \/ thread.step = "idle"
  <2>1. CASE threads[t].message.role = "user"
    BY <1>1, <2>1 DEF Thread, Steps
  <2>2. CASE threads[t].message.role # "user"
    <3>1. thread = Idle /\ Idle.step = "idle"
      BY <2>2 DEF Idle
    <3> QED
      BY <3>1, IdleIsThread
  <2> QED
    BY <2>1, <2>2
<1>5. ~Shortens(t)
  BY <1>2 DEF Shortens
<1> HIDE DEF thread
<1> QED
  BY <1>1, <1>2, <1>3, <1>4, <1>5, LocalStepKeeps

LEMMA RespondKeeps ==
  ASSUME Ind, NEW t \in Threads, NEW id \in Ids, Respond(t, id)
  PROVE  Ind'
<1>1. threads[t].step = "respond" /\ threads[t].message \in Message /\ count \in Nat
  BY DEF Respond, Ind, Locals, Carrying, TypeOK
<1>2. PICK time \in Times : Draws(t, id, "assistant", time)
  BY <1>1 DEF Respond, Message
<1>3. PICK thread \in Thread :
        /\ Becomes(t, thread) /\ unused' \subseteq Ids
        /\ thread.step = "fetch" /\ thread.message \in Message
  BY <1>2, DrawnIsThread
<1>4. /\ lists' = lists /\ current' = current /\ since' = since /\ overlapped' = overlapped
      /\ count' \in Nat
  BY <1>1 DEF Respond
<1>5. ~Shortens(t)
  BY <1>1 DEF Shortens
<1> QED
  BY <1>3, <1>4, <1>5, LocalStepKeeps

LEMMA FailKeeps == ASSUME Ind, NEW t \in Threads, Fail(t) PROVE Ind'
<1>1. threads[t].step = "respond" /\ count \in Nat /\ unused \subseteq Ids
  BY DEF Fail, Ind, TypeOK
<1>2. Idle \in Thread /\ Idle.step = "idle"
  BY IdleIsThread DEF Idle
<1>3. /\ Becomes(t, Idle)
      /\ lists' = lists /\ current' = current /\ since' = since /\ overlapped' = overlapped
      /\ count' \in Nat /\ unused' \subseteq Ids
  BY <1>1 DEF Fail
<1>4. ~Shortens(t)
  BY <1>1 DEF Shortens
<1> QED
  BY <1>2, <1>3, <1>4, LocalStepKeeps

LEMMA ZeroKeeps == ASSUME Ind, NEW t \in Threads, Zero(t) PROVE Ind'
<1>1. threads[t].step = "zero" /\ unused \subseteq Ids
  BY DEF Zero, Ind, TypeOK
<1>2. Idle \in Thread /\ Idle.step = "idle"
  BY IdleIsThread DEF Idle
<1>3. /\ Becomes(t, Idle)
      /\ lists' = lists /\ current' = current /\ since' = since /\ overlapped' = overlapped
      /\ count' \in Nat /\ unused' \subseteq Ids
  BY <1>1 DEF Zero
<1>4. ~Shortens(t)
  BY <1>1 DEF Shortens
<1> QED
  BY <1>2, <1>3, <1>4, LocalStepKeeps

\* An append makes another object longer, or leaves a thread about to look at the current one.
LEMMA AppendKeeps == ASSUME Ind, NEW t \in Threads, AppendMessage(t) PROVE Ind'
<1> DEFINE thread == [threads[t] EXCEPT !.step = "reread", !.list = None]
           l == threads[t].list
<1>1. /\ threads[t] \in Thread /\ count \in Nat /\ unused \subseteq Ids /\ since \in Seq(Message)
      /\ current \in Lists /\ lists \in [Lists -> Seq(Message)] /\ overlapped \in BOOLEAN
  BY DEF Ind, TypeOK
<1>2. threads[t].step = "append" /\ threads[t].message \in Message /\ l \in Lists
  BY DEF AppendMessage, Ind, Locals, Carrying, Pointing
<1>3. thread \in Thread /\ thread.step = "reread" /\ thread.message = threads[t].message
  BY <1>1 DEF Thread, Steps
<1>4. Becomes(t, thread) /\ current' = current /\ count' = count /\ unused' = unused
      /\ overlapped' = overlapped
  BY DEF AppendMessage
<1>5. lists' \in [Lists -> Seq(Message)]
  <2>1. lists' = [lists EXCEPT ![l] = Append(@, threads[t].message)]
    BY DEF AppendMessage
  <2>2. Append(lists[l], threads[t].message) \in Seq(Message)
    BY <1>1, <1>2
  <2> QED
    BY <1>1, <1>2, <2>1, <2>2
<1>6. since' \in Seq(Message)
  <2>1. since' = IF overlapped THEN <<>> ELSE Append(since, threads[t].message)
    BY DEF AppendMessage
  <2> QED
    BY <1>1, <1>2, <2>1
<1> HIDE DEF thread
<1>7. /\ threads' \in [Threads -> Thread] /\ Locals' /\ threads'[t] = thread
      /\ \A u \in Threads \ {t} : threads'[u] = threads[u]
  BY <1>2, <1>3, <1>4, StepTyped DEF Ind
<1>8. TypeOK'
  BY <1>1, <1>4, <1>5, <1>6, <1>7 DEF TypeOK
<1>9. Shortens(t)'
  BY <1>3, <1>7 DEF Shortens
<1> QED
  BY <1>7, <1>8, <1>9 DEF Ind, Attended

\* What is stored or bound instead fits.
LEMMA RebindKeeps ==
  ASSUME Ind, NEW t \in Threads, NEW thread \in Thread, Becomes(t, thread),
         NEW items \in Seq(Message), Rebind(t, items), ~(Len(items) > Limit),
         since' \in Seq(Message), overlapped' = overlapped, count' = count, unused' = unused,
         thread.step \in {"tally", "zero"},
         thread.step = "tally" => thread.message \in Message
  PROVE  Ind'
<1>1. /\ threads' \in [Threads -> Thread] /\ Locals' /\ threads'[t] = thread
      /\ \A u \in Threads \ {t} : threads'[u] = threads[u]
  BY StepTyped DEF Ind
<1>2. lists' \in [Lists -> Seq(Message)] /\ current' \in Lists /\ lists'[current'] = items
  BY RebindTyped DEF Ind
<1>3. TypeOK'
  BY <1>1, <1>2 DEF Ind, TypeOK
<1>4. Attended'
  BY <1>2 DEF Attended
<1> QED
  BY <1>1, <1>3, <1>4 DEF Ind

LEMMA StoreKeeps == ASSUME Ind, NEW t \in Threads, Store(t) PROVE Ind'
<1> DEFINE thread == [threads[t] EXCEPT !.step = "tally", !.system = Uncopied, !.rest = Uncopied]
<1>1. threads[t] \in Thread /\ since \in Seq(Message)
  BY DEF Ind, TypeOK
<1>2. threads[t].step = "store" /\ threads[t].message \in Message
  BY DEF Store, Ind, Locals, Carrying
<1>3. threads[t].system \in Copy /\ threads[t].rest \in Copy
  BY <1>1 DEF Thread
<1>4. PICK items \in Sortings(Kept(threads[t].system, threads[t].rest)) : Rebind(t, items)
  BY DEF Store
<1>5. Limit \in Nat
  BY NumbersAssumption
<1>6. items \in Seq(Message) /\ Len(items) \in Nat /\ Len(items) <= Limit
  BY <1>3, <1>5, StoredFits
<1>7. ~(Len(items) > Limit)
  BY <1>5, <1>6
<1>8. thread \in Thread /\ thread.step = "tally" /\ thread.message = threads[t].message
  BY <1>1, NothingCopied DEF Thread, Steps
<1>9. /\ Becomes(t, thread)
      /\ since' = since /\ overlapped' = overlapped /\ count' = count /\ unused' = unused
  BY DEF Store
<1> HIDE DEF thread
<1> QED
  BY <1>1, <1>2, <1>4, <1>6, <1>7, <1>8, <1>9, RebindKeeps

LEMMA EmptyKeeps == ASSUME Ind, NEW t \in Threads, Empty(t) PROVE Ind'
<1> DEFINE thread == [threads[t] EXCEPT !.step = "zero"]
<1>1. threads[t] \in Thread
  BY DEF Ind, TypeOK
<1>2. thread \in Thread /\ thread.step = "zero"
  BY <1>1 DEF Thread, Steps
<1>3. /\ Becomes(t, thread) /\ Rebind(t, <<>>)
      /\ since' = <<>> /\ overlapped' = overlapped /\ count' = count /\ unused' = unused
  BY DEF Empty, Goes
<1>4. <<>> \in Seq(Message) /\ Len(<<>>) = 0
  OBVIOUS
<1>5. ~(Len(<<>>) > Limit)
  BY <1>4, NumbersAssumption
<1> HIDE DEF thread
<1> QED
  BY <1>2, <1>3, <1>4, <1>5, RebindKeeps

-----------------------------------------------------------------------------
LEMMA IndKept == Ind /\ [Next]_vars => Ind'
<1> SUFFICES ASSUME Ind, [Next]_vars PROVE Ind'
  OBVIOUS
<1>1. CASE UNCHANGED vars
  BY <1>1 DEF vars, Ind, TypeOK, Locals, Carrying, Pointing, Attended, Shortens
<1>2. ASSUME NEW t \in Threads, Step(t) PROVE Ind'
  <2>1. CASE \E id \in Ids, time \in Times : Handle(t, id, time) \/ AddSystem(t, id, time)
    BY <2>1, HandleKeeps
  <2>2. CASE \E id \in Ids : Respond(t, id)
    BY <2>2, RespondKeeps
  <2>3. CASE Fetch(t) \/ AppendMessage(t) \/ Reread(t) \/ Fits(t)
    BY <2>3, FetchKeeps, AppendKeeps, RereadKeeps, FitsKeeps
  <2>4. CASE CopySystem(t) \/ CopyRest(t) \/ Store(t) \/ Tally(t) \/ Count(t)
    BY <2>4, CopySystemKeeps, CopyRestKeeps, StoreKeeps, TallyKeeps, CountKeeps
  <2>5. CASE Fail(t) \/ Clear(t) \/ Empty(t) \/ Zero(t)
    BY <2>5, FailKeeps, ClearKeeps, EmptyKeeps, ZeroKeeps
  <2> QED
    BY <1>2, <2>1, <2>2, <2>3, <2>4, <2>5 DEF Step
<1> QED
  BY <1>1, <1>2 DEF Next

\* The state of a session is of its type, in every step of every thread.
THEOREM TypeCorrect == Spec => []TypeOK
<1>1. Ind => TypeOK
  BY DEF Ind
<1> QED
  BY IndInit, IndKept, <1>1, PTL DEF Spec

\* A session at rest holds at most max_messages messages, for any number of threads, however their
\* appends, evictions and clears are interleaved.
THEOREM LimitKept == Spec => []WithinLimit
<1>1. Ind => WithinLimit
  <2> SUFFICES ASSUME Ind, AtRest PROVE Len(lists[current]) <= Limit
    BY DEF WithinLimit
  <2>1. \A t \in Threads : ~Shortens(t)
    BY DEF AtRest, Shortens
  <2>2. ~(Len(lists[current]) > Limit)
    BY <2>1 DEF Ind, Attended
  <2>3. lists[current] \in Seq(Message)
    BY DEF Ind, TypeOK
  <2> QED
    BY <2>2, <2>3, NumbersAssumption
<1> QED
  BY IndInit, IndKept, <1>1, PTL DEF Spec

-----------------------------------------------------------------------------
\* Every non-empty set of positions that has a bound has a last one.
LEMMA Last ==
  ASSUME NEW bound \in Nat, NEW S \in SUBSET (1 .. bound), S # {}
  PROVE  \E x \in S : \A y \in S : y <= x
<1> DEFINE T == {bound - x : x \in S}
<1>1. T \in SUBSET Nat /\ T # {}
  <2>1. \A x \in S : x \in Nat /\ x <= bound
    OBVIOUS
  <2>2. \A x \in S : bound - x \in Nat
    BY <2>1
  <2> QED
    BY <2>2
<1>2. PICK y \in T : \A z \in T : y <= z
  <2> HIDE DEF T
  <2> QED
    BY <1>1, First
<1>3. PICK x \in S : y = bound - x
  OBVIOUS
<1>4. ASSUME NEW z \in S PROVE z <= x
  <2>1. bound - x <= bound - z
    BY <1>2, <1>3
  <2>2. x \in Int /\ z \in Int
    OBVIOUS
  <2> QED
    BY <2>1, <2>2
<1> QED
  BY <1>4

\* A position that is not among the youngest comes before them.
LEMMA YoungestComeLast ==
  ASSUME NEW P \in SUBSET Nat, IsFiniteSet(P), NEW many \in Int,
         NEW i \in P \ Youngest(P, many), NEW j \in Youngest(P, many)
  PROVE  i < j
<1> DEFINE laterI == {m \in P : m > i}
           laterJ == {m \in P : m > j}
<1>1. i \in Nat /\ j \in Nat /\ j \in P /\ i # j
  BY DEF Youngest
<1>2. ~(Cardinality(laterI) < many) /\ Cardinality(laterJ) < many
  BY DEF Youngest
<1>3. SUFFICES ASSUME j < i PROVE FALSE
  BY <1>1
<1>4. laterI \in SUBSET laterJ
  <2>1. \A m \in P : m > i => m > j
    BY <1>1, <1>3
  <2> QED
    BY <2>1
<1>5. IsFiniteSet(laterJ) /\ IsFiniteSet(laterI)
  <2>1. laterJ \in SUBSET P /\ laterI \in SUBSET P
    OBVIOUS
  <2> QED
    BY <2>1, FS_Subset
<1>6. /\ Cardinality(laterI) <= Cardinality(laterJ)
      /\ Cardinality(laterI) \in Nat /\ Cardinality(laterJ) \in Nat
  BY <1>4, <1>5, FS_Subset, FS_CardinalityType
<1> HIDE DEF laterI, laterJ
<1> QED
  BY <1>2, <1>6

\* If there are no more positions than asked for, the youngest are all of them; otherwise they are
\* as many as asked for: with fewer, the last position outside would be among them.
LEMMA YoungestAreAsMany ==
  ASSUME NEW bound \in Nat, NEW P \in SUBSET (1 .. bound), NEW many \in Int
  PROVE  /\ IsFiniteSet(P) /\ Cardinality(P) \in Nat
         /\ many <= 0 => Youngest(P, many) = {}
         /\ Cardinality(P) <= many => Youngest(P, many) = P
         /\ many >= 0 /\ many <= Cardinality(P) => Cardinality(Youngest(P, many)) = many
<1> DEFINE Y == Youngest(P, many)
           later(n) == {m \in P : m > n}
<1>1. IsFiniteSet(P) /\ Cardinality(P) \in Nat
  <2>1. 1 \in Int /\ bound \in Int
    OBVIOUS
  <2>2. IsFiniteSet(1 .. bound)
    BY <2>1, FS_Interval
  <2> QED
    BY <2>2, FS_Subset, FS_CardinalityType
<1>2. P \in SUBSET Nat /\ Y \in SUBSET P
  BY DEF Youngest
<1>3. /\ IsFiniteSet(Y) /\ Cardinality(Y) \in Nat
      /\ Cardinality(Y) <= IF many > 0 THEN many ELSE 0
  BY <1>1, <1>2, YoungestAreFew
<1>4. ASSUME NEW n \in P
      PROVE  /\ IsFiniteSet(later(n)) /\ Cardinality(later(n)) \in Nat
             /\ Cardinality(later(n)) <= Cardinality(P) - 1
             /\ n \in Y <=> Cardinality(later(n)) < many
  <2>1. later(n) \in SUBSET (P \ {n})
    BY <1>2
  <2>2. IsFiniteSet(P \ {n}) /\ Cardinality(P \ {n}) = Cardinality(P) - 1
    BY <1>1, FS_RemoveElement
  <2>3. n \in Y <=> Cardinality(later(n)) < many
    BY DEF Youngest
  <2> HIDE DEF later, Y
  <2> QED
    BY <2>1, <2>2, <2>3, FS_Subset, FS_CardinalityType
<1> HIDE DEF later
<1>5. many <= 0 => Y = {}
  <2> SUFFICES ASSUME many <= 0 PROVE \A n \in P : n \notin Y
    BY <1>2
  <2> HIDE DEF Y
  <2> QED
    BY <1>4
<1>6. Cardinality(P) <= many => Y = P
  <2> SUFFICES ASSUME Cardinality(P) <= many PROVE \A n \in P : n \in Y
    BY <1>2
  <2> HIDE DEF Y
  <2> QED
    BY <1>1, <1>4
<1>7. ASSUME many >= 0, many <= Cardinality(P) PROVE Cardinality(Y) = many
  <2>1. CASE P \ Y = {}
    <3>1. Y = P
      BY <1>2, <2>1
    <3> HIDE DEF Y
    <3>2. Cardinality(P) <= many
      BY <1>3, <1>7, <3>1
    <3> QED
      BY <1>1, <1>7, <3>1, <3>2
  <2>2. CASE P \ Y # {}
    <3>1. PICK n \in P \ Y : \A m \in P \ Y : m <= n
      <4>1. P \ Y \in SUBSET (1 .. bound)
        OBVIOUS
      <4> HIDE DEF Y
      <4> QED
        BY <2>2, <4>1, Last
    <3>2. later(n) \in SUBSET Y
      <4>1. ASSUME NEW m \in later(n) PROVE m \in Y
        <5>1. m \in P /\ m > n /\ n \in Nat /\ m \in Nat
          BY <1>2 DEF later
        <5> QED
          BY <3>1, <5>1
      <4> QED
        BY <4>1
    <3> HIDE DEF Y
    <3>3. Cardinality(later(n)) <= Cardinality(Y)
      BY <1>3, <3>2, FS_Subset
    <3>4. ~(Cardinality(later(n)) < many) /\ Cardinality(later(n)) \in Nat
      BY <1>4, <3>1
    <3> QED
      BY <1>3, <1>7, <3>3, <3>4
  <2> QED
    BY <2>1, <2>2
<1> QED
  BY <1>1, <1>5, <1>6, <1>7

\* A sorting of a finite set lists it all.
LEMMA SortingListsAll ==
  ASSUME NEW M \in SUBSET Message, IsFiniteSet(M), NEW items \in Sortings(M)
  PROVE  /\ items \in Seq(Message) /\ Len(items) = Cardinality(M) /\ MessagesOf(items) = M
         /\ \A m, n \in DOMAIN items : m < n => Precedes(items[m], items[n])
<1> DEFINE size == Cardinality(M)
<1>1. size \in Nat
  BY FS_CardinalityType
<1>2. /\ items \in [1 .. size -> M]
      /\ \A m, n \in DOMAIN items : m < n => Precedes(items[m], items[n])
  BY DEF Sortings
<1>3. items \in Seq(Message) /\ Len(items) = size
  <2> HIDE DEF size
  <2> QED
    BY <1>1, <1>2
<1>4. items \in Injection(1 .. size, M)
  <2> SUFFICES ASSUME NEW m \in 1 .. size, NEW n \in 1 .. size, items[m] = items[n], m < n
               PROVE FALSE
    <3>1. ASSUME NEW m \in 1 .. size, NEW n \in 1 .. size, items[m] = items[n] PROVE m = n
      <4>1. m \in Nat /\ n \in Nat
        OBVIOUS
      <4> HIDE DEF size
      <4> QED
        BY <3>1, <4>1
    <3> HIDE DEF size
    <3> QED
      BY <1>2, <3>1 DEF Injection, IsInjective
  <2> HIDE DEF size
  <2>1. Precedes(items[m], items[n]) /\ items[m] \in Message
    BY <1>2
  <2>2. items[m].time \in Nat /\ items[m].id \in Nat
    BY <2>1, NumbersAssumption DEF Message
  <2> QED
    BY <2>1, <2>2 DEF Precedes
<1>5. IsFiniteSet(1 .. size) /\ Cardinality(1 .. size) = size
  <2>1. 1 \in Int /\ size \in Int
    BY <1>1
  <2> HIDE DEF size
  <2>2. IsFiniteSet(1 .. size) /\ Cardinality(1 .. size) = IF 1 > size THEN 0 ELSE size - 1 + 1
    BY <2>1, FS_Interval
  <2> QED
    BY <1>1, <2>2
<1>6. items \in Surjection(1 .. size, M)
  <2>1. Cardinality(1 .. size) = Cardinality(M)
    BY <1>5
  <2> HIDE DEF size
  <2> QED
    BY <1>4, <2>1, FS_Injection
<1>7. MessagesOf(items) = M
  <2> HIDE DEF size
  <2> QED
    BY <1>2, <1>6 DEF Surjection, MessagesOf
<1> QED
  BY <1>2, <1>3, <1>7

\* What eviction leaves of a list that is too long: as many messages as the limit allows, with
\* system messages before others and, among either, the later ones.
KeptOf(items) == Kept(CopyOf(items, {"system"}), CopyOf(items, {"user", "assistant"}))

Comes(items, i, k) ==
  \E j \in DOMAIN items :
    /\ items[j] = k
    /\ items[i].role = "system" => k.role = "system"
    /\ (items[i].role = "system" <=> k.role = "system") => i < j

LEMMA KeptInFull ==
  ASSUME NEW items \in Seq(Message), Len(items) > Limit,
         \A m, n \in DOMAIN items : items[m].id = items[n].id => m = n
  PROVE  /\ KeptOf(items) \subseteq MessagesOf(items)
         /\ IsFiniteSet(KeptOf(items)) /\ Cardinality(KeptOf(items)) = Limit
         /\ \A i \in DOMAIN items, k \in KeptOf(items) :
              items[i] \notin KeptOf(items) => Comes(items, i, k)
         /\ (\A n \in 1 .. Limit : items[n].role = "system") =>
              \A k \in KeptOf(items) : k.role = "system"
<1> DEFINE len == Len(items)
           P == {k \in DOMAIN items : items[k].role \in {"system"}}
           Q == {k \in DOMAIN items : items[k].role \in {"user", "assistant"}}
           p == Cardinality(P)
           A == Youngest(P, Limit)
           B == Youngest(Q, Limit - p)
           K == {items[n] : n \in A \cup B}
<1>1. /\ DOMAIN items = 1 .. len /\ len \in Nat /\ Limit \in Nat /\ Limit > 0 /\ len > Limit
      /\ \A n \in 1 .. len : items[n] \in Message
  BY NumbersAssumption
<1>2. P \in SUBSET (1 .. len) /\ Q \in SUBSET (1 .. len)
  BY <1>1
<1>3. P \cap Q = {} /\ P \cup Q = 1 .. len
  BY <1>1 DEF Message
<1>4. KeptOf(items) = K
  <2>1. /\ DOMAIN CopyOf(items, {"system"}) = P
        /\ \A n \in P : CopyOf(items, {"system"})[n] = items[n]
    BY DEF CopyOf
  <2>2. /\ DOMAIN CopyOf(items, {"user", "assistant"}) = Q
        /\ \A n \in Q : CopyOf(items, {"user", "assistant"})[n] = items[n]
    BY DEF CopyOf
  <2>3. A \subseteq P /\ B \subseteq Q
    BY DEF Youngest
  <2>4. KeptOf(items) = {CopyOf(items, {"system"})[n] : n \in A}
                          \cup {CopyOf(items, {"user", "assistant"})[n] : n \in B}
    BY <2>1, <2>2 DEF KeptOf, Kept
  <2> HIDE DEF A, B, P, Q
  <2> QED
    BY <2>1, <2>2, <2>3, <2>4
<1>5. /\ IsFiniteSet(P) /\ p \in Nat
      /\ p <= Limit => A = P
      /\ p >= Limit => Cardinality(A) = Limit
  <2>1. Limit \in Int
    BY <1>1
  <2> HIDE DEF P, len
  <2>2. /\ IsFiniteSet(P) /\ p \in Nat
        /\ p <= Limit => A = P
        /\ Limit >= 0 /\ Limit <= p => Cardinality(A) = Limit
    BY <1>1, <1>2, <2>1, YoungestAreAsMany
  <2> HIDE DEF A, p
  <2> QED
    BY <1>1, <2>2
<1>6. /\ IsFiniteSet(Q) /\ Cardinality(Q) \in Nat
      /\ Limit - p <= 0 => B = {}
      /\ Limit - p >= 0 /\ Limit - p <= Cardinality(Q) => Cardinality(B) = Limit - p
  <2>1. Limit - p \in Int
    BY <1>1, <1>5
  <2> HIDE DEF Q, p
  <2> QED
    BY <1>1, <1>2, <2>1, YoungestAreAsMany
<1>7. p + Cardinality(Q) = len
  <2>1. Cardinality(1 .. len) = len
    <3>1. 1 \in Int /\ len \in Int
      BY <1>1
    <3> HIDE DEF len
    <3> QED
      BY <1>1, <3>1, FS_Interval
  <2>2. Cardinality(P \cup Q) = p + Cardinality(Q) - Cardinality(P \cap Q)
    <3> HIDE DEF P, Q
    <3> QED
      BY <1>5, <1>6, FS_Union DEF p
  <2>3. Cardinality(P \cap Q) = 0
    BY <1>3, FS_EmptySet
  <2>4. Cardinality(P \cup Q) = len
    BY <1>3, <2>1
  <2> HIDE DEF P, Q, p, len
  <2> QED
    BY <1>1, <1>5, <1>6, <2>2, <2>3, <2>4
<1>8. A \subseteq P /\ B \subseteq Q /\ A \cap B = {}
  BY <1>3 DEF Youngest
<1>9. /\ IsFiniteSet(A) /\ IsFiniteSet(B)
  <2> HIDE DEF A, B, P, Q
  <2> QED
    BY <1>5, <1>6, <1>8, FS_Subset
<1>10. IsFiniteSet(A \cup B) /\ Cardinality(A \cup B) = Limit
  <2>1. /\ IsFiniteSet(A \cup B)
        /\ Cardinality(A \cup B) = Cardinality(A) + Cardinality(B) - Cardinality(A \cap B)
    <3> HIDE DEF A, B
    <3> QED
      BY <1>9, FS_Union
  <2>2. Cardinality(A \cap B) = 0
    BY <1>8, FS_EmptySet
  <2>3. CASE p >= Limit
    <3>1. Cardinality(A) = Limit /\ B = {}
      <4> HIDE DEF A, B, p
      <4> QED
        BY <1>1, <1>5, <1>6, <2>3
    <3>2. Cardinality(B) = 0
      BY <3>1, FS_EmptySet
    <3> HIDE DEF A, B
    <3> QED
      BY <1>1, <2>1, <2>2, <3>1, <3>2
  <2>4. CASE p < Limit
    <3>1. A = P
      <4> HIDE DEF A, P, p
      <4> QED
        BY <1>1, <1>5, <2>4
    <3>2. Cardinality(A) = p
      BY <3>1
    <3>3. Cardinality(B) = Limit - p
      <4>1. Limit - p >= 0 /\ Limit - p <= Cardinality(Q)
        <5> HIDE DEF Q, p, len
        <5> QED
          BY <1>1, <1>5, <1>6, <1>7, <2>4
      <4> HIDE DEF B, Q, p
      <4> QED
        BY <1>6, <4>1
    <3> HIDE DEF A, B, p
    <3> QED
      BY <1>1, <1>5, <2>1, <2>2, <3>2, <3>3
  <2> HIDE DEF A, B, p
  <2> QED
    BY <1>1, <1>5, <2>3, <2>4
<1>11. IsFiniteSet(K) /\ Cardinality(K) = Limit
  <2> DEFINE f == [n \in A \cup B |-> items[n]]
  <2>1. f \in Surjection(A \cup B, K)
    BY DEF Surjection
  <2>2. f \in Injection(A \cup B, K)
    <3>1. f \in [A \cup B -> K]
      OBVIOUS
    <3>2. A \cup B \subseteq DOMAIN items
      <4> HIDE DEF A, B
      <4> QED
        BY <1>1, <1>2, <1>8
    <3>3. \A m, n \in A \cup B : f[m] = f[n] => m = n
      <4> HIDE DEF A, B
      <4> QED
        BY <3>2
    <3> HIDE DEF f, A, B, K
    <3> QED
      BY <3>1, <3>3 DEF Injection, IsInjective
  <2> HIDE DEF f, A, B, K
  <2> QED
    BY <1>10, <2>1, <2>2, FS_Surjection
<1>12. K \subseteq MessagesOf(items)
  <2> HIDE DEF A, B
  <2> QED
    BY <1>1, <1>2, <1>8 DEF MessagesOf
<1>13. \A i \in A : items[i].role = "system"
  BY <1>8
<1>14. \A i \in B : items[i].role # "system"
  BY <1>8
<1>15. ASSUME NEW i \in DOMAIN items, items[i] \notin K, NEW k \in K PROVE Comes(items, i, k)
  <2>1. PICK j \in A \cup B : k = items[j]
    OBVIOUS
  <2>2. i \notin A /\ i \notin B
    BY <1>15
  <2>3. j \in DOMAIN items
    <3> HIDE DEF A, B
    <3> QED
      BY <1>1, <1>2, <1>8, <2>1
  <2>4. (items[i].role = "system" <=> k.role = "system") => i < j
    <3>1. CASE i \in P /\ j \in A
      <4>1. P \in SUBSET Nat /\ Limit \in Int
        BY <1>1, <1>2
      <4> HIDE DEF P
      <4> QED
        BY <1>5, <2>2, <3>1, <4>1, YoungestComeLast
    <3>2. CASE i \in Q /\ j \in B
      <4>1. Q \in SUBSET Nat /\ Limit - p \in Int
        BY <1>1, <1>2, <1>5
      <4> HIDE DEF Q, p
      <4> QED
        BY <1>6, <2>2, <3>2, <4>1, YoungestComeLast
    <3>3. CASE i \in P /\ j \in B
      BY <1>14, <2>1, <3>3
    <3>4. CASE i \in Q /\ j \in A
      BY <1>13, <2>1, <3>4
    <3>5. i \in P \cup Q
      BY <1>1, <1>3
    <3> QED
      BY <2>1, <3>1, <3>2, <3>3, <3>4, <3>5
  <2>5. items[i].role = "system" => k.role = "system"
    <3> SUFFICES ASSUME items[i].role = "system" PROVE j \in A
      BY <1>13, <2>1
    <3>1. i \in P \ A
      BY <2>2
    <3>2. ~(p <= Limit)
      <4> HIDE DEF A, P, p
      <4> QED
        BY <1>5, <3>1
    <3>3. B = {}
      <4> HIDE DEF B, p
      <4> QED
        BY <1>1, <1>5, <1>6, <3>2
    <3> HIDE DEF A, B
    <3> QED
      BY <2>1, <3>3
  <2> HIDE DEF A, B
  <2> QED
    BY <2>1, <2>3, <2>4, <2>5 DEF Comes
<1>16. ASSUME \A n \in 1 .. Limit : items[n].role = "system" PROVE \A k \in K : k.role = "system"
  <2>1. 1 .. Limit \in SUBSET P
    <3>1. \A n \in 1 .. Limit : n \in 1 .. len
      BY <1>1
    <3> QED
      BY <1>1, <1>16, <3>1
  <2>2. Cardinality(1 .. Limit) = Limit
    <3>1. 1 \in Int /\ Limit \in Int /\ Limit \in Nat
      BY <1>1
    <3> QED
      BY <3>1, FS_Interval
  <2>3. Limit <= p
    <3> HIDE DEF P
    <3>1. Cardinality(1 .. Limit) <= Cardinality(P)
      BY <1>5, <2>1, FS_Subset
    <3> QED
      BY <2>2, <3>1
  <2>4. B = {}
    <3> HIDE DEF B, p
    <3> QED
      BY <1>1, <1>5, <1>6, <2>3
  <2> HIDE DEF A, B
  <2> QED
    BY <1>13, <2>4
<1> HIDE DEF K
<1> QED
  BY <1>4, <1>11, <1>12, <1>15, <1>16

-----------------------------------------------------------------------------
\* What is true of a session while calls do not overlap.  The order of eviction is a fact about the
\* list, the thread that changes it and all that the session has seen since the last clear.
Items == lists[current]

Trimming == {"reread", "trim", "rest", "store"}

Distinct == \A m, n \in DOMAIN Items : Items[m].id = Items[n].id => m = n

InTime == Ascending => \A m, n \in DOMAIN Items : m < n => Items[m].time <= Items[n].time

OldGoFirst ==
  Ascending =>
    \A e \in Gone, k \in Listed : (e.role = "system" <=> k.role = "system") => e.time <= k.time

Content == Listed \subseteq MessagesOf(since) /\ Distinct /\ InTime /\ OldGoFirst

SystemStays(K) == \A e \in Gone, k \in K : e.role = "system" => k.role = "system"

Settled == Len(Items) <= Limit /\ (Gone # {} => Len(Items) = Limit) /\ SystemStays(Listed)

\* The thread has appended its message, and nothing has been evicted for it.
Untrimmed(thread) ==
  /\ Items # <<>> /\ Items[Len(Items)] = thread.message
  /\ Len(Items) <= Limit + 1 /\ (Gone # {} => Len(Items) = Limit + 1)
  /\ SystemStays({Items[n] : n \in 1 .. Len(Items) - 1})

Phase(thread) ==
  /\ thread.step \in {"append", "trim", "rest"} => thread.list = current
  /\ thread.step \in Trimming => Untrimmed(thread)
  /\ thread.step \in {"rest", "store"} =>
       Len(Items) > Limit /\ thread.system = CopyOf(Items, {"system"})
  /\ thread.step = "store" => thread.rest = CopyOf(Items, {"user", "assistant"})
  /\ thread.step = "count" => thread.length = Len(Items)
  /\ thread.step = "zero" => Items = <<>>
  /\ thread.step \notin Trimming => Settled
  /\ thread.step \notin Trimming \cup {"tally", "count", "zero"} => count = Len(Items)
  /\ thread.step \in {"fetch", "append"} =>
       thread.message.id \notin unused /\ \A k \in Listed : k.id # thread.message.id

Used == \A k \in Listed : k.id \notin unused

\* Some thread does what is done, and the others are idle.
Orderly ==
  ~overlapped =>
    /\ Content /\ Used
    /\ \A t, o \in Threads : t # o /\ threads[t].step # "idle" => threads[o].step = "idle"
    /\ \A t \in Threads :
         (\A o \in Threads \ {t} : threads[o].step = "idle") => Phase(threads[t])
    /\ AtRest => Settled /\ count = Len(Items)

-----------------------------------------------------------------------------
LEMMA ItemsTyped ==
  ASSUME Ind
  PROVE  /\ Items \in Seq(Message) /\ DOMAIN Items = 1 .. Len(Items) /\ Len(Items) \in Nat
         /\ since \in Seq(Message) /\ DOMAIN since = 1 .. Len(since) /\ Len(since) \in Nat
         /\ Limit \in Nat /\ Limit > 0
         /\ Listed \subseteq Message /\ MessagesOf(since) \subseteq Message
         /\ \A m \in Message : m.time \in Nat
<1>1. Items \in Seq(Message) /\ since \in Seq(Message)
  BY DEF Ind, TypeOK, Items
<1>2. Listed \subseteq Message /\ MessagesOf(since) \subseteq Message
  BY <1>1 DEF Listed, MessagesOf, Items
<1>3. \A m \in Message : m.time \in Nat
  BY NumbersAssumption DEF Message
<1> QED
  BY <1>1, <1>2, <1>3, NumbersAssumption

LEMMA OrderlyInit == Init => Orderly
<1> SUFFICES ASSUME Init PROVE Orderly
  OBVIOUS
<1>1. Items = <<>> /\ since = <<>> /\ count = 0 /\ Limit \in Nat
  BY NumbersAssumption DEF Init, Items
<1>2. Listed = {} /\ Gone = {} /\ Len(Items) = 0 /\ DOMAIN Items = {}
  BY <1>1 DEF Listed, Gone, MessagesOf, Items
<1>3. Content
  BY <1>2 DEF Content, Distinct, InTime, OldGoFirst
<1>4. Settled
  BY <1>1, <1>2 DEF Settled, SystemStays
<1>5. Used
  BY <1>2 DEF Used
<1>6. \A t \in Threads : threads[t].step = "idle"
  BY DEF Init, Idle
<1>7. ASSUME NEW t \in Threads PROVE Phase(threads[t])
  BY <1>1, <1>2, <1>4, <1>6 DEF Phase, Trimming
<1> QED
  BY <1>1, <1>2, <1>3, <1>4, <1>5, <1>6, <1>7 DEF Orderly

\* The busy thread has the session to itself.
LEMMA Alone ==
  ASSUME Orderly, ~overlapped, NEW t \in Threads, threads[t].step # "idle"
  PROVE  /\ \A u \in Threads \ {t} : threads[u].step = "idle"
         /\ Content /\ Used /\ Phase(threads[t])
<1>1. \A u \in Threads \ {t} : threads[u].step = "idle"
  BY DEF Orderly
<1> QED
  BY <1>1 DEF Orderly

\* A thread that steps while the others are idle leaves them to be, and is the one to answer for the rest.
LEMMA OneSteps ==
  ASSUME Ind, NEW t \in Threads, NEW thread, Becomes(t, thread),
         \A u \in Threads \ {t} : threads[u].step = "idle",
         Content', Used', Phase(thread)'
  PROVE  Orderly'
<1>1. threads'[t] = thread /\ \A u \in Threads \ {t} : threads'[u] = threads[u]
  BY DEF Becomes, Ind, TypeOK
<1>2. ASSUME NEW u \in Threads, NEW o \in Threads, u # o, threads'[u].step # "idle"
      PROVE  threads'[o].step = "idle"
  BY <1>1, <1>2
<1>3. ASSUME NEW u \in Threads, \A o \in Threads \ {u} : threads'[o].step = "idle"
      PROVE  Phase(threads[u])'
  <2>1. CASE u = t
    BY <1>1, <2>1
  <2>2. CASE u # t
    <3>1. threads'[u].step = "idle" /\ thread.step = "idle"
      BY <1>1, <1>3, <2>2
    <3>2. Settled' /\ count' = Len(Items)'
      BY <3>1 DEF Phase, Trimming
    <3> QED
      BY <3>1, <3>2 DEF Phase, Trimming
  <2> QED
    BY <2>1, <2>2
<1>4. ASSUME AtRest' PROVE Settled' /\ count' = Len(Items)'
  <2>1. thread.step = "idle"
    BY <1>1, <1>4 DEF AtRest
  <2> QED
    BY <2>1 DEF Phase, Trimming
<1> QED
  BY <1>2, <1>3, <1>4 DEF Orderly

\* The same for a step that leaves the list and what the session has seen.
LEMMA QuietStep ==
  ASSUME Ind, NEW t \in Threads, NEW thread, Becomes(t, thread),
         \A u \in Threads \ {t} : threads[u].step = "idle",
         lists' = lists, current' = current, since' = since, unused' \subseteq unused,
         Content, Used,
         /\ thread.step \in {"append", "trim", "rest"} => thread.list = current
         /\ thread.step \in Trimming => Untrimmed(thread)
         /\ thread.step \in {"rest", "store"} =>
              Len(Items) > Limit /\ thread.system = CopyOf(Items, {"system"})
         /\ thread.step = "store" => thread.rest = CopyOf(Items, {"user", "assistant"})
         /\ thread.step = "count" => thread.length = Len(Items)
         /\ thread.step = "zero" => Items = <<>>
         /\ thread.step \notin Trimming => Settled
         /\ thread.step \notin Trimming \cup {"tally", "count", "zero"} => count' = Len(Items)
         /\ thread.step \in {"fetch", "append"} =>
              thread.message.id \notin unused' /\ \A k \in Listed : k.id # thread.message.id
  PROVE  Orderly'
<1>1. Items' = Items /\ Listed' = Listed /\ Gone' = Gone /\ (Ascending' <=> Ascending)
  BY DEF Items, Listed, Gone, Ascending
<1>2. Content'
  BY <1>1 DEF Content, Distinct, InTime, OldGoFirst
<1>3. Used'
  BY <1>1 DEF Used
<1>4. Settled => Settled'
  BY <1>1 DEF Settled, SystemStays
<1>5. Untrimmed(thread) => Untrimmed(thread)'
  BY <1>1 DEF Untrimmed, SystemStays
<1>6. Phase(thread)'
  BY <1>1, <1>4, <1>5 DEF Phase
<1> QED
  BY <1>2, <1>3, <1>6, OneSteps

\* The steps of a thread that leave the list alone.
LEMMA DrawnAlone ==
  ASSUME Ind, NEW t \in Threads, NEW id, NEW role, NEW time,
         Draws(t, id, role, time),
         \A u \in Threads \ {t} : threads[u].step = "idle",
         lists' = lists, current' = current, since' = since, count' = count,
         Content, Used, Settled, count = Len(Items)
  PROVE  Orderly'
<1> DEFINE message == [id |-> id, role |-> role, time |-> time]
           thread == [Idle EXCEPT !.step = "fetch", !.message = message]
<1>1. id \in unused /\ unused' = unused \ {id} /\ Becomes(t, thread)
  BY DEF Draws
<1>2. thread.step = "fetch" /\ thread.message.id = id
  BY DEF Idle
<1>3. \A k \in Listed : k.id # id
  BY <1>1 DEF Used
<1> HIDE DEF thread
<1> QED
  BY <1>1, <1>2, <1>3, QuietStep DEF Trimming

LEMMA BeginsAlone ==
  ASSUME Orderly, ~overlapped', NEW t \in Threads, Begins(t)
  PROVE  /\ \A u \in Threads \ {t} : threads[u].step = "idle"
         /\ lists' = lists /\ current' = current /\ since' = since /\ count' = count
         /\ Content /\ Used /\ Settled /\ count = Len(Items)
<1>1. threads[t].step = "idle" /\ ~overlapped
  BY DEF Begins
<1>2. \A u \in Threads \ {t} : threads[u].step = "idle"
  BY DEF Begins, Overlaps
<1>3. Phase(threads[t]) /\ Content /\ Used
  BY <1>1, <1>2 DEF Orderly
<1>4. Settled /\ count = Len(Items)
  BY <1>1, <1>3 DEF Phase, Trimming
<1> QED
  BY <1>1, <1>2, <1>3, <1>4 DEF Begins

LEMMA BeginOrderly ==
  ASSUME Ind, Orderly, ~overlapped', NEW t \in Threads,
         \/ \E id \in Ids, time \in Times : Handle(t, id, time) \/ AddSystem(t, id, time)
         \/ Clear(t)
  PROVE  Orderly'
<1>1. CASE \E id \in Ids, time \in Times : Handle(t, id, time) \/ AddSystem(t, id, time)
  <2>1. PICK id \in Ids, time \in Times, role \in {"user", "system"} :
          Begins(t) /\ Draws(t, id, role, time)
    BY <1>1 DEF Handle, AddSystem
  <2> QED
    BY <2>1, BeginsAlone, DrawnAlone
<1>2. CASE Clear(t)
  <2> DEFINE thread == [threads[t] EXCEPT !.step = "empty"]
  <2>1. Begins(t) /\ Becomes(t, thread) /\ unused' = unused
    BY <1>2 DEF Clear, Goes
  <2>2. threads[t] \in Thread
    BY DEF Ind, TypeOK
  <2>3. thread.step = "empty"
    BY <2>2 DEF Thread
  <2> HIDE DEF thread
  <2> QED
    BY <2>1, <2>3, BeginsAlone, QuietStep DEF Trimming
<1> QED
  BY <1>1, <1>2

LEMMA LocalOrderly ==
  ASSUME Ind, Orderly, ~overlapped', NEW t \in Threads,
         Fetch(t) \/ Reread(t) \/ Fits(t) \/ CopySystem(t) \/ CopyRest(t) \/ Tally(t)
  PROVE  Orderly'
<1>1. /\ lists' = lists /\ current' = current /\ since' = since /\ count' = count
      /\ unused' = unused /\ ~overlapped /\ threads[t].step # "idle"
  BY DEF Fetch, Reread, Fits, CopySystem, CopyRest, Tally
<1>2. /\ \A u \in Threads \ {t} : threads[u].step = "idle"
      /\ Content /\ Used /\ Phase(threads[t])
  BY <1>1, Alone
<1>3. threads[t] \in Thread
  BY DEF Ind, TypeOK
<1>4. CASE Fetch(t)
  <2> DEFINE thread == [threads[t] EXCEPT !.step = "append", !.list = current]
  <2>1. threads[t].step = "fetch" /\ Becomes(t, thread)
    BY <1>4 DEF Fetch
  <2>2. thread.step = "append" /\ thread.list = current /\ thread.message = threads[t].message
    BY <1>3 DEF Thread
  <2>3. /\ Settled /\ count = Len(Items)
        /\ thread.message.id \notin unused /\ \A k \in Listed : k.id # thread.message.id
    BY <1>2, <2>1, <2>2 DEF Phase, Trimming
  <2> HIDE DEF thread
  <2> QED
    BY <1>1, <1>2, <2>1, <2>2, <2>3, QuietStep DEF Trimming
<1>5. CASE Reread(t)
  <2> DEFINE thread == [threads[t] EXCEPT !.step = "trim", !.list = current]
  <2>1. threads[t].step = "reread" /\ Becomes(t, thread)
    BY <1>5 DEF Reread
  <2>2. thread.step = "trim" /\ thread.list = current /\ thread.message = threads[t].message
    BY <1>3 DEF Thread
  <2>3. Untrimmed(thread)
    BY <1>2, <2>1, <2>2 DEF Phase, Trimming, Untrimmed
  <2> HIDE DEF thread
  <2> QED
    BY <1>1, <1>2, <2>1, <2>2, <2>3, QuietStep DEF Trimming
<1>6. CASE Fits(t)
  <2> DEFINE thread == [threads[t] EXCEPT !.step = "tally", !.list = None]
  <2>1. threads[t].step = "trim" /\ Becomes(t, thread) /\ Len(lists[threads[t].list]) <= Limit
    BY <1>6 DEF Fits
  <2>2. thread.step = "tally"
    BY <1>3 DEF Thread
  <2>3. Untrimmed(threads[t]) /\ Len(Items) <= Limit
    BY <1>2, <2>1 DEF Phase, Trimming, Items
  <2>4. Gone = {}
    BY <2>3, ItemsTyped DEF Untrimmed
  <2>5. Settled
    BY <2>3, <2>4 DEF Settled, SystemStays
  <2> HIDE DEF thread
  <2> QED
    BY <1>1, <1>2, <2>1, <2>2, <2>5, QuietStep DEF Trimming
<1>7. CASE CopySystem(t)
  <2> DEFINE thread == [threads[t] EXCEPT
               !.step = "rest", !.system = CopyOf(lists[threads[t].list], {"system"})]
  <2>1. threads[t].step = "trim" /\ Becomes(t, thread) /\ Len(lists[threads[t].list]) > Limit
    BY <1>7 DEF CopySystem
  <2>2. threads[t].list = current
    BY <1>2, <2>1 DEF Phase
  <2>3. /\ thread.step = "rest" /\ thread.list = current /\ thread.message = threads[t].message
        /\ thread.system = CopyOf(Items, {"system"}) /\ Len(Items) > Limit
    BY <1>3, <2>1, <2>2 DEF Thread, Items
  <2>4. Untrimmed(thread)
    BY <1>2, <2>1, <2>3 DEF Phase, Trimming, Untrimmed
  <2> HIDE DEF thread
  <2> QED
    BY <1>1, <1>2, <2>1, <2>3, <2>4, QuietStep DEF Trimming
<1>8. CASE CopyRest(t)
  <2> DEFINE thread == [threads[t] EXCEPT
               !.step = "store", !.list = None,
               !.rest = CopyOf(lists[threads[t].list], {"user", "assistant"})]
  <2>1. threads[t].step = "rest" /\ Becomes(t, thread)
    BY <1>8 DEF CopyRest
  <2>2. /\ threads[t].list = current /\ Len(Items) > Limit
        /\ threads[t].system = CopyOf(Items, {"system"})
    BY <1>2, <2>1 DEF Phase
  <2>3. /\ thread.step = "store" /\ thread.message = threads[t].message
        /\ thread.system = threads[t].system
        /\ thread.rest = CopyOf(Items, {"user", "assistant"})
    BY <1>3, <2>1, <2>2 DEF Thread, Items
  <2>4. Untrimmed(thread)
    BY <1>2, <2>1, <2>3 DEF Phase, Trimming, Untrimmed
  <2> HIDE DEF thread
  <2> QED
    BY <1>1, <1>2, <2>1, <2>2, <2>3, <2>4, QuietStep DEF Trimming
<1>9. CASE Tally(t)
  <2> DEFINE thread == [threads[t] EXCEPT !.step = "count", !.length = Len(lists[current])]
  <2>1. threads[t].step = "tally" /\ Becomes(t, thread)
    BY <1>9 DEF Tally
  <2>2. thread.step = "count" /\ thread.length = Len(Items)
    BY <1>3 DEF Thread, Items
  <2>3. Settled
    BY <1>2, <2>1 DEF Phase, Trimming
  <2> HIDE DEF thread
  <2> QED
    BY <1>1, <1>2, <2>1, <2>2, <2>3, QuietStep DEF Trimming
<1> QED
  BY <1>4, <1>5, <1>6, <1>7, <1>8, <1>9

\* The steps that end a call, or its first half.
LEMMA EndOrderly ==
  ASSUME Ind, Orderly, ~overlapped', NEW t \in Threads,
         Count(t) \/ Fail(t) \/ Zero(t) \/ \E id \in Ids : Respond(t, id)
  PROVE  Orderly'
<1>1. /\ lists' = lists /\ current' = current /\ since' = since
      /\ unused' \subseteq unused /\ ~overlapped /\ threads[t].step # "idle"
  <2>1. CASE Count(t) \/ Fail(t) \/ Zero(t)
    BY <2>1 DEF Count, Fail, Zero
  <2>2. ASSUME NEW id \in Ids, Respond(t, id)
        PROVE  /\ lists' = lists /\ current' = current /\ since' = since
               /\ unused' \subseteq unused /\ ~overlapped /\ threads[t].step # "idle"
    BY <2>2 DEF Respond, Draws
  <2> QED
    BY <2>1, <2>2
<1>2. /\ \A u \in Threads \ {t} : threads[u].step = "idle"
      /\ Content /\ Used /\ Phase(threads[t])
  BY <1>1, Alone
<1>3. threads[t] \in Thread
  BY DEF Ind, TypeOK
<1>4. Idle.step = "idle"
  BY DEF Idle
<1>5. CASE Count(t)
  <2> DEFINE thread == IF threads[t].message.role = "user"
                         THEN [threads[t] EXCEPT !.step = "respond", !.length = 0]
                         ELSE Idle
  <2>1. threads[t].step = "count" /\ Becomes(t, thread) /\ count' = threads[t].length
    BY <1>5 DEF Count
  <2>2. thread.step \in {"respond", "idle"}
    BY <1>3, <1>4 DEF Thread
  <2>3. Settled /\ count' = Len(Items)
    BY <1>2, <2>1 DEF Phase, Trimming
  <2> HIDE DEF thread
  <2> QED
    BY <1>1, <1>2, <2>1, <2>2, <2>3, QuietStep DEF Trimming
<1>6. CASE Fail(t)
  <2>1. threads[t].step = "respond" /\ Becomes(t, Idle) /\ count' = count
    BY <1>6 DEF Fail
  <2>2. Settled /\ count' = Len(Items)
    BY <1>2, <2>1 DEF Phase, Trimming
  <2> QED
    BY <1>1, <1>2, <1>4, <2>1, <2>2, QuietStep DEF Trimming
<1>7. CASE Zero(t)
  <2>1. threads[t].step = "zero" /\ Becomes(t, Idle) /\ count' = 0
    BY <1>7 DEF Zero
  <2>2. Settled /\ count' = Len(Items)
    BY <1>2, <2>1 DEF Phase, Trimming
  <2> QED
    BY <1>1, <1>2, <1>4, <2>1, <2>2, QuietStep DEF Trimming
<1>8. CASE \E id \in Ids : Respond(t, id)
  <2>1. PICK id \in Ids : Respond(t, id)
    BY <1>8
  <2>2. /\ threads[t].step = "respond" /\ count' = count
        /\ Draws(t, id, "assistant", threads[t].message.time)
    BY <2>1 DEF Respond
  <2>3. Settled /\ count = Len(Items)
    BY <1>2, <2>2 DEF Phase, Trimming
  <2> QED
    BY <1>1, <1>2, <2>2, <2>3, DrawnAlone
<1> QED
  BY <1>5, <1>6, <1>7, <1>8

\* An append adds to the list and to what the session has seen alike.
LEMMA AppendOrderly ==
  ASSUME Ind, Orderly, ~overlapped', NEW t \in Threads, AppendMessage(t)
  PROVE  Orderly'
<1> DEFINE message == threads[t].message
           len == Len(Items)
<1>0. PICK thread : thread = [threads[t] EXCEPT !.step = "reread", !.list = None]
  OBVIOUS
<1>1. /\ threads[t].step = "append" /\ ~overlapped /\ current' = current /\ unused' = unused
      /\ Becomes(t, thread)
  BY <1>0 DEF AppendMessage
<1>2. /\ \A u \in Threads \ {t} : threads[u].step = "idle"
      /\ Content /\ Used /\ Phase(threads[t])
  BY <1>1, Alone
<1>3. /\ threads[t].list = current /\ Settled
      /\ message.id \notin unused /\ \A k \in Listed : k.id # message.id
  BY <1>1, <1>2 DEF Phase, Trimming
<1>4. message \in Message /\ current \in Lists /\ lists \in [Lists -> Seq(Message)]
  BY <1>1 DEF Ind, Locals, Carrying, TypeOK
<1>5. thread.step = "reread" /\ thread.message = message
  BY <1>0 DEF Ind, TypeOK, Thread
<1>6. Items' = Append(Items, message)
  <2>1. lists' = [lists EXCEPT ![current] = Append(@, message)]
    BY <1>3 DEF AppendMessage
  <2> QED
    BY <1>1, <1>4, <2>1 DEF Items
<1>7. since' = Append(since, message)
  BY <1>1 DEF AppendMessage
<1> HIDE DEF message
<1>8. /\ Items \in Seq(Message) /\ DOMAIN Items = 1 .. len /\ len \in Nat
      /\ since \in Seq(Message) /\ DOMAIN since = 1 .. Len(since) /\ Len(since) \in Nat
      /\ Limit \in Nat /\ \A m \in Message : m.time \in Nat
  BY ItemsTyped
<1>9. /\ DOMAIN Items' = 1 .. len + 1 /\ Len(Items') = len + 1 /\ Items'[len + 1] = message
      /\ \A n \in 1 .. len : Items'[n] = Items[n]
  BY <1>4, <1>6, <1>8
<1>10. /\ DOMAIN since' = 1 .. Len(since) + 1 /\ since'[Len(since) + 1] = message
       /\ \A n \in 1 .. Len(since) : since'[n] = since[n]
  BY <1>4, <1>7, <1>8
<1>11. Listed' = Listed \cup {message}
  <2>1. Listed' = {Items'[n] : n \in DOMAIN Items'} /\ Listed = {Items[n] : n \in DOMAIN Items}
    BY DEF Listed, MessagesOf, Items
  <2>2. \A n \in 1 .. len + 1 : n \in 1 .. len \/ n = len + 1
    BY <1>8
  <2>3. \A n \in 1 .. len : n \in 1 .. len + 1
    BY <1>8
  <2>4. len + 1 \in 1 .. len + 1
    BY <1>8
  <2> HIDE DEF len
  <2> QED
    BY <1>8, <1>9, <2>1, <2>2, <2>3, <2>4
<1>12. MessagesOf(since') = MessagesOf(since) \cup {message}
  <2> DEFINE seen == Len(since)
  <2>1. \A n \in 1 .. seen + 1 : n \in 1 .. seen \/ n = seen + 1
    BY <1>8
  <2>2. \A n \in 1 .. seen : n \in 1 .. seen + 1
    BY <1>8
  <2>3. seen + 1 \in 1 .. seen + 1
    BY <1>8
  <2> HIDE DEF seen
  <2> QED
    BY <1>8, <1>10, <2>1, <2>2, <2>3 DEF MessagesOf, seen
<1>13. Gone' \subseteq Gone
  BY <1>11, <1>12 DEF Gone
<1>14. ASSUME Ascending' PROVE Ascending /\ \A k \in MessagesOf(since) : k.time <= message.time
  <2>1. ASSUME NEW m \in DOMAIN since, NEW n \in DOMAIN since, m < n
        PROVE  since[m].time <= since[n].time
    <3>1. m \in DOMAIN since' /\ n \in DOMAIN since'
      BY <1>8, <1>10
    <3>2. since'[m].time <= since'[n].time
      BY <1>14, <2>1, <3>1 DEF Ascending
    <3> QED
      BY <1>8, <1>10, <3>2
  <2>2. ASSUME NEW m \in DOMAIN since PROVE since[m].time <= message.time
    <3>1. m \in DOMAIN since' /\ Len(since) + 1 \in DOMAIN since' /\ m < Len(since) + 1
      BY <1>8, <1>10
    <3>2. since'[m].time <= since'[Len(since) + 1].time
      BY <1>14, <3>1 DEF Ascending
    <3> QED
      BY <1>8, <1>10, <3>2
  <2> QED
    BY <2>1, <2>2 DEF Ascending, MessagesOf
<1>15. Content'
  <2>1. Listed' \subseteq MessagesOf(since')
    BY <1>2, <1>11, <1>12 DEF Content
  <2>2. Distinct'
    <3>1. \A n \in 1 .. len : Items[n].id # message.id
      BY <1>3, <1>8 DEF Listed, MessagesOf, Items
    <3>2. \A m, n \in 1 .. len : Items[m].id = Items[n].id => m = n
      BY <1>2, <1>8 DEF Content, Distinct
    <3>3. \A n \in 1 .. len + 1 : n \in 1 .. len \/ n = len + 1
      BY <1>8
    <3> HIDE DEF len
    <3> QED
      BY <1>9, <3>1, <3>2, <3>3 DEF Distinct
  <2>3. InTime'
    <3> SUFFICES ASSUME Ascending', NEW m \in 1 .. len + 1, NEW n \in 1 .. len + 1, m < n
                 PROVE  Items'[m].time <= Items'[n].time
      BY <1>9 DEF InTime
    <3>1. m \in 1 .. len
      BY <1>8
    <3>2. CASE n \in 1 .. len
      <4>1. Items[m].time <= Items[n].time
        BY <1>2, <1>8, <1>14, <3>1, <3>2 DEF Content, InTime
      <4> QED
        BY <1>9, <3>1, <3>2, <4>1
    <3>3. CASE n = len + 1
      <4>1. Items[m] \in MessagesOf(since)
        BY <1>2, <1>8, <3>1 DEF Content, Listed, MessagesOf, Items
      <4>2. Items[m].time <= message.time
        BY <1>14, <4>1
      <4> QED
        BY <1>9, <3>1, <3>3, <4>2
    <3>4. n \in 1 .. len \/ n = len + 1
      BY <1>8
    <3> QED
      BY <3>2, <3>3, <3>4
  <2>4. OldGoFirst'
    <3> SUFFICES ASSUME Ascending', NEW e \in Gone', NEW k \in Listed',
                        e.role = "system" <=> k.role = "system"
                 PROVE  e.time <= k.time
      BY DEF OldGoFirst
    <3>1. e \in Gone /\ e \in MessagesOf(since)
      BY <1>13 DEF Gone
    <3>2. CASE k \in Listed
      BY <1>2, <1>14, <3>1, <3>2 DEF Content, OldGoFirst
    <3>3. CASE k = message
      BY <1>14, <3>1, <3>3
    <3> QED
      BY <1>11, <3>2, <3>3
  <2> QED
    BY <2>1, <2>2, <2>3, <2>4 DEF Content
<1>16. Used'
  BY <1>1, <1>2, <1>3, <1>11 DEF Used
<1>17. Untrimmed(thread)'
  <2>1. Items' # <<>>
    BY <1>8, <1>9
  <2>2. Len(Items') <= Limit + 1 /\ (Gone' # {} => Len(Items') = Limit + 1)
    <3>1. len <= Limit /\ (Gone # {} => len = Limit)
      BY <1>3 DEF Settled
    <3>2. Gone' # {} => Gone # {}
      BY <1>13
    <3> HIDE DEF len
    <3> QED
      BY <1>8, <1>9, <3>1, <3>2
  <2>3. ASSUME NEW n \in 1 .. Len(Items') - 1 PROVE Items'[n] \in Listed
    <3>1. n \in 1 .. len
      BY <1>8, <1>9
    <3> QED
      BY <1>8, <1>9, <3>1 DEF Listed, MessagesOf, Items
  <2>4. \A e \in Gone', k \in {Items'[n] : n \in 1 .. Len(Items') - 1} :
          e.role = "system" => k.role = "system"
    <3>1. \A e \in Gone, k \in Listed : e.role = "system" => k.role = "system"
      BY <1>3 DEF Settled, SystemStays
    <3> QED
      BY <1>13, <2>3, <3>1
  <2>5. Items'[Len(Items')] = thread.message
    BY <1>5, <1>9
  <2> QED
    BY <2>1, <2>2, <2>4, <2>5 DEF Untrimmed, SystemStays
<1>18. Phase(thread)'
  BY <1>5, <1>17 DEF Phase, Trimming
<1> QED
  BY <1>1, <1>2, <1>15, <1>16, <1>18, OneSteps

\* Eviction keeps what the limit allows, in the order of time.
LEMMA StoreOrderly ==
  ASSUME Ind, Orderly, ~overlapped', NEW t \in Threads, Store(t)
  PROVE  Orderly'
<1> DEFINE K == KeptOf(Items)
<1>0. PICK thread :
        thread = [threads[t] EXCEPT !.step = "tally", !.system = Uncopied, !.rest = Uncopied]
  OBVIOUS
<1>1. /\ threads[t].step = "store" /\ ~overlapped /\ unused' = unused /\ since' = since
      /\ Becomes(t, thread)
  BY <1>0 DEF Store
<1>2. /\ \A u \in Threads \ {t} : threads[u].step = "idle"
      /\ Content /\ Used /\ Phase(threads[t])
  BY <1>1, Alone
<1>3. /\ Len(Items) > Limit /\ Untrimmed(threads[t])
      /\ threads[t].system = CopyOf(Items, {"system"})
      /\ threads[t].rest = CopyOf(Items, {"user", "assistant"})
  BY <1>1, <1>2 DEF Phase, Trimming
<1>4. /\ Items \in Seq(Message) /\ DOMAIN Items = 1 .. Len(Items) /\ Len(Items) \in Nat
      /\ Listed \subseteq Message
      /\ Limit \in Nat /\ \A m \in Message : m.time \in Nat
  BY ItemsTyped
<1>5. \A m, n \in DOMAIN Items : Items[m].id = Items[n].id => m = n
  BY <1>2 DEF Content, Distinct
<1>6. /\ K \subseteq Listed /\ IsFiniteSet(K) /\ Cardinality(K) = Limit
      /\ \A i \in DOMAIN Items, k \in K : Items[i] \notin K => Comes(Items, i, k)
      /\ (\A n \in 1 .. Limit : Items[n].role = "system") => \A k \in K : k.role = "system"
  <2>1. MessagesOf(Items) = Listed
    BY DEF Listed, Items
  <2> QED
    BY <1>3, <1>4, <1>5, <2>1, KeptInFull
<1>7. PICK items \in Sortings(K) : Rebind(t, items)
  BY <1>3 DEF Store, KeptOf
<1> HIDE DEF K
<1>8. /\ items \in Seq(Message) /\ Len(items) = Limit /\ MessagesOf(items) = K
      /\ \A m, n \in DOMAIN items : m < n => Precedes(items[m], items[n])
  <2>1. K \in SUBSET Message
    BY <1>4, <1>6
  <2> QED
    BY <1>6, <2>1, SortingListsAll
<1>9. Items' = items
  BY <1>7, <1>8, RebindTyped DEF Ind, Items
<1>10. Listed' = K
  BY <1>8, <1>9 DEF Listed, Items
<1>11. Gone' = MessagesOf(since) \ K /\ (Ascending' <=> Ascending)
  BY <1>1, <1>10 DEF Gone, Ascending
<1>12. ASSUME NEW e \in Gone', NEW k \in K
       PROVE  /\ e.role = "system" => k.role = "system"
              /\ Ascending /\ (e.role = "system" <=> k.role = "system") => e.time <= k.time
  <2>1. CASE e \in Listed
    <3>1. PICK i \in DOMAIN Items : e = Items[i]
      BY <2>1 DEF Listed, MessagesOf, Items
    <3>2. Items[i] \notin K
      BY <1>11, <3>1
    <3>3. PICK j \in DOMAIN Items :
            /\ Items[j] = k
            /\ e.role = "system" => k.role = "system"
            /\ (e.role = "system" <=> k.role = "system") => i < j
      BY <1>6, <3>1, <3>2 DEF Comes
    <3>4. Ascending /\ i < j => e.time <= k.time
      BY <1>2, <3>1, <3>3 DEF Content, InTime
    <3> QED
      BY <3>3, <3>4
  <2>2. CASE e \notin Listed
    <3>1. e \in Gone /\ k \in Listed
      BY <1>6, <1>11, <2>2 DEF Gone
    <3>2. Ascending /\ (e.role = "system" <=> k.role = "system") => e.time <= k.time
      BY <1>2, <3>1 DEF Content, OldGoFirst
    <3>3. ASSUME e.role = "system" PROVE k.role = "system"
      <4>1. Len(Items) = Limit + 1
        BY <1>3, <3>1 DEF Untrimmed
      <4>2. \A n \in 1 .. Limit : n \in 1 .. Len(Items) - 1
        BY <1>4, <4>1
      <4>3. \A n \in 1 .. Limit : Items[n].role = "system"
        BY <1>3, <3>1, <3>3, <4>2 DEF Untrimmed, SystemStays
      <4> QED
        BY <1>6, <4>3
    <3> QED
      BY <3>2, <3>3
  <2> QED
    BY <2>1, <2>2
<1>13. Content'
  <2>1. Listed' \subseteq MessagesOf(since')
    BY <1>1, <1>2, <1>6, <1>10 DEF Content
  <2>2. Distinct'
    <3> SUFFICES ASSUME NEW m \in DOMAIN items, NEW n \in DOMAIN items, items[m].id = items[n].id
                 PROVE  m = n
      BY <1>9 DEF Distinct
    <3>1. m \in Nat /\ n \in Nat
      BY <1>8
    <3>2. items[m] \in Listed /\ items[n] \in Listed
      BY <1>6, <1>8 DEF MessagesOf
    <3>3. items[m] = items[n]
      BY <1>5, <3>2 DEF Listed, MessagesOf, Items
    <3>4. ~Precedes(items[m], items[n]) /\ ~Precedes(items[n], items[m])
      <4>1. items[m].time \in Nat /\ items[m].id \in Nat
        BY <1>4, <3>2, NumbersAssumption DEF Message
      <4> QED
        BY <3>3, <4>1 DEF Precedes
    <3> QED
      BY <1>8, <3>1, <3>4
  <2>3. InTime'
    <3> SUFFICES ASSUME NEW m \in DOMAIN items, NEW n \in DOMAIN items, m < n
                 PROVE  items[m].time <= items[n].time
      BY <1>9 DEF InTime
    <3>1. items[m].time \in Nat /\ items[n].time \in Nat
      BY <1>4, <1>6, <1>8 DEF MessagesOf
    <3>2. Precedes(items[m], items[n])
      BY <1>8
    <3> QED
      BY <3>1, <3>2 DEF Precedes
  <2>4. OldGoFirst'
    BY <1>10, <1>11, <1>12 DEF OldGoFirst
  <2> QED
    BY <2>1, <2>2, <2>3, <2>4 DEF Content
<1>14. Used'
  BY <1>1, <1>2, <1>6, <1>10 DEF Used
<1>15. Settled'
  <2>1. Len(Items') = Limit
    BY <1>8, <1>9
  <2>2. SystemStays(Listed)'
    BY <1>10, <1>12 DEF SystemStays
  <2> QED
    BY <1>4, <2>1, <2>2 DEF Settled
<1>16. thread.step = "tally"
  BY <1>0 DEF Ind, TypeOK, Thread
<1>17. Phase(thread)'
  BY <1>15, <1>16 DEF Phase, Trimming
<1> QED
  BY <1>1, <1>2, <1>13, <1>14, <1>17, OneSteps

\* Clear empties the list and forgets what the session has seen.
LEMMA EmptyOrderly ==
  ASSUME Ind, Orderly, ~overlapped', NEW t \in Threads, Empty(t)
  PROVE  Orderly'
<1>0. PICK thread : thread = [threads[t] EXCEPT !.step = "zero"]
  OBVIOUS
<1>1. /\ threads[t].step = "empty" /\ ~overlapped /\ since' = <<>> /\ Rebind(t, <<>>)
      /\ Becomes(t, thread)
  BY <1>0 DEF Empty, Goes
<1>2. \A u \in Threads \ {t} : threads[u].step = "idle"
  BY <1>1, Alone
<1>3. Items' = <<>>
  <2>1. <<>> \in Seq(Message)
    OBVIOUS
  <2> QED
    BY <1>1, <2>1, RebindTyped DEF Ind, Items
<1>4. Listed' = {} /\ Gone' = {} /\ Len(Items') = 0 /\ DOMAIN Items' = {}
  BY <1>1, <1>3 DEF Listed, Gone, MessagesOf, Items
<1>5. Content' /\ Used'
  BY <1>4 DEF Content, Used, Distinct, InTime, OldGoFirst
<1>6. Settled'
  BY <1>4, NumbersAssumption DEF Settled, SystemStays
<1>7. thread.step = "zero"
  BY <1>0 DEF Ind, TypeOK, Thread
<1>8. Phase(thread)'
  BY <1>3, <1>6, <1>7 DEF Phase, Trimming
<1> QED
  BY <1>1, <1>2, <1>5, <1>8, OneSteps

LEMMA OrderlyKept == Ind /\ Orderly /\ [Next]_vars => Orderly'
<1> SUFFICES ASSUME Ind, Orderly, [Next]_vars, ~overlapped' PROVE Orderly'
  BY DEF Orderly
<1>1. CASE UNCHANGED vars
  <2>1. /\ Items' = Items /\ Listed' = Listed /\ Gone' = Gone /\ (Ascending' <=> Ascending)
        /\ threads' = threads /\ count' = count /\ unused' = unused /\ current' = current
        /\ overlapped' = overlapped /\ since' = since
    BY <1>1 DEF vars, Items, Listed, Gone, Ascending
  <2>2. Content' = Content /\ Used' = Used
    BY <2>1 DEF Content, Used, Distinct, InTime, OldGoFirst
  <2>3. ASSUME NEW t \in Threads, Phase(threads[t]) PROVE Phase(threads[t])'
    BY <2>1, <2>3 DEF Phase, Untrimmed, Settled, SystemStays
  <2>4. AtRest' = AtRest /\ Settled' = Settled
    BY <2>1 DEF AtRest, Settled, SystemStays
  <2> QED
    BY <2>1, <2>2, <2>3, <2>4 DEF Orderly
<1>2. ASSUME NEW t \in Threads, Step(t) PROVE Orderly'
  <2>1. CASE \/ \E id \in Ids, time \in Times : Handle(t, id, time) \/ AddSystem(t, id, time)
             \/ Clear(t)
    BY <2>1, BeginOrderly
  <2>2. CASE Fetch(t) \/ Reread(t) \/ Fits(t) \/ CopySystem(t) \/ CopyRest(t) \/ Tally(t)
    BY <2>2, LocalOrderly
  <2>3. CASE Count(t) \/ Fail(t) \/ Zero(t) \/ \E id \in Ids : Respond(t, id)
    BY <2>3, EndOrderly
  <2>4. CASE AppendMessage(t) \/ Store(t) \/ Empty(t)
    BY <2>4, AppendOrderly, StoreOrderly, EmptyOrderly
  <2> QED
    BY <1>2, <2>1, <2>2, <2>3, <2>4 DEF Step
<1> QED
  BY <1>1, <1>2 DEF Next

\* Eviction loses no more messages of a session than it must, others before system messages and
\* older before newer ones, for any number of messages and any limit, while calls do not overlap.
THEOREM OldestGoFirst == Spec => []EvictsOldestFirst
<1>1. Ind /\ Orderly => EvictsOldestFirst
  <2> SUFFICES ASSUME Ind, Orderly, ~overlapped, AtRest
               PROVE  /\ count = Len(lists[current])
                      /\ Listed \subseteq MessagesOf(since)
                      /\ Gone # {} => count = Limit
                      /\ \A e \in Gone, k \in Listed :
                           /\ e.role = "system" => k.role = "system"
                           /\ Ascending /\ (e.role = "system" <=> k.role = "system") =>
                                e.time <= k.time
    BY DEF EvictsOldestFirst
  <2>1. Content
    BY DEF Orderly
  <2>2. Settled /\ count = Len(Items)
    BY DEF Orderly
  <2> QED
    BY <2>1, <2>2 DEF Content, OldGoFirst, Settled, SystemStays, Items
<1> QED
  BY IndInit, IndKept, OrderlyInit, OrderlyKept, <1>1, PTL DEF Spec

-----------------------------------------------------------------------------
\* The policy: a decision is that of the request, and an event that of the decision.
Requested ==
  /\ asked = Absent => decision = Absent
  /\ asked # Absent =>
       \/ asked \in ActionRequests /\ decision = ActionCheck(asked)
       \/ asked \in CheckRequests /\ decision = CheckRequest(asked)
       \/ asked \in URLRequests /\ decision = Decision({ValidateUrl(asked.url)}, FALSE)

Recorded == event # Absent => asked # Absent /\ event = BuildEvent(decision)

PolicyInd == Requested /\ Recorded

LEMMA PolicyIndInit == PolicyInit => PolicyInd
  BY DEF PolicyInit, PolicyInd, Requested, Recorded

LEMMA PolicyIndKept == PolicyInd /\ [PolicyNext]_policyVars => PolicyInd'
<1> SUFFICES ASSUME PolicyInd, [PolicyNext]_policyVars PROVE PolicyInd'
  OBVIOUS
<1>1. CASE Check
  <2>1. event = Absent /\ event' = Absent
    BY <1>1 DEF Check, PolicyInd, Recorded
  <2>2. Recorded'
    BY <2>1 DEF Recorded
  <2>3. Requested'
    BY <1>1, AbsentAssumption DEF Check, ChecksAction, ChecksText, ChecksUrl, Requested
  <2> QED
    BY <2>2, <2>3 DEF PolicyInd
<1>2. CASE Record
  <2>1. asked' = asked /\ decision' = decision /\ event' = BuildEvent(decision)
    BY <1>2 DEF Record
  <2> QED
    BY <1>2, <2>1 DEF PolicyInd, Requested, Recorded, Record
<1>3. CASE UNCHANGED policyVars
  BY <1>3 DEF policyVars, PolicyInd, Requested, Recorded
<1> QED
  BY <1>1, <1>2, <1>3 DEF PolicyNext

\* What the policy says of one threat.
LEMMA OneThreat ==
  ASSUME NEW result, NEW sanitize \in BOOLEAN
  PROVE  /\ result.passed = TRUE => Decision({result}, sanitize).decision = "allow"
         /\ result.passed = FALSE /\ ~sanitize => Decision({result}, sanitize).decision = "block"
         /\ Decision({result}, sanitize).blocked <=> Decision({result}, sanitize).decision = "block"
<1>1. CASE result.passed = TRUE
  <2>1. {r \in {result} : ~r.passed} = {}
    BY <1>1
  <2> QED
    BY <2>1, <1>1 DEF Decision
<1>2. CASE result.passed = FALSE
  <2>1. {r \in {result} : ~r.passed} # {}
    BY <1>2
  <2> QED
    BY <2>1, <1>2 DEF Decision
<1>3. Decision({result}, sanitize).blocked <=> Decision({result}, sanitize).decision = "block"
  BY DEF Decision
<1> QED
  BY <1>1, <1>2, <1>3

LEMMA SafetyType ==
  ASSUME NEW r
  PROVE  ActionSafety(r).passed \in BOOLEAN
  BY DEF ActionSafety, Threat, Passed, DetectSecret

\* The permission is not looked at by the classification.
LEMMA SafetyIgnoresPermission ==
  ASSUME NEW r \in ActionRequests
  PROVE  /\ [r EXCEPT !.granted = TRUE, !.permission = "ALLOW"] \in ActionRequests
         /\ ActionSafety([r EXCEPT !.granted = TRUE, !.permission = "ALLOW"]) = ActionSafety(r)
<1> DEFINE s == [r EXCEPT !.granted = TRUE, !.permission = "ALLOW"]
<1>1. s \in ActionRequests
  BY DEF ActionRequests
<1>2. /\ s.category = r.category /\ s.credential_handling = r.credential_handling
      /\ s.described = r.described /\ s.secret = r.secret
  BY DEF ActionRequests
<1>3. ActionSafety(s) = ActionSafety(r)
  <2> HIDE DEF s
  <2> QED
    BY <1>2 DEF ActionSafety
<1> QED
  BY <1>1, <1>3

\* What permission_policy_check blocks, action_check finds unsafe.
LEMMA PolicyBlocksUnsafe ==
  ASSUME NEW r \in ActionRequests, PermissionPolicyCheck(r).blocked
  PROVE  ~ActionSafety(r).passed
<1>1. \/ r.credential_handling \/ r.category \in {"authentication", "financial", "purchase"}
      \/ r.category = "unknown"
  <2> SUFFICES ASSUME ~r.credential_handling,
                      r.category \notin {"authentication", "financial", "purchase"},
                      r.category # "unknown"
               PROVE  FALSE
    OBVIOUS
  <2>1. PermissionPolicyCheck(r) = Decision({Passed(0)}, FALSE)
    BY DEF PermissionPolicyCheck
  <2>2. Passed(0).passed = TRUE
    BY DEF Passed
  <2>3. Decision({Passed(0)}, FALSE).decision = "allow"
    BY <2>2, OneThreat
  <2>4. ~Decision({Passed(0)}, FALSE).blocked
    BY <2>3, OneThreat
  <2> QED
    BY <2>1, <2>4
<1> QED
  BY <1>1 DEF ActionSafety, Threat

\* A safe action passes with a permission only.
LEMMA AuthorizationAsks ==
  ASSUME NEW r \in ActionRequests, ActionSafety(r).passed = TRUE
  PROVE  /\ ActionCheck(r).decision \in {"allow", "block", "review_required"}
         /\ ActionCheck(r).decision = "allow" => r.granted /\ r.permission \in {"ALLOW", Absent}
         /\ r.granted /\ r.permission = "ALLOW" => ActionCheck(r).decision = "allow"
<1> DEFINE safety == ActionSafety(r)
<1>1. ActionCheck(r) = Authorization(r, safety)
  BY DEF ActionCheck
<1>2. r.permission \in {"ALLOW", "REQUIRE_APPROVAL", "DENY", Absent} /\ r.granted \in BOOLEAN
  BY DEF ActionRequests
<1>3. Decision({safety}, FALSE).decision = "allow"
  BY OneThreat
<1> HIDE DEF safety
<1>4. Decision({Threat("unsafe_action", 3)}, FALSE).decision = "block"
  <2>1. Threat("unsafe_action", 3).passed = FALSE
    BY DEF Threat
  <2> QED
    BY <2>1, OneThreat
<1>5. Decision({Threat("invalid_request", 3)}, FALSE).decision = "block"
  <2>1. Threat("invalid_request", 3).passed = FALSE
    BY DEF Threat
  <2> QED
    BY <2>1, OneThreat
<1>6. ASSUME NEW result PROVE ReviewRequired(Decision({result}, FALSE)).decision = "review_required"
  BY DEF ReviewRequired, Decision
<1>7. CASE r.permission = "DENY"
  BY <1>1, <1>4, <1>7 DEF Authorization
<1>8. CASE r.permission = "REQUIRE_APPROVAL"
  BY <1>1, <1>6, <1>8 DEF Authorization
<1>9. CASE r.permission \notin {"DENY", "REQUIRE_APPROVAL"} /\ ~r.granted
  <2>1. \/ Authorization(r, safety) = Decision({Threat("invalid_request", 3)}, FALSE)
        \/ Authorization(r, safety) = ReviewRequired(Decision({safety}, FALSE))
    BY <1>9 DEF Authorization
  <2> QED
    BY <1>1, <1>5, <1>6, <1>9, <2>1
<1>10. CASE r.permission \notin {"DENY", "REQUIRE_APPROVAL"} /\ r.granted
  <2>1. Authorization(r, safety) = Decision({safety}, FALSE)
    BY <1>10 DEF Authorization
  <2> QED
    BY <1>1, <1>2, <1>3, <1>10, <2>1
<1> QED
  BY <1>2, <1>7, <1>8, <1>9, <1>10

\* No permission lifts what either policy function blocks, and no audit event says success of an
\* action whose permission is missing: for every action and every permission.
THEOREM PermissionIsNoOverride == PolicySpec => []PermissionNeverOverrides
<1>1. PolicyInd => PermissionNeverOverrides
  <2> SUFFICES ASSUME PolicyInd, OfAction, event # Absent
               PROVE  /\ PermissionPolicyCheck(asked).blocked => event.status = "blocked"
                      /\ event.status = "success" =>
                           asked.granted /\ asked.permission \in {"ALLOW", Absent}
                      /\ ActionCheck([asked EXCEPT !.granted = TRUE, !.permission = "ALLOW"]).blocked =>
                           event.status = "blocked"
    BY DEF PermissionNeverOverrides
  <2>1. asked \in ActionRequests /\ decision = ActionCheck(asked)
    <3>1. asked # Absent /\ "category" \in DOMAIN asked
      BY DEF OfAction
    <3>2. asked \notin CheckRequests
      BY <3>1 DEF CheckRequests
    <3>3. asked \notin URLRequests
      BY <3>1 DEF URLRequests
    <3> QED
      BY <3>1, <3>2, <3>3 DEF PolicyInd, Requested
  <2>2. event = BuildEvent(decision)
    BY DEF PolicyInd, Recorded
  <2>3. /\ decision.decision = "block" => event.status = "blocked"
        /\ event.status = "success" => decision.decision \notin {"block", "review_required"}
    BY <2>2 DEF BuildEvent
  <2>4. CASE ~ActionSafety(asked).passed
    <3>1. decision = Decision({ActionSafety(asked)}, FALSE)
      BY <2>1, <2>4 DEF ActionCheck
    <3>2. ActionSafety(asked).passed = FALSE
      BY <2>4, SafetyType
    <3>3. decision.decision = "block"
      BY <3>1, <3>2, OneThreat
    <3> QED
      BY <2>3, <3>3
  <2>5. CASE ActionSafety(asked).passed
    <3> DEFINE permitted == [asked EXCEPT !.granted = TRUE, !.permission = "ALLOW"]
    <3>1. ActionSafety(asked).passed = TRUE
      BY <2>5, SafetyType
    <3>2. ~PermissionPolicyCheck(asked).blocked
      BY <2>1, <2>5, PolicyBlocksUnsafe
    <3>3. event.status = "success" => asked.granted /\ asked.permission \in {"ALLOW", Absent}
      BY <2>1, <2>3, <3>1, AuthorizationAsks
    <3>4. permitted \in ActionRequests /\ ActionSafety(permitted).passed = TRUE
      BY <2>1, <3>1, SafetyIgnoresPermission
    <3>5. permitted.granted /\ permitted.permission = "ALLOW"
      BY <2>1 DEF ActionRequests
    <3>6. ActionCheck(permitted).decision = "allow"
      <4> HIDE DEF permitted
      <4> QED
        BY <3>4, <3>5, AuthorizationAsks
    <3>7. ActionCheck(permitted) = Decision({ActionSafety(permitted)}, FALSE)
      <4> HIDE DEF permitted
      <4> QED
        BY <3>4, <3>5 DEF ActionCheck, Authorization
    <3>8. ~ActionCheck(permitted).blocked
      <4> HIDE DEF permitted
      <4> QED
        BY <3>6, <3>7, OneThreat
    <3> QED
      BY <3>2, <3>3, <3>8
  <2> QED
    BY <2>4, <2>5
<1> QED
  BY PolicyIndInit, PolicyIndKept, <1>1, PTL DEF PolicySpec

\* What the default checks send to be sanitized, sanitize_text accepts: for every text, whatever
\* other checks are asked for.
THEOREM SanitizeIsPossible == PolicySpec => []SanitizeAgrees
<1>1. PolicyInd => SanitizeAgrees
  <2> SUFFICES ASSUME PolicyInd, OfText, decision.decision = "sanitize", DefaultChecks \subseteq asked.checks,
                      CannotSanitize(asked.text)
               PROVE  FALSE
    BY DEF SanitizeAgrees
  <2>1. asked \in CheckRequests /\ decision = CheckRequest(asked)
    <3>1. asked # Absent /\ "checks" \in DOMAIN asked
      BY DEF OfText
    <3>2. asked \notin ActionRequests
      BY <3>1 DEF ActionRequests
    <3>3. asked \notin URLRequests
      BY <3>1 DEF URLRequests
    <3> QED
      BY <3>1, <3>2, <3>3 DEF PolicyInd, Requested
  <2> DEFINE text == asked.text
             results == {Result(type, text) : type \in asked.checks}
             failed == {r \in results : ~r.passed}
  <2>2. Sanitizable(failed)
    <3>1. decision = Decision(results, asked.sanitize)
      BY <2>1 DEF CheckRequest
    <3> HIDE DEF results
    <3> QED
      BY <3>1 DEF Decision
  <2>3. ASSUME NEW type \in DefaultChecks
        PROVE  Result(type, text).passed = FALSE =>
                 Result(type, text).threat \in {"data_exposure", "suspicious_payload"}
    <3>1. Result(type, text) \in results
      BY <2>3
    <3> HIDE DEF results, text
    <3> QED
      BY <2>2, <3>1 DEF Sanitizable
  <2>4. /\ "secret_detection" \in DefaultChecks /\ "command_injection_detection" \in DefaultChecks
        /\ "script_injection_detection" \in DefaultChecks
        /\ "path_traversal_detection" \in DefaultChecks
    BY DEF DefaultChecks, CheckTypes
  <2>5. text.secret => Result("secret_detection", text) = Threat("secret_exposure", 4)
    BY DEF Result, DetectSecret
  <2>6. text.command => Result("command_injection_detection", text) = Threat("command_injection", 3)
    BY DEF Result, PatternResult
  <2>7. text.script => Result("script_injection_detection", text) = Threat("script_injection", 3)
    BY DEF Result, PatternResult
  <2>8. text.traversal => Result("path_traversal_detection", text) = Threat("path_traversal", 3)
    BY DEF Result, PatternResult
  <2>9. text.secret \/ text.command \/ text.script \/ text.traversal
    BY DEF CannotSanitize, Unsafe
  <2> HIDE DEF text
  <2>10. ASSUME NEW type \in DefaultChecks,
                NEW threat \in {"secret_exposure", "command_injection", "script_injection", "path_traversal"},
                NEW risk, Result(type, text) = Threat(threat, risk)
         PROVE  FALSE
    <3>1. Result(type, text).passed = FALSE /\ Result(type, text).threat = threat
      BY <2>10 DEF Threat
    <3> QED
      BY <2>3, <3>1
  <2> QED
    BY <2>4, <2>5, <2>6, <2>7, <2>8, <2>9, <2>10
<1> QED
  BY PolicyIndInit, PolicyIndKept, <1>1, PTL DEF PolicySpec
=============================================================================
