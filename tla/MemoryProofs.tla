---------------------------- MODULE MemoryProofs ----------------------------
(***************************************************************************)
(* Theorems about MemoryEngine, for every set of users, keys, values, ids  *)
(* and workers and every bound.  First what holds whatever the workers     *)
(* interleave, then what holds when requests are served one at a time.     *)
(***************************************************************************)
EXTENDS MemoryRefinement, TLAPS

USE TimeAssumption, NeverAssumption

-----------------------------------------------------------------------------
(* Types.                                                                  *)

\* The copies the handlers make are records again.
LEMMA RecordTypes ==
  /\ Nothing \in [Ids -> Record \cup {None}]
  /\ \A id \in Ids, r \in Record : Only(id, r) \in [Ids -> Record \cup {None}]
  /\ \A e \in Expiry, t \in Nat : StatusAt(e, t) \in {"active", "expired"}
  /\ \A u \in Users, k \in Keys, v \in Values, e \in Expiry, t \in Nat :
       NewRecord(u, k, v, e, t) \in Record
  /\ \A r \in Record : MarkExpired(r) \in Record /\ Forgotten(r) \in Record
  /\ \A r \in Record, c \in Change : Updated(r, c) \in Record
PROOF
<1>1. Nothing \in [Ids -> Record \cup {None}]
  BY DEF Nothing
<1>2. ASSUME NEW id \in Ids, NEW r \in Record PROVE Only(id, r) \in [Ids -> Record \cup {None}]
  BY <1>1 DEF Only
<1>3. ASSUME NEW e, NEW t PROVE StatusAt(e, t) \in {"active", "expired"}
  BY DEF StatusAt
<1>4. ASSUME NEW u \in Users, NEW k \in Keys, NEW v \in Values, NEW e \in Expiry, NEW t \in Nat
      PROVE  NewRecord(u, k, v, e, t) \in Record
  BY <1>3 DEF NewRecord, Record
<1>5. ASSUME NEW r \in Record PROVE MarkExpired(r) \in Record /\ Forgotten(r) \in Record
  <2>1. MarkExpired(r) \in Record
    BY DEF MarkExpired, Record
  <2>2. r.version + 1 \in Nat
    BY DEF Record
  <2>3. Forgotten(r) \in Record
    BY <2>2 DEF Forgotten, Record
  <2> QED BY <2>1, <2>3
<1>6. ASSUME NEW r \in Record, NEW c \in Change PROVE Updated(r, c) \in Record
  <2>1. r.version + 1 \in Nat
    BY DEF Record
  <2>2. StatusAt(c.expires, c.time) \in {"active", "expired"}
    BY <1>3
  <2> QED BY <2>1, <2>2 DEF Updated, Record, Change
<1> QED BY <1>1, <1>2, <1>3, <1>4, <1>5, <1>6

LEMMA ReplyTypes ==
  \A status \in Statuses, ms \in SUBSET Record : [status |-> status, memories |-> ms] \in Reply
PROOF BY DEF Reply

LEMMA NothingType == Nothing \in [Ids -> Record \cup {None}]
PROOF BY DEF Nothing

-----------------------------------------------------------------------------
(* The inductive invariant for any number of workers.  A save writes back  *)
(* a copy that may be old, so the table is as good as the copies are.      *)

\* A copy that user u's request may save as memory id at time t.
Sound(r, id, u, t) ==
  /\ r.user = u
  /\ r.key \notin Secrets /\ r.value \notin Secrets
  /\ r.status = "expired" => Expired(r, t)
  /\ records[id] # None => r.user = records[id].user /\ r.key = records[id].key

\* An id not yet in the table is in the hands of one worker only.
Sole(w, id) == records[id] = None => \A x \in Workers \ {w} : held[x][id] = None

GoodHeld(w, H, u, t) ==
  /\ H \in [Ids -> Record \cup {None}]
  /\ \A id \in Ids : H[id] # None => Sound(H[id], id, u, t) /\ Sole(w, id)

GoodChange(p, c, t) ==
  /\ c \in Change \cup {None}
  /\ p = "scan" => c \in Change /\ c.value \notin Secrets /\ c.time <= t

GoodReply(r, u) ==
  /\ r \in Reply \cup {None}
  /\ r # None => \A m \in r.memories : m.user = u

WorkerOK(w) ==
  /\ GoodHeld(w, held[w], caller[w], now)
  /\ GoodChange(pc[w], change[w], now)
  /\ GoodReply(reply[w], caller[w])

IInv ==
  /\ TypeOK
  /\ NoSecretAtRest
  /\ ExpiredHasLapsed
  /\ \A w \in Workers : WorkerOK(w)

\* The step puts good copies, arguments and a good response in w's hands.
Hands(w) ==
  /\ \E p \in {"idle", "scan", "save"} :
       /\ pc' = [pc EXCEPT ![w] = p]
       /\ \E c : GoodChange(p, c, now') /\ change' = [change EXCEPT ![w] = c]
  /\ \E H : GoodHeld(w, H, caller'[w], now') /\ held' = [held EXCEPT ![w] = H]
  /\ \E r : GoodReply(r, caller'[w]) /\ reply' = [reply EXCEPT ![w] = r]

\* What every step of worker w but Save does: it leaves the table alone.
Move(w) ==
  /\ records' = records
  /\ now' \in Nat /\ now' >= now
  /\ \E u \in Users \cup {None} : caller' = [caller EXCEPT ![w] = u]
  /\ Hands(w)

LEMMA MovePreserves ==
  ASSUME IInv, NEW w \in Workers, Move(w)
  PROVE  IInv'
PROOF
<1>1. PICK H : GoodHeld(w, H, caller'[w], now') /\ held' = [held EXCEPT ![w] = H]
  BY DEF Move, Hands
<1>2. PICK p, c : /\ p \in {"idle", "scan", "save"} /\ pc' = [pc EXCEPT ![w] = p]
                  /\ GoodChange(p, c, now') /\ change' = [change EXCEPT ![w] = c]
  BY DEF Move, Hands
<1>3. PICK r : GoodReply(r, caller'[w]) /\ reply' = [reply EXCEPT ![w] = r]
  BY DEF Move, Hands
<1>4. PICK u \in Users \cup {None} : caller' = [caller EXCEPT ![w] = u]
  BY DEF Move
<1>5. records' = records /\ now \in Nat /\ now' \in Nat /\ now' >= now
  BY DEF Move, IInv, TypeOK
<1>6. TypeOK'
  BY <1>1, <1>2, <1>3, <1>4, <1>5 DEF IInv, TypeOK, GoodHeld, GoodChange, GoodReply
<1>7. \A x : Expired(x, now) /\ (x.expires \in Nat \/ x.expires = Never) => Expired(x, now')
  BY <1>5 DEF Expired
<1>8. \A x \in Record : Expired(x, now) => Expired(x, now')
  BY <1>7 DEF Record, Expiry
<1>9. NoSecretAtRest' /\ ExpiredHasLapsed'
  BY <1>5, <1>8 DEF IInv, NoSecretAtRest, ExpiredHasLapsed, TypeOK
<1>10. ASSUME NEW x \in Workers PROVE WorkerOK(x)'
  <2>1. CASE x = w
    <3>1. held'[x] = H /\ pc'[x] = p /\ change'[x] = c /\ reply'[x] = r
      BY <1>1, <1>2, <1>3, <2>1 DEF IInv, TypeOK
    <3>2. \A id \in Ids : Sole(w, id) => Sole(w, id)'
      BY <1>1, <1>5 DEF Sole, IInv, TypeOK
    <3>3. \A y, id, v, t : Sound(y, id, v, t) => Sound(y, id, v, t)'
      BY <1>5 DEF Sound, Expired
    <3>4. GoodHeld(x, held[x], caller[x], now)'
      BY <1>1, <2>1, <3>1, <3>2, <3>3 DEF GoodHeld
    <3> QED BY <1>2, <1>3, <2>1, <3>1, <3>4 DEF WorkerOK, GoodChange, GoodReply
  <2>2. CASE x # w
    <3>1. /\ held'[x] = held[x] /\ pc'[x] = pc[x] /\ change'[x] = change[x]
          /\ reply'[x] = reply[x] /\ caller'[x] = caller[x]
      BY <1>1, <1>2, <1>3, <1>4, <2>2 DEF IInv, TypeOK
    <3>2. WorkerOK(x)
      BY DEF IInv
    <3>3. ASSUME NEW id \in Ids, held[x][id] # None
          PROVE  Sound(held[x][id], id, caller[x], now)' /\ Sole(x, id)'
      <4>1. held[x][id] \in Record /\ Sound(held[x][id], id, caller[x], now) /\ Sole(x, id)
        BY <3>2, <3>3 DEF WorkerOK, GoodHeld
      <4>2. Sound(held[x][id], id, caller[x], now)'
        BY <1>5, <1>8, <3>1, <4>1 DEF Sound
      <4>3. Sole(x, id)'
        <5>1. H[id] # None => Sole(w, id)
          BY <1>1 DEF GoodHeld
        <5>2. records[id] = None => held'[w][id] = None
          BY <1>1, <2>2, <3>3, <5>1 DEF Sole, IInv, TypeOK
        <5> QED BY <1>1, <1>5, <4>1, <5>2 DEF Sole, IInv, TypeOK
      <4> QED BY <4>2, <4>3
    <3>4. GoodHeld(x, held[x], caller[x], now)'
      BY <3>1, <3>2, <3>3 DEF GoodHeld, WorkerOK
    <3>5. GoodChange(pc[x], change[x], now)'
      BY <1>5, <3>1, <3>2 DEF GoodChange, WorkerOK, Change
    <3> QED BY <3>1, <3>2, <3>4, <3>5 DEF WorkerOK, GoodReply
  <2> QED BY <2>1, <2>2
<1> QED BY <1>6, <1>9, <1>10 DEF IInv

LEMMA SavePreserves ==
  ASSUME IInv, NEW w \in Workers, Save(w)
  PROVE  IInv'
PROOF
<1>1. PICK id \in Ids : /\ held[w][id] # None
                        /\ records' = [records EXCEPT ![id] = held[w][id]]
                        /\ held' = [held EXCEPT ![w][id] = None]
                        /\ pc' = [pc EXCEPT ![w] = IF held'[w] = Nothing THEN "idle" ELSE "save"]
  BY DEF Save
<1>2. now' = now /\ caller' = caller /\ change' = change /\ reply' = reply
  BY DEF Save
<1>3. held[w][id] \in Record /\ Sound(held[w][id], id, caller[w], now) /\ Sole(w, id)
  BY <1>1 DEF IInv, WorkerOK, GoodHeld
<1>4. records'[id] = held[w][id] /\ \A o \in Ids \ {id} : records'[o] = records[o]
  BY <1>1 DEF IInv, TypeOK
<1>5. TypeOK'
  BY <1>1, <1>2, <1>3 DEF IInv, TypeOK
<1>6. NoSecretAtRest'
  BY <1>3, <1>4 DEF IInv, NoSecretAtRest, Sound
<1>7. ExpiredHasLapsed'
  BY <1>2, <1>3, <1>4 DEF IInv, ExpiredHasLapsed, Sound, Expired
<1>8. ASSUME NEW x \in Workers PROVE WorkerOK(x)'
  <2>1. WorkerOK(x)
    BY DEF IInv
  <2>2. \A o \in Ids : held'[x][o] # None => held'[x][o] = held[x][o]
    BY <1>1 DEF IInv, TypeOK
  <2>3. pc'[x] = "scan" => pc[x] = "scan"
    BY <1>1 DEF IInv, TypeOK
  <2>4. ASSUME NEW o \in Ids, held'[x][o] # None
        PROVE  Sound(held[x][o], o, caller[x], now)' /\ Sole(x, o)'
    <3>1. held[x][o] \in Record /\ Sound(held[x][o], o, caller[x], now) /\ Sole(x, o)
      BY <2>1, <2>2, <2>4 DEF WorkerOK, GoodHeld
    <3>2. CASE o # id
      <4>1. Sound(held[x][o], o, caller[x], now)'
        BY <1>2, <1>4, <2>2, <2>4, <3>1, <3>2 DEF Sound, Expired
      <4>2. \A y \in Workers : held[y][o] = None => held'[y][o] = None
        BY <1>1, <3>2 DEF IInv, TypeOK
      <4> QED BY <1>4, <3>1, <3>2, <4>1, <4>2 DEF Sole
    <3>3. CASE o = id
      <4>1. x # w
        BY <1>1, <2>4, <3>3 DEF IInv, TypeOK
      <4>2. records[id] # None
        BY <1>1, <3>1, <3>3, <4>1 DEF Sole
      <4>3. Sound(held[x][o], o, caller[x], now)'
        BY <1>2, <1>3, <1>4, <2>2, <2>4, <3>1, <3>3, <4>2 DEF Sound, Expired
      <4>4. Sole(x, o)'
        BY <1>1, <1>4, <3>3 DEF Sole
      <4> QED BY <4>3, <4>4
    <3> QED BY <3>2, <3>3
  <2>5. held'[x] \in [Ids -> Record \cup {None}]
    BY <1>5 DEF TypeOK
  <2>6. GoodHeld(x, held[x], caller[x], now)'
    BY <2>4, <2>5 DEF GoodHeld
  <2> QED BY <1>2, <2>1, <2>3, <2>6, <1>5 DEF WorkerOK, GoodChange, GoodReply, TypeOK
<1> QED BY <1>5, <1>6, <1>7, <1>8 DEF IInv

-----------------------------------------------------------------------------
(* Every step but Save is a Move.                                          *)

LEMMA BeginType ==
  ASSUME TypeOK, NEW w \in Workers, NEW u \in Users, NEW t \in Nat, Begin(w, u, t)
  PROVE  /\ now' \in Nat /\ now' >= now /\ now' >= t
         /\ caller' \in [Workers -> Users \cup {None}]
PROOF BY DEF Begin, TypeOK

LEMMA VisibleType ==
  ASSUME TypeOK
  PROVE  /\ \A u : \A id \in Owned(u) : id \in Ids /\ records[id] \in Record
         /\ \A u : \A id \in Visible(u) : id \in Owned(u)
         /\ \A u, k, t : \A id \in ActiveCandidates(u, k, t) : id \in Owned(u)
PROOF BY DEF TypeOK, Owned, Visible, ActiveCandidates


LEMMA AnswerHands ==
  ASSUME NEW w \in Workers, NEW status \in Statuses, NEW ms \in SUBSET Record,
         Answer(w, status, ms), \A m \in ms : m.user = caller'[w]
  PROVE  Hands(w)
PROOF
<1>1. GoodHeld(w, Nothing, caller'[w], now')
  BY NothingType DEF GoodHeld, Nothing
<1>2. GoodReply([status |-> status, memories |-> ms], caller'[w])
  BY ReplyTypes DEF GoodReply
<1>3. GoodChange("idle", None, now')
  BY DEF GoodChange
<1> QED BY <1>1, <1>2, <1>3 DEF Answer, Hands

LEMMA WriteHands ==
  ASSUME NEW w \in Workers, NEW status \in Statuses, NEW ms \in SUBSET Record,
         NEW H, GoodHeld(w, H, caller'[w], now'),
         Write(w, H, status, ms), \A m \in ms : m.user = caller'[w]
  PROVE  Hands(w)
PROOF
<1>1. GoodReply([status |-> status, memories |-> ms], caller'[w])
  BY ReplyTypes DEF GoodReply
<1>2. GoodChange("save", None, now')
  BY DEF GoodChange
<1> QED BY <1>1, <1>2 DEF Write, Hands

\* One sound copy is a good thing to hold.
LEMMA OnlyGood ==
  ASSUME NEW w \in Workers, NEW id \in Ids, NEW r \in Record, NEW u, NEW t,
         Sound(r, id, u, t), Sole(w, id)
  PROVE  GoodHeld(w, Only(id, r), u, t)
PROOF BY NothingType DEF GoodHeld, Only, Nothing

\* The copies made from a record of user u that is in the table.
LEMMA CopiesSound ==
  ASSUME IInv, NEW u, NEW id \in Owned(u), NEW w \in Workers, NEW t \in Nat, now <= t
  PROVE  /\ id \in Ids /\ records[id] \in Record /\ Sole(w, id)
         /\ Sound(records[id], id, u, t)
         /\ Sound(Forgotten(records[id]), id, u, t)
         /\ Expired(records[id], t) => Sound(MarkExpired(records[id]), id, u, t)
PROOF
<1>1. id \in Ids /\ records[id] # None /\ records[id].user = u /\ records[id] \in Record
  BY DEF Owned, IInv, TypeOK
<1>2. records[id].status = "expired" => Expired(records[id], t)
  BY <1>1 DEF IInv, TypeOK, ExpiredHasLapsed, Expired, Record, Expiry
<1>3. Sound(records[id], id, u, t) /\ Sole(w, id)
  BY <1>1, <1>2 DEF Sound, Sole, IInv, NoSecretAtRest
<1> QED BY <1>1, <1>3 DEF Sound, Forgotten, MarkExpired, Expired, Record

\* The clock and the caller, in every handler that takes a request up.
LEMMA BeginFacts ==
  ASSUME TypeOK, NEW w \in Workers, NEW u \in Users, NEW t \in Nat, Begin(w, u, t)
  PROVE  /\ now' \in Nat /\ now' >= now /\ now' >= t
         /\ caller' = [caller EXCEPT ![w] = u] /\ caller'[w] = u
PROOF BY DEF Begin, TypeOK

LEMMA StoreMoves ==
  ASSUME IInv, NEW w \in Workers, NEW u \in Users, NEW k \in Keys, NEW v \in Values,
         NEW e \in Expiry, NEW t \in Nat, Store(w, u, k, v, e, t)
  PROVE  Move(w)
PROOF
<1>1. TypeOK
  BY DEF IInv
<1>2. /\ now' \in Nat /\ now' >= now /\ now' >= t
      /\ caller' = [caller EXCEPT ![w] = u] /\ caller'[w] = u
  BY <1>1, BeginFacts DEF Store
<1>3. Hands(w)
  <2>1. CASE Answer(w, "rejected", {})
    BY <2>1, AnswerHands DEF Statuses
  <2>2. ASSUME NEW id \in ActiveCandidates(u, k, t),
               Answer(w, "duplicate", {records[id]}) \/ Answer(w, "conflict", {})
        PROVE  Hands(w)
    <3>1. records[id] \in Record /\ records[id].user = u
      BY <1>1 DEF ActiveCandidates, Owned, TypeOK
    <3> QED BY <1>2, <2>2, <3>1, AnswerHands DEF Statuses
  <2>3. ASSUME NEW id \in Fresh, ~SecretPresent(k, v),
               Write(w, Only(id, NewRecord(u, k, v, e, t)), "stored", {NewRecord(u, k, v, e, t)})
        PROVE  Hands(w)
    <3>1. NewRecord(u, k, v, e, t) \in Record
      BY RecordTypes
    <3>2. Sound(NewRecord(u, k, v, e, t), id, u, now') /\ Sole(w, id) /\ id \in Ids
      BY <1>2, <2>3 DEF Sound, Sole, NewRecord, StatusAt, Expired, Fresh, Expiry, SecretPresent
    <3>3. GoodHeld(w, Only(id, NewRecord(u, k, v, e, t)), u, now')
      BY <3>1, <3>2, OnlyGood
    <3> QED BY <1>2, <2>3, <3>1, <3>3, WriteHands DEF Statuses, NewRecord
  <2> QED BY <2>1, <2>2, <2>3 DEF Store
<1> QED BY <1>2, <1>3 DEF Move, Store

LEMMA RetrieveMoves ==
  ASSUME IInv, NEW w \in Workers, NEW u \in Users, NEW id \in Ids, NEW t \in Nat,
         Retrieve(w, u, id, t)
  PROVE  Move(w)
PROOF
<1>1. TypeOK
  BY DEF IInv
<1>2. /\ now' \in Nat /\ now' >= now /\ now' >= t
      /\ caller' = [caller EXCEPT ![w] = u] /\ caller'[w] = u
  BY <1>1, BeginFacts DEF Retrieve
<1>3. CASE Answer(w, "not_found", {})
  <2>1. Hands(w)
    BY <1>2, <1>3, AnswerHands DEF Statuses
  <2> QED BY <1>2, <2>1 DEF Move, Retrieve
<1>4. ASSUME id \in Visible(u), Expired(records[id], t),
             Write(w, Only(id, MarkExpired(records[id])), "expired", {})
      PROVE  Move(w)
  <2>1. id \in Owned(u) /\ records[id] \in Record
    BY <1>1, <1>4 DEF Visible, Owned, TypeOK
  <2>2. Expired(records[id], now')
    BY <1>2, <1>4, <2>1 DEF Expired, Record, Expiry
  <2>3. GoodHeld(w, Only(id, MarkExpired(records[id])), u, now')
    BY <1>2, <2>1, <2>2, CopiesSound, OnlyGood, RecordTypes
  <2>4. Hands(w)
    BY <1>2, <1>4, <2>3, WriteHands DEF Statuses
  <2> QED BY <1>2, <2>4 DEF Move, Retrieve
<1>5. ASSUME id \in Visible(u), Answer(w, "found", {records[id]}) PROVE Move(w)
  <2>1. records[id] \in Record /\ records[id].user = u
    BY <1>1, <1>5 DEF Visible, Owned, TypeOK
  <2>2. Hands(w)
    BY <1>2, <1>5, <2>1, AnswerHands DEF Statuses
  <2> QED BY <1>2, <2>2 DEF Move, Retrieve
<1> QED BY <1>3, <1>4, <1>5 DEF Retrieve

LEMMA ForgetMoves ==
  ASSUME IInv, NEW w \in Workers, NEW u \in Users, NEW id \in Ids, NEW t \in Nat,
         Forget(w, u, id, t)
  PROVE  Move(w)
PROOF
<1>1. TypeOK
  BY DEF IInv
<1>2. /\ now' \in Nat /\ now' >= now /\ now' >= t
      /\ caller' = [caller EXCEPT ![w] = u] /\ caller'[w] = u
  BY <1>1, BeginFacts DEF Forget
<1>3. CASE Answer(w, "not_found", {}) \/ Answer(w, "already_forgotten", {})
  <2>1. Hands(w)
    BY <1>2, <1>3, AnswerHands DEF Statuses
  <2> QED BY <1>2, <2>1 DEF Move, Forget
<1>4. ASSUME id \in Owned(u), Write(w, Only(id, Forgotten(records[id])), "forgotten", {})
      PROVE  Move(w)
  <2>1. GoodHeld(w, Only(id, Forgotten(records[id])), u, now')
    BY <1>2, <1>4, CopiesSound, OnlyGood, RecordTypes
  <2>2. Hands(w)
    BY <1>2, <1>4, <2>1, WriteHands DEF Statuses
  <2> QED BY <1>2, <2>2 DEF Move, Forget
<1> QED BY <1>3, <1>4 DEF Forget

LEMMA ListMoves ==
  ASSUME IInv, NEW w \in Workers, NEW u \in Users, NEW wanted \in SUBSET Keys, NEW t \in Nat,
         List(w, u, wanted, t)
  PROVE  Move(w)
PROOF
<1>1. TypeOK
  BY DEF IInv
<1>2. /\ now' \in Nat /\ now' >= now /\ now' >= t
      /\ caller' = [caller EXCEPT ![w] = u] /\ caller'[w] = u
  BY <1>1, BeginFacts DEF List
<1> DEFINE lapsed == {id \in Visible(u) : Expired(records[id], t)}
           shown  == {id \in Visible(u) : Live(records[id], t) /\ records[id].key \in wanted}
           listed == {records[id] : id \in shown}
           recs   == [id \in Ids |-> IF id \in lapsed THEN MarkExpired(records[id]) ELSE None]
<1>3. listed \in SUBSET Record /\ \A m \in listed : m.user = u
  BY <1>1 DEF Visible, Owned, TypeOK
<1>4. GoodHeld(w, recs, u, now')
  <2>1. \A id \in lapsed : id \in Owned(u) /\ records[id] \in Record /\ Expired(records[id], t)
    BY <1>1 DEF Visible, Owned, TypeOK
  <2>2. \A id \in lapsed : Expired(records[id], now')
    BY <1>2, <2>1 DEF Expired, Record, Expiry
  <2>3. \A id \in lapsed : Sound(MarkExpired(records[id]), id, u, now') /\ Sole(w, id)
    BY <1>2, <2>1, <2>2, CopiesSound
  <2>4. recs \in [Ids -> Record \cup {None}]
    BY <2>1, RecordTypes
  <2> HIDE DEF lapsed
  <2> QED BY <2>3, <2>4 DEF GoodHeld
<1>5. Answer(w, "listed", listed) \/ Write(w, recs, "listed", listed)
  BY DEF List
<1>6. Hands(w)
  <2> HIDE DEF listed, recs
  <2> QED BY <1>2, <1>3, <1>4, <1>5, AnswerHands, WriteHands DEF Statuses
<1> QED BY <1>2, <1>6 DEF Move, List

LEMMA UpdateGetMoves ==
  ASSUME IInv, NEW w \in Workers, NEW u \in Users, NEW id \in Ids, NEW v \in Values,
         NEW e \in Expiry, NEW t \in Nat, UpdateGet(w, u, id, v, e, t)
  PROVE  Move(w)
PROOF
<1>1. TypeOK
  BY DEF IInv
<1>2. /\ now' \in Nat /\ now' >= now /\ now' >= t
      /\ caller' = [caller EXCEPT ![w] = u] /\ caller'[w] = u
  BY <1>1, BeginFacts DEF UpdateGet
<1>3. CASE Answer(w, "rejected", {}) \/ Answer(w, "not_found", {})
  <2>1. Hands(w)
    BY <1>2, <1>3, AnswerHands DEF Statuses
  <2> QED BY <1>2, <2>1 DEF Move, UpdateGet
<1>4. ASSUME id \in Visible(u), Expired(records[id], t),
             Write(w, Only(id, MarkExpired(records[id])), "expired", {})
      PROVE  Move(w)
  <2>1. id \in Owned(u) /\ records[id] \in Record
    BY <1>1, <1>4 DEF Visible, Owned, TypeOK
  <2>2. Expired(records[id], now')
    BY <1>2, <1>4, <2>1 DEF Expired, Record, Expiry
  <2>3. GoodHeld(w, Only(id, MarkExpired(records[id])), u, now')
    BY <1>2, <2>1, <2>2, CopiesSound, OnlyGood, RecordTypes
  <2>4. Hands(w)
    BY <1>2, <1>4, <2>3, WriteHands DEF Statuses
  <2> QED BY <1>2, <2>4 DEF Move, UpdateGet
<1>5. ASSUME ~SecretPresent(None, v), id \in Visible(u), pc' = [pc EXCEPT ![w] = "scan"],
             held' = [held EXCEPT ![w] = Only(id, records[id])],
             change' = [change EXCEPT ![w] = [value |-> v, expires |-> e, time |-> t]],
             reply' = [reply EXCEPT ![w] = None]
      PROVE  Move(w)
  <2>1. id \in Owned(u)
    BY <1>5 DEF Visible
  <2>2. GoodHeld(w, Only(id, records[id]), u, now')
    BY <1>2, <2>1, CopiesSound, OnlyGood
  <2>3. GoodChange("scan", [value |-> v, expires |-> e, time |-> t], now')
    BY <1>2, <1>5 DEF GoodChange, Change, SecretPresent
  <2>4. GoodReply(None, u)
    BY DEF GoodReply
  <2> QED BY <1>2, <1>5, <2>2, <2>3, <2>4 DEF Move, Hands, UpdateGet
<1> QED BY <1>3, <1>4, <1>5 DEF UpdateGet

LEMMA UpdateScanMoves ==
  ASSUME IInv, NEW w \in Workers, UpdateScan(w)
  PROVE  Move(w)
PROOF
<1>1. TypeOK
  BY DEF IInv
<1>2. /\ records' = records /\ now' = now /\ now \in Nat
      /\ caller' = caller /\ caller[w] \in Users \cup {None}
  BY <1>1 DEF UpdateScan, TypeOK
<1>3. caller' = [caller EXCEPT ![w] = caller[w]]
  BY <1>1, <1>2 DEF TypeOK
<1>4. PICK id \in Ids : UpdateScan(w)!3!(id)
  BY DEF UpdateScan
<1> DEFINE r == held[w][id]
           c == change[w]
           others == ActiveCandidates(r.user, r.key, c.time) \ {id}
<1>5. r \in Record /\ Sound(r, id, caller[w], now) /\ Sole(w, id)
  BY <1>4 DEF IInv, WorkerOK, GoodHeld
<1>6. c \in Change /\ c.value \notin Secrets /\ c.time <= now
  BY DEF UpdateScan, IInv, WorkerOK, GoodChange
<1>7. ASSUME NEW o \in others,
             Answer(w, "duplicate", {records[o]}) \/ Answer(w, "conflict", {})
      PROVE  Hands(w)
  <2>1. records[o] \in Record /\ records[o].user = caller[w]
    BY <1>1, <1>5 DEF ActiveCandidates, Owned, TypeOK, Sound
  <2> QED BY <1>2, <1>7, <2>1, AnswerHands DEF Statuses
<1>8. ASSUME Write(w, Only(id, Updated(r, c)), "updated", {Updated(r, c)}) PROVE Hands(w)
  <2>1. Updated(r, c) \in Record
    BY <1>5, <1>6, RecordTypes
  <2>2. Sound(Updated(r, c), id, caller[w], now)
    BY <1>2, <1>5, <1>6 DEF Sound, Updated, StatusAt, Expired, Record, Change, Expiry
  <2>3. GoodHeld(w, Only(id, Updated(r, c)), caller[w], now)
    BY <1>5, <2>1, <2>2, OnlyGood
  <2>4. \A m \in {Updated(r, c)} : m.user = caller[w]
    BY <2>2 DEF Sound
  <2> QED BY <1>2, <1>8, <2>1, <2>3, <2>4, WriteHands DEF Statuses
<1>9. Hands(w)
  BY <1>4, <1>7, <1>8
<1>10. now' \in Nat /\ now' >= now
  BY <1>2
<1> QED BY <1>2, <1>3, <1>9, <1>10, Zenon DEF Move

LEMMA FailMoves ==
  ASSUME IInv, NEW w \in Workers, Fail(w)
  PROVE  Move(w)
PROOF
<1>1. TypeOK
  BY DEF IInv
<1>2. Hands(w)
  BY AnswerHands DEF Fail, Statuses
<1>3. /\ records' = records /\ now' = now /\ now \in Nat
      /\ caller' = caller /\ caller[w] \in Users \cup {None}
  BY <1>1 DEF Fail, TypeOK
<1>4. caller' = [caller EXCEPT ![w] = caller[w]]
  BY <1>1, <1>3 DEF TypeOK
<1>5. now' \in Nat /\ now' >= now
  BY <1>3
<1> QED BY <1>2, <1>3, <1>4, <1>5, Zenon DEF Move

-----------------------------------------------------------------------------
(* The theorems that hold however the workers interleave.                  *)

LEMMA StepPreserves == IInv /\ [Next]_vars => IInv'
PROOF
<1> SUFFICES ASSUME IInv, [Next]_vars PROVE IInv'
  OBVIOUS
<1>1. CASE UNCHANGED vars
  <2>1. TypeOK' /\ NoSecretAtRest' /\ ExpiredHasLapsed'
    BY <1>1 DEF IInv, vars, TypeOK, NoSecretAtRest, ExpiredHasLapsed, Expired
  <2>2. ASSUME NEW w \in Workers PROVE WorkerOK(w)'
    BY <1>1 DEF IInv, vars, WorkerOK, GoodHeld, GoodChange, GoodReply, Sound, Sole, Expired
  <2> QED BY <2>1, <2>2 DEF IInv
<1>2. ASSUME NEW w \in Workers, Handle(w) PROVE IInv'
  <2>1. CASE UpdateScan(w)
    BY <2>1, UpdateScanMoves, MovePreserves
  <2>2. CASE Save(w)
    BY <2>2, SavePreserves
  <2>3. CASE Fail(w)
    BY <2>3, FailMoves, MovePreserves
  <2>4. Times \subseteq Nat /\ Expiries \subseteq Expiry /\ Changeable \subseteq Ids
    BY DEF Times, Expiries, Expiry, Changeable
  <2>5. ASSUME NEW u \in Users, NEW t \in Nat PROVE
          /\ \A k \in Keys, v \in Values, e \in Expiry : Store(w, u, k, v, e, t) => IInv'
          /\ \A id \in Ids : Retrieve(w, u, id, t) => IInv'
          /\ \A wanted \in SUBSET Keys : List(w, u, wanted, t) => IInv'
          /\ \A id \in Ids, v \in Values, e \in Expiry : UpdateGet(w, u, id, v, e, t) => IInv'
          /\ \A id \in Ids : Forget(w, u, id, t) => IInv'
    BY StoreMoves, RetrieveMoves, ListMoves, UpdateGetMoves, ForgetMoves, MovePreserves
  <2> QED BY <1>2, <2>1, <2>2, <2>3, <2>4, <2>5 DEF Handle
<1> QED BY <1>1, <1>2 DEF Next

LEMMA InitOK == Init => IInv
PROOF BY NothingType DEF Init, IInv, TypeOK, NoSecretAtRest, ExpiredHasLapsed, WorkerOK,
         GoodHeld, GoodChange, GoodReply, Sound, Nothing

THEOREM Invariance == Spec => []IInv
PROOF BY InitOK, StepPreserves, PTL DEF Spec

\* Every variable of the engine keeps its type.
THEOREM TypeCorrect == Spec => []TypeOK
PROOF
<1>1. IInv => TypeOK
  BY DEF IInv
<1> QED BY <1>1, Invariance, PTL

\* No interleaving of requests brings a credential into the memories table.
THEOREM SecretsStayOut == Spec => []NoSecretAtRest
PROOF
<1>1. IInv => NoSecretAtRest
  BY DEF IInv
<1> QED BY <1>1, Invariance, PTL

\* Only a memory whose expiry has come is ever marked expired in the table.
THEOREM ExpiryIsHonest == Spec => []ExpiredHasLapsed
PROOF
<1>1. IInv => ExpiredHasLapsed
  BY DEF IInv
<1> QED BY <1>1, Invariance, PTL

\* No response shows a user another user's memory.
THEOREM RepliesIsolated == Spec => []ReplyIsolation
PROOF
<1>1. IInv => ReplyIsolation
  BY DEF IInv, WorkerOK, GoodReply, ReplyIsolation
<1> QED BY <1>1, Invariance, PTL

\* A memory keeps its user and its key and is changed on its owner's behalf only.
THEOREM OwnershipKept == Spec => Ownership
PROOF
<1>1. IInv /\ [Next]_vars => [OwnershipStep]_vars
  <2> SUFFICES ASSUME IInv, Next PROVE OwnershipStep
    BY DEF OwnershipStep
  <2>1. PICK w \in Workers : Handle(w)
    BY DEF Next
  <2>2. CASE Save(w)
    <3>1. PICK id \in Ids : held[w][id] # None /\ records' = [records EXCEPT ![id] = held[w][id]]
      BY <2>2 DEF Save
    <3>2. Sound(held[w][id], id, caller[w], now)
      BY <3>1 DEF IInv, WorkerOK, GoodHeld
    <3>3. records'[id] = held[w][id] /\ \A o \in Ids \ {id} : records'[o] = records[o]
      BY <3>1 DEF IInv, TypeOK
    <3> QED BY <3>1, <3>2, <3>3 DEF OwnershipStep, Sound
  <2>3. CASE ~Save(w)
    <3>1. records' = records
      <4>1. UpdateScan(w) \/ Fail(w) => records' = records
        BY DEF UpdateScan, Fail
      <4>2. ASSUME NEW u, NEW t PROVE
              /\ \A k, v, e : Store(w, u, k, v, e, t) => records' = records
              /\ \A id : Retrieve(w, u, id, t) => records' = records
              /\ \A wanted : List(w, u, wanted, t) => records' = records
              /\ \A id, v, e : UpdateGet(w, u, id, v, e, t) => records' = records
              /\ \A id : Forget(w, u, id, t) => records' = records
        BY DEF Store, Retrieve, List, UpdateGet, Forget
      <4> QED BY <2>1, <2>3, <4>1, <4>2 DEF Handle
    <3> QED BY <3>1 DEF OwnershipStep
  <2> QED BY <2>2, <2>3
<1> QED BY <1>1, Invariance, PTL DEF Spec, Ownership

-----------------------------------------------------------------------------
(* One request at a time.  The hypothesis Serial is what the code does not enforce: the run of *)
(* MemoryLostForget.cfg, where two requests overlap, refutes ForgottenFinal without it.        *)

\* There is one worker.
Serial == \A a, b \in Workers : a = b

\* No live record but id shares r's user and key at time t.
NoRival(id, r, t) ==
  \A o \in Ids \ {id} :
    Live(records[o], t) => records[o].user # r.user \/ records[o].key # r.key

\* A save of r as id would mark a lapsed memory expired.
Lapsing(id, r, t) ==
  /\ records[id] # None
  /\ records[id].status # "forgotten"
  /\ Expired(records[id], t)
  /\ r = MarkExpired(records[id])

\* ... would add a memory, change one, or forget one.
Adding(id, r, t) ==
  /\ records[id] = None
  /\ r.version = 1
  /\ r.status \in {"active", "expired"}
  /\ NoRival(id, r, t)

Revising(id, r, t) ==
  /\ records[id] # None
  /\ records[id].status = "active"
  /\ Skew = 0 => Live(records[id], t)
  /\ \E c \in Change : r = Updated(records[id], c)
  /\ NoRival(id, r, t)

Dropping(id, r) ==
  /\ records[id] # None
  /\ records[id].status # "forgotten"
  /\ r = Forgotten(records[id])

\* Copies that are safe to save: any number that lapse, or one of another kind.
SaveShape(H, t) ==
  \A id \in Ids : H[id] # None =>
    \/ Lapsing(id, H[id], t)
    \/ /\ Adding(id, H[id], t) \/ Revising(id, H[id], t) \/ Dropping(id, H[id])
       /\ \A o \in Ids \ {id} : H[o] = None

\* An update between its two halves still has the row as it is in the table.
ScanShape(H, c, t) ==
  \E id \in Ids :
    /\ H = Only(id, records[id])
    /\ Live(records[id], c.time)
    /\ Skew = 0 => c.time = t

SInv ==
  /\ UniqueLive
  /\ \A w \in Workers : /\ pc[w] = "save" => SaveShape(held[w], now)
                        /\ pc[w] = "scan" => ScanShape(held[w], change[w], now)

\* What every step of worker w but Save does.
SerialMove(w) ==
  /\ records' = records
  /\ now' \in Nat /\ now' >= now
  /\ pc'[w] = "save" => \E H : held'[w] = H /\ SaveShape(H, now')
  /\ pc'[w] = "scan" => \E H, c : held'[w] = H /\ change'[w] = c /\ ScanShape(H, c, now')

\* A memory live later is live now.
LEMMA LiveEarlier ==
  ASSUME NEW r \in Record \cup {None}, NEW s \in Nat, NEW t \in Nat, s <= t, Live(r, t)
  PROVE  Live(r, s)
PROOF BY DEF Live, Expired, Record, Expiry

LEMMA OnlyFacts ==
  \A id \in Ids : \A r : /\ Only(id, r)[id] = r
                         /\ \A o \in Ids \ {id} : Only(id, r)[o] = None
PROOF BY DEF Only, Nothing

LEMMA SerialMovePreserves ==
  ASSUME Serial, IInv, SInv, NEW w \in Workers, SerialMove(w)
  PROVE  SInv'
PROOF
<1>1. records' = records /\ now \in Nat /\ now' \in Nat /\ now' >= now
  BY DEF SerialMove, IInv, TypeOK
<1>2. UniqueLive'
  <2>1. \A id \in Ids : Live(records[id], now') => Live(records[id], now)
    BY <1>1, LiveEarlier DEF IInv, TypeOK
  <2>2. \A r : Live(r, now)' <=> Live(r, now')
    BY DEF Live, Expired
  <2> QED BY <1>1, <2>1, <2>2 DEF SInv, UniqueLive
<1>3. ASSUME pc'[w] = "save" PROVE SaveShape(held[w], now)'
  <2>1. PICK H : held'[w] = H /\ SaveShape(H, now')
    BY <1>3 DEF SerialMove
  <2>2. SaveShape(H, now)'
    BY <1>1, <2>1 DEF SaveShape, Lapsing, Adding, Revising, Dropping, NoRival
  <2> QED BY <2>1, <2>2
<1>4. ASSUME pc'[w] = "scan" PROVE ScanShape(held[w], change[w], now)'
  <2>1. PICK H, c : held'[w] = H /\ change'[w] = c /\ ScanShape(H, c, now')
    BY <1>4 DEF SerialMove
  <2>2. ScanShape(H, c, now)'
    BY <1>1, <2>1 DEF ScanShape
  <2> QED BY <2>1, <2>2
<1> QED BY <1>2, <1>3, <1>4 DEF SInv, Serial

\* Saving one copy of a safe set of copies.
LEMMA SerialSavePreserves ==
  ASSUME Serial, IInv, SInv, NEW w \in Workers, Save(w)
  PROVE  SInv'
PROOF
<1>1. PICK id \in Ids : /\ held[w][id] # None
                        /\ records' = [records EXCEPT ![id] = held[w][id]]
                        /\ held' = [held EXCEPT ![w][id] = None]
                        /\ pc' = [pc EXCEPT ![w] = IF held'[w] = Nothing THEN "idle" ELSE "save"]
  BY DEF Save
<1>2. pc[w] = "save" /\ now' = now /\ SaveShape(held[w], now)
  BY DEF Save, SInv
<1>3. records'[id] = held[w][id] /\ \A o \in Ids \ {id} : records'[o] = records[o]
  BY <1>1 DEF IInv, TypeOK
<1>4. /\ held'[w][id] = None /\ \A o \in Ids \ {id} : held'[w][o] = held[w][o]
      /\ pc'[w] \in {"idle", "save"}
  BY <1>1 DEF IInv, TypeOK
<1>5. UniqueLive'
  <2>1. Live(held[w][id], now) => NoRival(id, held[w][id], now)
    BY <1>1, <1>2 DEF SaveShape, Lapsing, Dropping, Adding, Revising, MarkExpired, Forgotten, Live,
                      IInv, TypeOK, Record
  <2>2. \A r : Live(r, now)' <=> Live(r, now)
    BY <1>2 DEF Live, Expired
  <2>3. ASSUME NEW a \in Ids, NEW b \in Ids, a # b,
               Live(records'[a], now), Live(records'[b], now),
               records'[a].user = records'[b].user, records'[a].key = records'[b].key
        PROVE  FALSE
    BY <1>3, <2>1, <2>3 DEF NoRival, SInv, UniqueLive
  <2> QED BY <2>2, <2>3 DEF UniqueLive
<1>6. ASSUME NEW o \in Ids, held'[w][o] # None
      PROVE  Lapsing(o, held[w][o], now)'
  <2>1. o # id /\ held[w][o] # None /\ records'[o] = records[o] /\ held'[w][o] = held[w][o]
    BY <1>3, <1>4, <1>6
  <2>2. Lapsing(o, held[w][o], now)
    BY <1>1, <1>2, <2>1 DEF SaveShape
  <2> QED BY <1>2, <2>1, <2>2 DEF Lapsing, Expired
<1>7. SaveShape(held[w], now)'
  BY <1>6 DEF SaveShape
<1> QED BY <1>4, <1>5, <1>7 DEF SInv, Serial

-----------------------------------------------------------------------------
(* Every step but Save is a SerialMove.                                    *)

LEMMA OnlyShape ==
  ASSUME NEW id \in Ids, NEW r, NEW t,
         Lapsing(id, r, t) \/ Adding(id, r, t) \/ Revising(id, r, t) \/ Dropping(id, r)
  PROVE  SaveShape(Only(id, r), t)
PROOF
<1>1. Only(id, r)[id] = r /\ \A o \in Ids \ {id} : Only(id, r)[o] = None
  BY OnlyFacts
<1> HIDE DEF Only
<1> QED BY <1>1 DEF SaveShape

LEMMA LapseShape ==
  ASSUME TypeOK, NEW u, NEW id \in Visible(u), NEW s \in Nat, NEW t \in Nat, s <= t,
         Expired(records[id], s)
  PROVE  Lapsing(id, MarkExpired(records[id]), t) /\ id \in Ids
PROOF
<1>1. id \in Ids /\ records[id] # None /\ records[id] \in Record /\ records[id].status # "forgotten"
  BY DEF Visible, Owned, TypeOK
<1>2. Expired(records[id], t)
  BY <1>1 DEF Expired, Record, Expiry
<1> QED BY <1>1, <1>2 DEF Lapsing

LEMMA StoreSerial ==
  ASSUME IInv, NEW w \in Workers, NEW u \in Users, NEW k \in Keys, NEW v \in Values,
         NEW e \in Expiry, NEW t \in Nat, Store(w, u, k, v, e, t)
  PROVE  SerialMove(w)
PROOF
<1>1. TypeOK
  BY DEF IInv
<1>2. records' = records /\ now' \in Nat /\ now' >= now /\ now' >= t
  BY <1>1, BeginFacts DEF Store
<1>3. CASE pc'[w] = "idle"
  BY <1>2, <1>3 DEF SerialMove
<1>4. ASSUME NEW id \in Fresh, ActiveCandidates(u, k, t) = {},
             Write(w, Only(id, NewRecord(u, k, v, e, t)), "stored", {NewRecord(u, k, v, e, t)})
      PROVE  SerialMove(w)
  <2>1. PICK r : r = NewRecord(u, k, v, e, t)
    OBVIOUS
  <2>2. r.user = u /\ r.key = k /\ r.version = 1 /\ r.status \in {"active", "expired"}
    BY <2>1 DEF NewRecord, StatusAt
  <2>3. NoRival(id, r, now')
    <3>1. \A o \in Ids : Live(records[o], now') => Live(records[o], t)
      BY <1>1, <1>2, LiveEarlier DEF TypeOK
    <3> QED BY <1>4, <2>2, <3>1 DEF NoRival, ActiveCandidates, Owned, Live
  <2>4. Adding(id, r, now') /\ id \in Ids
    BY <2>2, <2>3 DEF Adding, Fresh
  <2>5. SaveShape(Only(id, r), now')
    BY <2>4, OnlyShape
  <2>6. held'[w] = Only(id, r) /\ pc'[w] = "save"
    BY <1>1, <1>4, <2>1 DEF Write, TypeOK
  <2> QED BY <1>2, <2>5, <2>6 DEF SerialMove
<1>5. \A s, ms : Answer(w, s, ms) => pc'[w] = "idle"
  BY <1>1 DEF Answer, TypeOK
<1> QED BY <1>3, <1>4, <1>5 DEF Store

LEMMA RetrieveSerial ==
  ASSUME IInv, NEW w \in Workers, NEW u \in Users, NEW id \in Ids, NEW t \in Nat,
         Retrieve(w, u, id, t)
  PROVE  SerialMove(w)
PROOF
<1>1. TypeOK
  BY DEF IInv
<1>2. records' = records /\ now' \in Nat /\ now' >= now /\ now' >= t
  BY <1>1, BeginFacts DEF Retrieve
<1>3. CASE pc'[w] = "idle"
  BY <1>2, <1>3 DEF SerialMove
<1>4. \A s, ms : Answer(w, s, ms) => pc'[w] = "idle"
  BY <1>1 DEF Answer, TypeOK
<1>5. \A H, s, ms : Write(w, H, s, ms) => pc'[w] = "save" /\ held'[w] = H
  BY <1>1 DEF Write, TypeOK
<1>6. ASSUME id \in Visible(u), Expired(records[id], t),
             Write(w, Only(id, MarkExpired(records[id])), "expired", {})
      PROVE  SerialMove(w)
  <2>1. PICK r : r = MarkExpired(records[id])
    OBVIOUS
  <2>2. Lapsing(id, r, now')
    BY <1>1, <1>2, <1>6, <2>1, LapseShape
  <2>3. SaveShape(Only(id, r), now')
    BY <2>2, OnlyShape
  <2>4. held'[w] = Only(id, r) /\ pc'[w] = "save"
    BY <1>5, <1>6, <2>1
  <2> QED BY <1>2, <2>3, <2>4 DEF SerialMove
<1> QED BY <1>3, <1>4, <1>6 DEF Retrieve

LEMMA ForgetSerial ==
  ASSUME IInv, NEW w \in Workers, NEW u \in Users, NEW id \in Ids, NEW t \in Nat,
         Forget(w, u, id, t)
  PROVE  SerialMove(w)
PROOF
<1>1. TypeOK
  BY DEF IInv
<1>2. records' = records /\ now' \in Nat /\ now' >= now /\ now' >= t
  BY <1>1, BeginFacts DEF Forget
<1>3. CASE pc'[w] = "idle"
  BY <1>2, <1>3 DEF SerialMove
<1>4. \A s, ms : Answer(w, s, ms) => pc'[w] = "idle"
  BY <1>1 DEF Answer, TypeOK
<1>5. \A H, s, ms : Write(w, H, s, ms) => pc'[w] = "save" /\ held'[w] = H
  BY <1>1 DEF Write, TypeOK
<1>6. ASSUME id \in Owned(u), records[id].status # "forgotten",
             Write(w, Only(id, Forgotten(records[id])), "forgotten", {})
      PROVE  SerialMove(w)
  <2>1. PICK r : r = Forgotten(records[id])
    OBVIOUS
  <2>2. Dropping(id, r)
    BY <1>6, <2>1 DEF Dropping, Owned
  <2>3. SaveShape(Only(id, r), now')
    BY <2>2, OnlyShape
  <2>4. held'[w] = Only(id, r) /\ pc'[w] = "save"
    BY <1>5, <1>6, <2>1
  <2> QED BY <1>2, <2>3, <2>4 DEF SerialMove
<1> QED BY <1>3, <1>4, <1>6 DEF Forget

LEMMA ListSerial ==
  ASSUME IInv, NEW w \in Workers, NEW u \in Users, NEW wanted \in SUBSET Keys, NEW t \in Nat,
         List(w, u, wanted, t)
  PROVE  SerialMove(w)
PROOF
<1>1. TypeOK
  BY DEF IInv
<1>2. records' = records /\ now' \in Nat /\ now' >= now /\ now' >= t
  BY <1>1, BeginFacts DEF List
<1>3. CASE pc'[w] = "idle"
  BY <1>2, <1>3 DEF SerialMove
<1>4. \A s, ms : Answer(w, s, ms) => pc'[w] = "idle"
  BY <1>1 DEF Answer, TypeOK
<1>5. \A H, s, ms : Write(w, H, s, ms) => pc'[w] = "save" /\ held'[w] = H
  BY <1>1 DEF Write, TypeOK
<1> DEFINE lapsed == {id \in Visible(u) : Expired(records[id], t)}
           shown  == {id \in Visible(u) : Live(records[id], t) /\ records[id].key \in wanted}
           listed == {records[id] : id \in shown}
           recs   == [id \in Ids |-> IF id \in lapsed THEN MarkExpired(records[id]) ELSE None]
<1>6. ASSUME Write(w, recs, "listed", listed) PROVE SerialMove(w)
  <2>1. PICK H : H = recs
    OBVIOUS
  <2>2. \A id \in lapsed : Lapsing(id, MarkExpired(records[id]), now')
    BY <1>1, <1>2, LapseShape
  <2>3. \A id \in Ids : H[id] # None => id \in lapsed /\ H[id] = MarkExpired(records[id])
    BY <2>1
  <2>4. SaveShape(H, now')
    BY <2>2, <2>3 DEF SaveShape
  <2>5. held'[w] = H /\ pc'[w] = "save"
    BY <1>5, <1>6, <2>1
  <2> QED BY <1>2, <2>4, <2>5 DEF SerialMove
<1> QED BY <1>3, <1>4, <1>6 DEF List

LEMMA UpdateGetSerial ==
  ASSUME IInv, NEW w \in Workers, NEW u \in Users, NEW id \in Ids, NEW v \in Values,
         NEW e \in Expiry, NEW t \in Nat, UpdateGet(w, u, id, v, e, t)
  PROVE  SerialMove(w)
PROOF
<1>1. TypeOK
  BY DEF IInv
<1>2. records' = records /\ now' \in Nat /\ now' >= now /\ now' >= t
  BY <1>1, BeginFacts DEF UpdateGet
<1>3. CASE pc'[w] = "idle"
  BY <1>2, <1>3 DEF SerialMove
<1>4. \A s, ms : Answer(w, s, ms) => pc'[w] = "idle"
  BY <1>1 DEF Answer, TypeOK
<1>5. \A H, s, ms : Write(w, H, s, ms) => pc'[w] = "save" /\ held'[w] = H
  BY <1>1 DEF Write, TypeOK
<1>6. ASSUME id \in Visible(u), Expired(records[id], t),
             Write(w, Only(id, MarkExpired(records[id])), "expired", {})
      PROVE  SerialMove(w)
  <2>1. PICK r : r = MarkExpired(records[id])
    OBVIOUS
  <2>2. Lapsing(id, r, now')
    BY <1>1, <1>2, <1>6, <2>1, LapseShape
  <2>3. SaveShape(Only(id, r), now')
    BY <2>2, OnlyShape
  <2>4. held'[w] = Only(id, r) /\ pc'[w] = "save"
    BY <1>5, <1>6, <2>1
  <2> QED BY <1>2, <2>3, <2>4 DEF SerialMove
<1>7. ASSUME id \in Visible(u), ~Expired(records[id], t), records[id].status = "active",
             pc' = [pc EXCEPT ![w] = "scan"],
             held' = [held EXCEPT ![w] = Only(id, records[id])],
             change' = [change EXCEPT ![w] = [value |-> v, expires |-> e, time |-> t]]
      PROVE  SerialMove(w)
  <2>1. PICK H, c : H = Only(id, records[id]) /\ c = [value |-> v, expires |-> e, time |-> t]
    OBVIOUS
  <2>2. Live(records[id], c.time)
    BY <1>7, <2>1 DEF Live, Visible, Owned
  <2>3. Skew = 0 => c.time = now'
    <3>1. t + Skew >= now /\ now' = (IF t > now THEN t ELSE now)
      BY DEF UpdateGet, Begin
    <3>2. now \in Nat
      BY <1>1 DEF TypeOK
    <3> QED BY <2>1, <3>1, <3>2
  <2>4. ScanShape(H, c, now')
    BY <2>1, <2>2, <2>3 DEF ScanShape
  <2>5. held'[w] = H /\ change'[w] = c /\ pc'[w] = "scan"
    BY <1>1, <1>7, <2>1 DEF TypeOK
  <2> QED BY <1>2, <2>4, <2>5 DEF SerialMove
<1> QED BY <1>3, <1>4, <1>6, <1>7 DEF UpdateGet

LEMMA UpdateScanSerial ==
  ASSUME IInv, SInv, NEW w \in Workers, UpdateScan(w)
  PROVE  SerialMove(w)
PROOF
<1>1. TypeOK
  BY DEF IInv
<1>2. records' = records /\ now' = now /\ now \in Nat /\ pc[w] = "scan"
  BY <1>1 DEF UpdateScan, TypeOK
<1>3. CASE pc'[w] = "idle"
  BY <1>2, <1>3 DEF SerialMove
<1>4. \A s, ms : Answer(w, s, ms) => pc'[w] = "idle"
  BY <1>1 DEF Answer, TypeOK
<1>5. \A H, s, ms : Write(w, H, s, ms) => pc'[w] = "save" /\ held'[w] = H
  BY <1>1 DEF Write, TypeOK
<1>6. PICK id \in Ids : UpdateScan(w)!3!(id)
  BY DEF UpdateScan
<1> DEFINE r == held[w][id]
           c == change[w]
           others == ActiveCandidates(r.user, r.key, c.time) \ {id}
<1>7. ASSUME others = {}, Write(w, Only(id, Updated(r, c)), "updated", {Updated(r, c)})
      PROVE  SerialMove(w)
  <2>1. PICK o \in Ids : /\ held[w] = Only(o, records[o])
                         /\ Live(records[o], c.time)
                         /\ Skew = 0 => c.time = now
    BY <1>2 DEF SInv, ScanShape
  <2>2. o = id /\ r = records[id]
    BY <1>6, <2>1, OnlyFacts
  <2>3. c \in Change /\ c.time \in Nat /\ c.time <= now
    BY <1>2 DEF IInv, WorkerOK, GoodChange, Change
  <2>4. PICK n : n = Updated(records[id], c)
    OBVIOUS
  <2>5. records[id] \in Record
    BY <1>1, <2>1, <2>2 DEF Live, TypeOK
  <2>6. n.user = r.user /\ n.key = r.key
    BY <2>2, <2>4, <2>5 DEF Updated, Record
  <2>7. NoRival(id, n, now)
    <3>1. \A x \in Ids : Live(records[x], now) => Live(records[x], c.time)
      BY <1>1, <1>2, <2>3, LiveEarlier DEF TypeOK
    <3> QED BY <1>7, <2>6, <3>1 DEF NoRival, ActiveCandidates, Owned, Live
  <2>8. Revising(id, n, now')
    BY <1>2, <2>1, <2>2, <2>3, <2>4, <2>7 DEF Revising, Live
  <2>9. SaveShape(Only(id, n), now')
    BY <2>8, OnlyShape
  <2>10. held'[w] = Only(id, n) /\ pc'[w] = "save"
    BY <1>5, <1>7, <2>2, <2>4
  <2> QED BY <1>2, <2>9, <2>10 DEF SerialMove
<1> QED BY <1>3, <1>4, <1>6, <1>7

LEMMA FailSerial ==
  ASSUME IInv, NEW w \in Workers, Fail(w)
  PROVE  SerialMove(w)
PROOF BY DEF IInv, TypeOK, Fail, Answer, SerialMove

-----------------------------------------------------------------------------
LEMMA SerialStep ==
  ASSUME Serial, IInv, SInv, NEW w \in Workers, Handle(w), ~Save(w)
  PROVE  SerialMove(w)
PROOF
<1>1. Times \subseteq Nat /\ Expiries \subseteq Expiry /\ Changeable \subseteq Ids
  BY DEF Times, Expiries, Expiry, Changeable
<1>2. UpdateScan(w) \/ Fail(w) => SerialMove(w)
  BY UpdateScanSerial, FailSerial
<1>3. ASSUME NEW u \in Users, NEW t \in Nat PROVE
        /\ \A k \in Keys, v \in Values, e \in Expiry : Store(w, u, k, v, e, t) => SerialMove(w)
        /\ \A id \in Ids : Retrieve(w, u, id, t) => SerialMove(w)
        /\ \A wanted \in SUBSET Keys : List(w, u, wanted, t) => SerialMove(w)
        /\ \A id \in Ids, v \in Values, e \in Expiry : UpdateGet(w, u, id, v, e, t) => SerialMove(w)
        /\ \A id \in Ids : Forget(w, u, id, t) => SerialMove(w)
  BY StoreSerial, RetrieveSerial, ListSerial, UpdateGetSerial, ForgetSerial
<1> QED BY <1>1, <1>2, <1>3 DEF Handle

LEMMA SerialInvariance == ASSUME Serial PROVE Spec => [](IInv /\ SInv)
PROOF
<1>1. Init => SInv
  BY NothingType DEF Init, SInv, UniqueLive, Live, Nothing
<1>2. IInv /\ SInv /\ [Next]_vars => SInv'
  <2> SUFFICES ASSUME IInv, SInv, [Next]_vars PROVE SInv'
    OBVIOUS
  <2>1. CASE UNCHANGED vars
    BY <2>1 DEF vars, SInv, UniqueLive, Live, Expired, SaveShape, ScanShape, Lapsing, Adding,
                Revising, Dropping, NoRival
  <2>2. CASE Next
    <3>1. PICK w \in Workers : Handle(w)
      BY <2>2 DEF Next
    <3>2. CASE Save(w)
      BY <3>2, SerialSavePreserves
    <3>3. CASE ~Save(w)
      BY <3>1, <3>3, SerialStep, SerialMovePreserves
    <3> QED BY <3>2, <3>3
  <2> QED BY <2>1, <2>2
<1> QED BY <1>1, <1>2, Invariance, PTL DEF Spec

\* Duplicate and conflict detection works: one request at a time, whatever
\* current_time each carries, no user gets two live memories under one key.
THEOREM SerialUniqueLive == ASSUME Serial PROVE Spec => []UniqueLive
PROOF
<1>1. SInv => UniqueLive
  BY DEF SInv
<1> QED BY <1>1, SerialInvariance, PTL

\* What one step does to the table: nothing, or one safe save.
LEMMA SerialTable ==
  ASSUME Serial, IInv, SInv, Next
  PROVE  \/ records' = records /\ now' \in Nat /\ now' >= now
         \/ /\ now' = now
            /\ \E id \in Ids, r \in Record :
                 /\ records' = [records EXCEPT ![id] = r]
                 /\ \/ Lapsing(id, r, now) \/ Adding(id, r, now)
                    \/ Revising(id, r, now) \/ Dropping(id, r)
PROOF
<1>1. PICK w \in Workers : Handle(w)
  BY DEF Next
<1>2. CASE Save(w)
  <2>1. PICK id \in Ids : held[w][id] # None /\ records' = [records EXCEPT ![id] = held[w][id]]
    BY <1>2 DEF Save
  <2>2. SaveShape(held[w], now) /\ now' = now
    BY <1>2 DEF Save, SInv
  <2>3. held[w][id] \in Record
    BY <2>1 DEF IInv, TypeOK
  <2> QED BY <2>1, <2>2, <2>3 DEF SaveShape
<1>3. CASE ~Save(w)
  BY <1>1, <1>3, SerialStep DEF SerialMove
<1> QED BY <1>2, <1>3

\* A forgotten memory is never brought back and never touched again.
THEOREM SerialForgottenFinal == ASSUME Serial PROVE Spec => ForgottenFinal
PROOF
<1>1. IInv /\ SInv /\ [Next]_vars => [ForgottenFinalStep]_vars
  <2> SUFFICES ASSUME IInv, SInv, Next PROVE ForgottenFinalStep
    BY DEF ForgottenFinalStep
  <2>1. CASE records' = records
    BY <2>1 DEF ForgottenFinalStep
  <2>2. ASSUME NEW id \in Ids, NEW r \in Record, records' = [records EXCEPT ![id] = r],
               Lapsing(id, r, now) \/ Adding(id, r, now) \/ Revising(id, r, now) \/ Dropping(id, r)
        PROVE  ForgottenFinalStep
    <3>1. records[id] # None => records[id].status # "forgotten"
      BY <2>2 DEF Lapsing, Adding, Revising, Dropping
    <3>2. \A o \in Ids \ {id} : records'[o] = records[o]
      BY <2>2 DEF IInv, TypeOK
    <3> QED BY <3>1, <3>2 DEF ForgottenFinalStep
  <2> QED BY <2>1, <2>2, SerialTable
<1> QED BY <1>1, SerialInvariance, PTL DEF Spec, ForgottenFinal

\* The version goes up by one with every change a caller asked for.
THEOREM SerialVersionCounts == ASSUME Serial PROVE Spec => VersionCounts
PROOF
<1>1. IInv /\ SInv /\ [Next]_vars => [VersionCountsStep]_vars
  <2> SUFFICES ASSUME IInv, SInv, Next PROVE VersionCountsStep
    BY DEF VersionCountsStep
  <2>1. CASE records' = records
    BY <2>1 DEF VersionCountsStep
  <2>2. ASSUME NEW id \in Ids, NEW r \in Record, records' = [records EXCEPT ![id] = r],
               Lapsing(id, r, now) \/ Adding(id, r, now) \/ Revising(id, r, now) \/ Dropping(id, r)
        PROVE  VersionCountsStep
    <3>1. records'[id] = r /\ \A o \in Ids \ {id} : records'[o] = records[o]
      BY <2>2 DEF IInv, TypeOK
    <3>2. records[id] # None => records[id] \in Record
      BY DEF IInv, TypeOK
    <3>3. records[id] # None => r = MarkExpired(records[id]) \/ r.version = records[id].version + 1
      BY <2>2, <3>2 DEF Lapsing, Adding, Revising, Dropping, Updated, Forgotten, Record
    <3> QED BY <3>1, <3>3 DEF VersionCountsStep
  <2> QED BY <2>1, <2>2, SerialTable
<1> QED BY <1>1, SerialInvariance, PTL DEF Spec, VersionCounts

-----------------------------------------------------------------------------
(* The engine implements the promise.                                      *)

LEMMA RowFacts ==
  \A r \in Record, t \in Nat :
    /\ r # None /\ Row(r, t) # None /\ Row(r, t) \in Promise!Entry
    /\ Row(r, t).user = r.user /\ Row(r, t).key = r.key
    /\ Row(r, t).life = Life(r, t) /\ Row(r, t).version = r.version
    /\ Life(r, t) = "live" <=> Live(r, t)
    /\ Life(r, t) = "forgotten" <=> r.status = "forgotten"
    /\ Life(r, t) \in {"live", "dead", "forgotten"}
PROOF
<1> SUFFICES ASSUME NEW r \in Record, NEW t \in Nat
             PROVE  /\ r # None /\ Row(r, t) # None /\ Row(r, t) \in Promise!Entry
                    /\ Row(r, t).user = r.user /\ Row(r, t).key = r.key
                    /\ Row(r, t).life = Life(r, t) /\ Row(r, t).version = r.version
                    /\ Life(r, t) = "live" <=> Live(r, t)
                    /\ Life(r, t) = "forgotten" <=> r.status = "forgotten"
                    /\ Life(r, t) \in {"live", "dead", "forgotten"}
  OBVIOUS
<1>1. /\ Life(r, t) = "live" <=> Live(r, t)
      /\ Life(r, t) = "forgotten" <=> r.status = "forgotten"
      /\ Life(r, t) \in {"live", "dead", "forgotten"}
  BY DEF Life, Live
<1>2. Row(r, t) \in Promise!Entry
  BY <1>1 DEF Row, Promise!Entry, Record
<1> QED BY <1>1, <1>2, NoneAssumption DEF Row

\* Time passing is a lapse of the memories whose expiry it reaches.
LEMMA TimeLapses ==
  ASSUME TypeOK, records' = records, now' \in Nat, now' >= now
  PROVE  Promise!Lapse \/ Book' = Book
PROOF
<1> DEFINE S == {id \in Promise!Living : ~Live(records[id], now')}
<1>1. ASSUME NEW id \in Ids
      PROVE  /\ records[id] = None => Book[id] = None /\ Book'[id] = None
             /\ records[id] # None => /\ records[id] \in Record
                                      /\ Book[id] = Row(records[id], now)
                                      /\ Book'[id] = Row(records[id], now')
  BY DEF Book, TypeOK
<1>2. now \in Nat
  BY DEF TypeOK
<1>3. ASSUME NEW id \in Ids \ S PROVE Book'[id] = Book[id]
  <2>1. CASE records[id] = None
    BY <1>1, <2>1
  <2>2. CASE records[id] # None
    <3>1. records[id] \in Record /\ Book[id] = Row(records[id], now) /\ Book'[id] = Row(records[id], now')
      BY <1>1, <2>2
    <3>2. Live(records[id], now) => Live(records[id], now')
      BY <1>2, <3>1, RowFacts DEF Promise!Living
    <3>3. Live(records[id], now') => Live(records[id], now)
      BY <1>2, <3>1, LiveEarlier
    <3>4. Life(records[id], now') = Life(records[id], now)
      BY <3>2, <3>3 DEF Life
    <3> QED BY <3>1, <3>4 DEF Row
  <2> QED BY <2>1, <2>2
<1>4. ASSUME NEW id \in S PROVE Book'[id] = [Book[id] EXCEPT !.life = "dead"]
  <2>1. id \in Ids /\ records[id] # None
    BY <1>1 DEF Promise!Living
  <2>2. records[id] \in Record /\ Book[id] = Row(records[id], now) /\ Book'[id] = Row(records[id], now')
    BY <1>1, <2>1
  <2>3. Life(records[id], now') = "dead"
    BY <1>2, <2>1, <2>2, RowFacts DEF Promise!Living
  <2> QED BY <2>2, <2>3 DEF Row
<1>5. CASE S = {}
  BY <1>3, <1>5 DEF Book
<1>6. CASE S # {}
  <2>1. S \in SUBSET Promise!Living /\ S \subseteq Ids
    BY DEF Promise!Living
  <2>2. Book' = [id \in Ids |-> IF id \in S THEN [Book[id] EXCEPT !.life = "dead"] ELSE Book[id]]
    <3> HIDE DEF S
    <3>1. Book' = [id \in Ids |-> Book'[id]]
      BY DEF Book
    <3> QED BY <1>3, <1>4, <3>1
  <2> HIDE DEF S
  <2> QED BY <1>6, <2>1, <2>2 DEF Promise!Lapse
<1> QED BY <1>5, <1>6

\* A safe save is a step of the book, or changes nothing the book shows.
LEMMA SaveImplements ==
  ASSUME IInv, Skew = 0, NEW id \in Ids, NEW r \in Record,
         records' = [records EXCEPT ![id] = r], now' = now,
         Lapsing(id, r, now) \/ Adding(id, r, now) \/ Revising(id, r, now) \/ Dropping(id, r)
  PROVE  Promise!PromiseNext \/ Book' = Book
PROOF
<1>1. now \in Nat /\ records \in [Ids -> Record \cup {None}]
  BY DEF IInv, TypeOK
<1>2. Book' = [Book EXCEPT ![id] = Row(r, now)]
  <2>1. r # None
    BY NoneAssumption
  <2>2. \A x : Row(x, now') = Row(x, now)
    OBVIOUS
  <2> QED BY <1>1, <2>1, <2>2 DEF Book
<1>3. \A o \in Ids : /\ records[o] = None => Book[o] = None
                     /\ records[o] # None => records[o] \in Record /\ Book[o] = Row(records[o], now)
  BY <1>1 DEF Book
<1>4. Row(r, now) \in Promise!Entry
  BY <1>1, RowFacts
<1>5. \A o \in Promise!Living : o \in Ids /\ Live(records[o], now) /\ Book[o] = Row(records[o], now)
  BY <1>1, <1>3, RowFacts DEF Promise!Living
<1>6. CASE Lapsing(id, r, now)
  <2>1. /\ records[id] \in Record /\ records[id].status # "forgotten" /\ Expired(records[id], now)
        /\ r = MarkExpired(records[id]) /\ Book[id] = Row(records[id], now)
    BY <1>1, <1>3, <1>6 DEF Lapsing
  <2>2. Life(r, now) = "dead" /\ Life(records[id], now) = "dead"
    BY <2>1 DEF Life, Live, MarkExpired, Record
  <2>3. Row(r, now) = Row(records[id], now)
    BY <2>1, <2>2 DEF Row, MarkExpired, Record
  <2> QED BY <1>2, <2>1, <2>3 DEF Book
<1>7. CASE Adding(id, r, now)
  <2> DEFINE e == Row(r, now)
  <2>1. Book[id] = None
    BY <1>3, <1>7 DEF Adding
  <2>2. e.life \in {"live", "dead"} /\ e.version = 1
    BY <1>1, <1>7, RowFacts DEF Adding
  <2>3. e \in [user : Users, key : Keys, value : Values, life : {"live", "dead"}, version : {1}]
    BY <1>4, <2>2 DEF Promise!Entry
  <2>4. ASSUME NEW o \in Promise!Living PROVE Book[o].user # e.user \/ Book[o].key # e.key
    <3>1. o \in Ids /\ Live(records[o], now) /\ Book[o] = Row(records[o], now)
      BY <1>5
    <3>2. o # id /\ records[o] \in Record
      BY <1>1, <1>7, <3>1 DEF Adding, Live
    <3>3. records[o].user # r.user \/ records[o].key # r.key
      BY <1>7, <3>1, <3>2 DEF Adding, NoRival
    <3> QED BY <1>1, <3>1, <3>2, <3>3, RowFacts
  <2>5. Promise!Add(id)
    <3> HIDE DEF e
    <3> QED BY <1>2, <2>1, <2>3, <2>4 DEF Promise!Add, e
  <2> QED BY <2>5 DEF Promise!PromiseNext
<1>8. CASE Revising(id, r, now)
  <2>1. PICK c \in Change : r = Updated(records[id], c)
    BY <1>8 DEF Revising
  <2>2. records[id] \in Record /\ Live(records[id], now) /\ Book[id] = Row(records[id], now)
    BY <1>3, <1>8 DEF Revising
  <2>3. id \in Promise!Living
    BY <1>1, <2>2, RowFacts DEF Promise!Living
  <2>4. r.status \in {"active", "expired"} /\ r.value = c.value /\ r.user = records[id].user
        /\ r.key = records[id].key /\ r.version = records[id].version + 1
    BY <2>1, <2>2 DEF Updated, StatusAt, Record
  <2>5. Life(r, now) \in {"live", "dead"}
    BY <1>1, <2>4, RowFacts
  <2>6. Row(r, now) = Promise!NextVersion(Book[id], c.value, Life(r, now))
    BY <2>2, <2>4 DEF Row, Promise!NextVersion
  <2>7. c.value \in Values
    BY DEF Change
  <2>8. Book' = [Book EXCEPT ![id] = Promise!NextVersion(@, c.value, Life(r, now))]
    BY <1>2, <2>6 DEF Book
  <2> QED BY <2>3, <2>5, <2>7, <2>8 DEF Promise!PromiseNext, Promise!Revise
<1>9. CASE Dropping(id, r)
  <2>1. /\ records[id] \in Record /\ records[id].status # "forgotten"
        /\ r = Forgotten(records[id]) /\ Book[id] = Row(records[id], now)
    BY <1>3, <1>9 DEF Dropping
  <2>2. Book[id] # None /\ Book[id].life # "forgotten"
    BY <1>1, <2>1, RowFacts
  <2>11. records[id].version \in Nat
    BY <2>1 DEF Record
  <2>12. /\ r.user = records[id].user /\ r.key = records[id].key /\ r.value = records[id].value
        /\ r.status = "forgotten" /\ r.version = records[id].version + 1
    BY <2>1, <2>11 DEF Forgotten, Record
  <2>3. Life(r, now) = "forgotten"
    BY <1>1, <2>12, RowFacts
  <2>4. Row(r, now) = Promise!NextVersion(Book[id], Book[id].value, "forgotten")
    BY <2>1, <2>12, <2>3 DEF Row, Promise!NextVersion
  <2>5. Book' = [Book EXCEPT ![id] = Promise!NextVersion(@, @.value, "forgotten")]
    BY <1>2, <2>4 DEF Book
  <2> QED BY <2>2, <2>5 DEF Promise!PromiseNext, Promise!Drop
<1> QED BY <1>6, <1>7, <1>8, <1>9

\* One request at a time, with current_time never running backwards, every
\* behaviour of the engine is one of the atomic book.
THEOREM SerialKeepsPromise == ASSUME Serial, Skew = 0 PROVE Spec => KeepsPromise
PROOF
<1>1. Init => Promise!PromiseInit
  BY DEF Init, Nothing, Promise!PromiseInit, Book
<1>2. IInv /\ SInv /\ [Next]_vars => [Promise!PromiseNext]_Book
  <2> SUFFICES ASSUME IInv, SInv, [Next]_vars PROVE Promise!PromiseNext \/ Book' = Book
    OBVIOUS
  <2>1. CASE UNCHANGED vars
    BY <2>1 DEF vars, Book
  <2>2. CASE Next
    <3>1. CASE records' = records /\ now' \in Nat /\ now' >= now
      <4>1. Promise!Lapse \/ Book' = Book
        BY <3>1, TimeLapses DEF IInv
      <4> QED BY <4>1 DEF Promise!PromiseNext
    <3>2. ASSUME now' = now, NEW id \in Ids, NEW r \in Record,
                 records' = [records EXCEPT ![id] = r],
                 Lapsing(id, r, now) \/ Adding(id, r, now) \/ Revising(id, r, now) \/ Dropping(id, r)
          PROVE  Promise!PromiseNext \/ Book' = Book
      BY <3>2, SaveImplements
    <3> QED BY <2>2, <3>1, <3>2, SerialTable
  <2> QED BY <2>1, <2>2
<1> QED BY <1>1, <1>2, SerialInvariance, PTL DEF Spec, KeepsPromise, Promise!PromiseSpec

-----------------------------------------------------------------------------
(* What is left of ForgottenFinal when requests interleave.                *)

\* No handler takes a copy of a forgotten memory: retrieve, list and update do not see it, forget
\* answers at once, and a new memory has an id of its own.
LEMMA NoCopyTaken ==
  ASSUME TypeOK, NEW w \in Workers, NEW id \in Ids, Rested(id), Handle(w), ~Save(w)
  PROVE  held' \in [Workers -> [Ids -> Record \cup {None}]] => held'[w][id] = None
<1> SUFFICES ASSUME held' \in [Workers -> [Ids -> Record \cup {None}]] PROVE held'[w][id] = None
  OBVIOUS
<1>1. ASSUME NEW status, NEW ms, Answer(w, status, ms) PROVE held'[w][id] = None
  BY <1>1 DEF Answer, TypeOK, Nothing
<1>2. ASSUME NEW j \in Ids, NEW r, NEW status, NEW ms, j # id, Write(w, Only(j, r), status, ms)
      PROVE  held'[w][id] = None
  BY <1>2 DEF Write, Only, Nothing, TypeOK
<1>3. \A u : id \notin Visible(u)
  BY DEF Visible, Rested
<1>4. CASE UpdateScan(w)
  <2>1. \A j \in Ids : held[w][j] # None => j # id
    BY DEF Rested
  <2> QED
    BY <1>1, <1>2, <1>4, <2>1 DEF UpdateScan
<1>5. CASE Fail(w)
  BY <1>1, <1>5 DEF Fail
<1>6. ASSUME NEW u \in Users, NEW t \in Times, NEW k \in Keys, NEW v \in Values, NEW e \in Expiries,
             Store(w, u, k, v, e, t)
      PROVE  held'[w][id] = None
  <2>1. \A j \in Fresh : j \in Ids /\ j # id
    BY DEF Fresh, Rested
  <2> QED
    BY <1>1, <1>2, <1>6, <2>1 DEF Store
<1>7. ASSUME NEW u \in Users, NEW t \in Times, NEW j \in Ids, Retrieve(w, u, j, t)
      PROVE  held'[w][id] = None
  BY <1>1, <1>2, <1>3, <1>7 DEF Retrieve
<1>8. ASSUME NEW u \in Users, NEW t \in Times, NEW wanted \in SUBSET Keys, List(w, u, wanted, t)
      PROVE  held'[w][id] = None
  <2> DEFINE lapsed == {i \in Visible(u) : Expired(records[i], t)}
             shown  == {i \in Visible(u) : Live(records[i], t) /\ records[i].key \in wanted}
             listed == {records[i] : i \in shown}
             recs   == [i \in Ids |-> IF i \in lapsed THEN MarkExpired(records[i]) ELSE None]
  <2>1. Answer(w, "listed", listed) \/ Write(w, recs, "listed", listed)
    BY <1>8 DEF List
  <2>2. recs[id] = None
    BY <1>3
  <2> HIDE DEF recs, listed
  <2>3. Write(w, recs, "listed", listed) => held'[w] = recs
    BY DEF Write, TypeOK
  <2> QED
    BY <1>1, <2>1, <2>2, <2>3
<1>9. ASSUME NEW u \in Users, NEW t \in Times, NEW j \in Ids, NEW v \in Values, NEW e \in Expiries,
             UpdateGet(w, u, j, v, e, t)
      PROVE  held'[w][id] = None
  <2>1. ASSUME j \in Visible(u), held' = [held EXCEPT ![w] = Only(j, records[j])]
        PROVE  held'[w][id] = None
    BY <1>3, <2>1 DEF Only, Nothing, TypeOK
  <2> QED
    BY <1>1, <1>2, <1>3, <1>9, <2>1 DEF UpdateGet
<1>10. ASSUME NEW u \in Users, NEW t \in Times, NEW j \in Ids, Forget(w, u, j, t)
       PROVE  held'[w][id] = None
  <2>1. CASE j = id
    BY <1>1, <1>10, <2>1 DEF Forget, Rested
  <2>2. CASE j # id
    BY <1>1, <1>2, <1>10, <2>2 DEF Forget
  <2> QED
    BY <2>1, <2>2
<1> QED
  BY <1>4, <1>5, <1>6, <1>7, <1>8, <1>9, <1>10 DEF Handle, Changeable

\* The other workers' copies are left alone by a step of w.
LEMMA OthersHold ==
  ASSUME TypeOK, NEW w \in Workers, Handle(w), ~Save(w)
  PROVE  /\ records' = records
         /\ \A x \in Workers : x # w => held'[x] = held[x]
BY DEF Handle, TypeOK, UpdateScan, Fail, Store, Retrieve, List, UpdateGet, Forget, Answer, Write

\* However many requests interleave: once a memory is forgotten and every request that had read
\* it before has ended, its row never changes again.  Only a copy from before the forget can
\* bring it back.
THEOREM ForgottenForGood == Spec => ForgottenStays
<1>1. ASSUME TypeOK, TypeOK', [Next]_vars PROVE [ForgottenStaysStep]_vars
  <2> SUFFICES ASSUME NEW id \in Ids, Rested(id), Next
               PROVE  Rested(id)' /\ records'[id] = records[id]
    BY <1>1 DEF ForgottenStaysStep
  <2>1. PICK w \in Workers : Handle(w)
    BY DEF Next
  <2>2. CASE Save(w)
    <3>1. PICK j \in Ids : /\ held[w][j] # None
                           /\ records' = [records EXCEPT ![j] = held[w][j]]
                           /\ held' = [held EXCEPT ![w][j] = None]
      BY <2>2 DEF Save
    <3>2. j # id
      BY <3>1 DEF Rested
    <3>3. records'[id] = records[id]
      BY <1>1, <3>1, <3>2 DEF TypeOK
    <3>4. \A x \in Workers : held'[x][id] = held[x][id]
      BY <1>1, <3>1, <3>2 DEF TypeOK
    <3> QED
      BY <3>3, <3>4 DEF Rested
  <2>3. CASE ~Save(w)
    <3>1. held'[w][id] = None
      BY <1>1, <2>1, <2>3, NoCopyTaken DEF TypeOK
    <3>2. records' = records /\ \A x \in Workers : x # w => held'[x] = held[x]
      BY <1>1, <2>1, <2>3, OthersHold
    <3> QED
      BY <3>1, <3>2 DEF Rested
  <2> QED
    BY <2>2, <2>3
<1> QED
  BY <1>1, TypeCorrect, PTL DEF Spec, ForgottenStays
=============================================================================
