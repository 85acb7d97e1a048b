----------------------- MODULE GoogleConnectionProofs -----------------------
(***************************************************************************)
(* Theorems about GoogleConnection, for every set of users and tasks and   *)
(* every lifetime, margin and delay that meets ClockAssumption.  First     *)
(* what holds however requests interleave, then what holds when they are   *)
(* served one at a time.                                                   *)
(***************************************************************************)
EXTENDS GoogleConnection, TLAPS

USE ClockAssumption, NoneAssumption

-----------------------------------------------------------------------------
(* The inductive invariant.                                                *)

\* A coroutine that awaits an answer knows its user, and the token if it refreshes one,
\* and has not waited longer than Delay.
TaskOK(t, n) ==
  /\ t.kind # "idle" => t.user \in Users /\ t.since <= n /\ n <= t.since + Delay
  /\ t.kind = "refresh" => t.token \in Token
  /\ t.kind = "idle" => t = Idle

\* The stored expiry is late by no more than Delay.
TokenOK(t) == t \in Token => (t.expires # None => t.expires <= t.ends + Delay)

IInv ==
  /\ TypeOK
  /\ ConnectedHasToken
  /\ \A k \in Tasks : TaskOK(task[k], now)
  /\ \A u \in Users : TokenOK(tokens[u])
  /\ CallsCarryLiveToken

LEMMA IdleType == Idle \in Await /\ \A n \in Nat : TaskOK(Idle, n)
PROOF
<1>1. Idle \in Await
  BY DEF Idle, Await
<1>2. ASSUME NEW n \in Nat PROVE TaskOK(Idle, n)
  BY DEF Idle, TaskOK
<1> QED BY <1>1, <1>2

\* What Google's answer is made into.
LEMMA ReceivedType ==
  ASSUME now \in Nat, NEW g \in Nat, NEW r \in BOOLEAN, NEW told \in BOOLEAN,
         NEW s \in Nat, NEW i \in s..now, now <= s + Delay
  PROVE  /\ Received(g, r, told, i) \in Token
         /\ TokenOK(Received(g, r, told, i))
         /\ now < Received(g, r, told, i).ends
         /\ Received(g, r, told, i).grant = g
         /\ Received(g, r, told, i).refresh = r
PROOF
<1> DEFINE e == IF told THEN now + Life ELSE None
<1>1. e \in Nat \cup {None} /\ i + Life \in Nat
  OBVIOUS
<1>2. Received(g, r, told, i) = [grant |-> g, refresh |-> r, expires |-> e, ends |-> i + Life]
  BY DEF Received
<1> HIDE DEF e
<1>3. Received(g, r, told, i) \in Token
  BY <1>1, <1>2 DEF Token
<1>4. e # None => e <= i + Life + Delay
  BY DEF e
<1>5. TokenOK(Received(g, r, told, i))
  BY <1>1, <1>2, <1>4 DEF TokenOK
<1>6. now < i + Life
  OBVIOUS
<1> QED BY <1>2, <1>3, <1>5, <1>6

\* save_token changes nothing but the refresh_token.
LEMMA SavedType ==
  ASSUME TypeOK, NEW u \in Users, NEW tok \in Token
  PROVE  /\ Saved(u, tok) \in Token
         /\ TokenOK(tok) => TokenOK(Saved(u, tok))
         /\ Saved(u, tok).grant = tok.grant
         /\ tok.refresh => Saved(u, tok).refresh
         /\ tokens[u] # None => (tokens[u].refresh => Saved(u, tok).refresh)
PROOF
<1> DEFINE r == tok.refresh \/ (tokens[u] # None /\ tokens[u].refresh)
<1>1. tok.refresh \in BOOLEAN /\ (tokens[u] # None => tokens[u].refresh \in BOOLEAN)
  BY DEF TypeOK, Token
<1>2. r \in BOOLEAN
  BY <1>1
<1>3. Saved(u, tok) = [tok EXCEPT !.refresh = r]
  BY DEF Saved
<1>4. tok = [grant |-> tok.grant, refresh |-> tok.refresh, expires |-> tok.expires, ends |-> tok.ends]
  BY DEF Token
<1>5. Saved(u, tok) = [grant |-> tok.grant, refresh |-> r, expires |-> tok.expires, ends |-> tok.ends]
  BY <1>3, <1>4 DEF Token
<1>6. Saved(u, tok).refresh = r /\ Saved(u, tok).grant = tok.grant
  BY <1>5
<1>7. Saved(u, tok) \in Token
  <2> HIDE DEF r
  <2> QED BY <1>2, <1>5 DEF Token
<1>8. TokenOK(tok) => TokenOK(Saved(u, tok))
  <2> HIDE DEF r
  <2> QED BY <1>5, <1>7 DEF TokenOK
<1>9. tok.refresh => r
  OBVIOUS
<1>10. tokens[u] # None => (tokens[u].refresh => r)
  OBVIOUS
<1> HIDE DEF r
<1> QED BY <1>6, <1>7, <1>8, <1>9, <1>10

LEMMA InitOK == Init => IInv
PROOF
<1> SUFFICES ASSUME Init PROVE IInv
  OBVIOUS
<1>1. TypeOK
  BY IdleType DEF Init, TypeOK
<1>2. ConnectedHasToken
  BY DEF Init, ConnectedHasToken
<1>3. \A k \in Tasks : TaskOK(task[k], now)
  BY IdleType DEF Init
<1>4. \A u \in Users : TokenOK(tokens[u])
  BY DEF Init, TokenOK
<1>5. CallsCarryLiveToken
  BY DEF Init, CallsCarryLiveToken
<1> QED BY <1>1, <1>2, <1>3, <1>4, <1>5 DEF IInv

-----------------------------------------------------------------------------
(* Every action preserves it.                                              *)

\* Facts of IInv the steps use.
LEMMA TaskFacts ==
  ASSUME IInv, NEW k \in Tasks, task[k].kind # "idle"
  PROVE  /\ task[k].user \in Users /\ task[k].grant \in Nat
         /\ task[k].since \in Nat /\ now \in Nat
         /\ task[k].since <= now /\ now <= task[k].since + Delay
         /\ task[k].kind = "refresh" => task[k].token \in Token
PROOF
<1>1. TaskOK(task[k], now) /\ task[k] \in Await
  BY DEF IInv, TypeOK
<1> QED BY <1>1 DEF IInv, TypeOK, Await, TaskOK

\* A coroutine that starts to wait.
LEMMA Awaiting ==
  ASSUME IInv, NEW kind \in {"exchange", "refresh"}, NEW u \in Users,
         NEW tok \in Token \cup {None}, kind = "refresh" => tok \in Token, NEW g \in Nat
  PROVE  LET t == [kind |-> kind, user |-> u, token |-> tok, grant |-> g, since |-> now]
         IN  t \in Await /\ TaskOK(t, now)
PROOF
<1> DEFINE t == [kind |-> kind, user |-> u, token |-> tok, grant |-> g, since |-> now]
<1>1. now \in Nat
  BY DEF IInv, TypeOK
<1>2. t \in Await
  BY <1>1 DEF Await
<1>3. TaskOK(t, now)
  BY <1>1 DEF TaskOK
<1> QED BY <1>2, <1>3

\* The history keeps its type when it is left alone, and when exchanges come to nothing.
LEMMA BooksType ==
  ASSUME IInv, NEW K, UNCHANGED grants, UNCHANGED standing \/ LoseConsents(K)
  PROVE  grants' \in [Users -> Nat] /\ standing' \in [Users -> SUBSET Nat]
PROOF
<1>1. CASE UNCHANGED standing
  BY <1>1 DEF IInv, TypeOK
<1>2. CASE LoseConsents(K)
  BY <1>2 DEF IInv, TypeOK, LoseConsents
<1> QED BY <1>1, <1>2

\* Steps that leave tokens, entries and the clock alone.
LEMMA QuietStep ==
  ASSUME IInv,
         UNCHANGED <<now, tokens, entries>>,
         grants' \in [Users -> Nat], standing' \in [Users -> SUBSET Nat],
         issued' \in [Users -> Nat \cup {None}],
         task' \in [Tasks -> Await], \A k \in Tasks : TaskOK(task'[k], now),
         sent' \in Call \cup {None}, sent' # None => (sent'.expires # None => now < sent'.ends)
  PROVE  IInv'
PROOF
<1>1. TypeOK'
  BY DEF IInv, TypeOK
<1>2. ConnectedHasToken'
  BY DEF IInv, ConnectedHasToken
<1>3. \A k \in Tasks : TaskOK(task'[k], now')
  OBVIOUS
<1>4. \A u \in Users : TokenOK(tokens'[u])
  BY DEF IInv
<1>5. CallsCarryLiveToken'
  BY DEF CallsCarryLiveToken
<1> QED BY <1>1, <1>2, <1>3, <1>4, <1>5 DEF IInv

LEMMA ConnectOK ==
  ASSUME IInv, NEW k \in Tasks, NEW u \in Users, Connect(k, u)
  PROVE  IInv'
PROOF
<1>1. issued' \in [Users -> Nat \cup {None}]
  <2>1. now + StateLife \in Nat
    BY DEF IInv, TypeOK
  <2> QED BY <2>1 DEF IInv, TypeOK, Connect
<1>2. /\ task' \in [Tasks -> Await] /\ \A x \in Tasks : TaskOK(task'[x], now)
  BY DEF IInv, TypeOK, Connect
<1>3. grants' \in [Users -> Nat] /\ standing' \in [Users -> SUBSET Nat]
  BY BooksType DEF Connect
<1> QED BY <1>1, <1>2, <1>3, QuietStep DEF Connect

LEMMA CallbackOK ==
  ASSUME IInv, NEW k \in Tasks, NEW u \in Users, Callback(k, u)
  PROVE  IInv'
PROOF
<1> DEFINE t == [kind |-> "exchange", user |-> u, token |-> None, grant |-> grants[u] + 1, since |-> now]
<1>1. grants[u] + 1 \in Nat
  BY DEF IInv, TypeOK
<1>2. t \in Await /\ TaskOK(t, now)
  BY <1>1, Awaiting
<1>3. task' = [task EXCEPT ![k] = t]
  BY DEF Callback
<1> HIDE DEF t
<1>4. /\ task' \in [Tasks -> Await] /\ \A x \in Tasks : TaskOK(task'[x], now)
  BY <1>2, <1>3 DEF IInv, TypeOK
<1>5. issued' \in [Users -> Nat \cup {None}]
  BY DEF Callback, IInv, TypeOK
<1>6. grants' \in [Users -> Nat] /\ standing' \in [Users -> SUBSET Nat]
  BY <1>1 DEF Callback, IInv, TypeOK
<1> QED BY <1>4, <1>5, <1>6, QuietStep DEF Callback

\* A token found not stale is accepted by Google.
LEMMA PostedOK ==
  ASSUME IInv, NEW u \in Users, tokens[u] # None, ~Stale(tokens[u])
  PROVE  /\ Posted(u, tokens[u]) \in Call
         /\ Posted(u, tokens[u]).expires # None => now < Posted(u, tokens[u]).ends
PROOF
<1>1. tokens[u] \in Token /\ TokenOK(tokens[u]) /\ now \in Nat
  BY DEF IInv, TypeOK
<1>2. Posted(u, tokens[u]) \in Call
  BY <1>1 DEF Posted, Call, Token
<1>3. tokens[u].expires # None => now < tokens[u].ends
  BY <1>1 DEF Token, TokenOK, Stale
<1> QED BY <1>2, <1>3 DEF Posted

LEMMA CreateEventOK ==
  ASSUME IInv, NEW k \in Tasks, NEW u \in Users, CreateEvent(k, u)
  PROVE  IInv'
PROOF
<1> DEFINE t == [kind |-> "refresh", user |-> u, token |-> tokens[u], grant |-> 0, since |-> now]
<1>1. issued' \in [Users -> Nat \cup {None}]
  BY DEF CreateEvent, IInv, TypeOK
<1>2. grants' \in [Users -> Nat] /\ standing' \in [Users -> SUBSET Nat]
  BY BooksType DEF CreateEvent
<1>3. CASE sent' = None /\ UNCHANGED task
  <2>1. task' \in [Tasks -> Await] /\ \A x \in Tasks : TaskOK(task'[x], now)
    BY <1>3 DEF IInv, TypeOK
  <2> QED BY <1>1, <1>3, <1>2, <2>1, QuietStep DEF CreateEvent
<1>4. CASE tokens[u] # None /\ ~Stale(tokens[u]) /\ sent' = Posted(u, tokens[u]) /\ UNCHANGED task
  <2>1. task' \in [Tasks -> Await] /\ \A x \in Tasks : TaskOK(task'[x], now)
    BY <1>4 DEF IInv, TypeOK
  <2>2. /\ sent' \in Call \cup {None}
        /\ sent' # None => (sent'.expires # None => now < sent'.ends)
    BY <1>4, PostedOK
  <2> QED BY <1>1, <1>4, <1>2, <2>1, <2>2, QuietStep DEF CreateEvent
<1>5. CASE tokens[u] # None /\ sent' = None /\ task' = [task EXCEPT ![k] = t]
  <2>1. tokens[u] \in Token
    BY <1>5 DEF IInv, TypeOK
  <2>2. t \in Await /\ TaskOK(t, now)
    BY <2>1, Awaiting
  <2> HIDE DEF t
  <2>3. task' \in [Tasks -> Await] /\ \A x \in Tasks : TaskOK(task'[x], now)
    BY <1>5, <2>2 DEF IInv, TypeOK
  <2> QED BY <1>1, <1>5, <1>2, <2>3, QuietStep DEF CreateEvent
<1> QED BY <1>3, <1>4, <1>5 DEF CreateEvent

LEMMA AwaitFailsOK ==
  ASSUME IInv, NEW k \in Tasks, AwaitFails(k)
  PROVE  IInv'
PROOF
<1>1. /\ task' \in [Tasks -> Await] /\ \A x \in Tasks : TaskOK(task'[x], now)
  BY IdleType DEF AwaitFails, IInv, TypeOK
<1>2. issued' \in [Users -> Nat \cup {None}]
  BY DEF AwaitFails, IInv, TypeOK
<1>3. grants' \in [Users -> Nat] /\ standing' \in [Users -> SUBSET Nat]
  BY BooksType DEF AwaitFails
<1> QED BY <1>1, <1>2, <1>3, QuietStep DEF AwaitFails

\* What an answered exchange and an answered refresh write.
LEMMA ExchangedWrites ==
  ASSUME IInv, NEW k \in Tasks, Exchanged(k)
  PROVE  /\ task[k].user \in Users
         /\ \E got \in Token :
              /\ TokenOK(got) /\ got.grant = task[k].grant
              /\ tokens' = [tokens EXCEPT ![task[k].user] = Saved(task[k].user, got)]
PROOF
<1> DEFINE u == task[k].user
<1>1. /\ u \in Users /\ task[k].since \in Nat /\ now \in Nat /\ now <= task[k].since + Delay
      /\ task[k].grant \in Nat
  BY TaskFacts DEF Exchanged
<1>2. PICK r \in BOOLEAN, told \in BOOLEAN, i \in task[k].since..now :
        tokens' = [tokens EXCEPT ![u] = Saved(u, Received(task[k].grant, r, told, i))]
  BY DEF Exchanged
<1> DEFINE got == Received(task[k].grant, r, told, i)
<1>3. got \in Token /\ TokenOK(got) /\ got.grant = task[k].grant
  BY <1>1, ReceivedType
<1> HIDE DEF got
<1>4. tokens' = [tokens EXCEPT ![u] = Saved(u, got)]
  BY <1>2 DEF got
<1> QED BY <1>1, <1>3, <1>4

LEMMA RefreshedWrites ==
  ASSUME IInv, NEW k \in Tasks, Refreshed(k)
  PROVE  /\ task[k].user \in Users
         /\ \E got \in Token :
              /\ TokenOK(got) /\ got.grant = task[k].token.grant /\ now < got.ends
              /\ tokens' = [tokens EXCEPT ![task[k].user] = Saved(task[k].user, got)]
              /\ sent' = Posted(task[k].user, got)
PROOF
<1> DEFINE u == task[k].user
<1>1. /\ u \in Users /\ task[k].since \in Nat /\ now \in Nat /\ now <= task[k].since + Delay
      /\ task[k].token.grant \in Nat
  BY TaskFacts DEF Refreshed, Token
<1>2. PICK r \in BOOLEAN, i \in task[k].since..now :
        /\ tokens' = [tokens EXCEPT ![u] = Saved(u, Received(task[k].token.grant, r, r, i))]
        /\ sent' = Posted(u, Received(task[k].token.grant, r, r, i))
  BY DEF Refreshed
<1> DEFINE got == Received(task[k].token.grant, r, r, i)
<1>3. got \in Token /\ TokenOK(got) /\ got.grant = task[k].token.grant /\ now < got.ends
  BY <1>1, ReceivedType
<1> HIDE DEF got
<1>4. tokens' = [tokens EXCEPT ![u] = Saved(u, got)] /\ sent' = Posted(u, got)
  BY <1>2 DEF got
<1> QED BY <1>1, <1>3, <1>4

LEMMA ExchangedOK ==
  ASSUME IInv, NEW k \in Tasks, Exchanged(k)
  PROVE  IInv'
PROOF
<1> DEFINE u == task[k].user
<1>1. u \in Users
  BY ExchangedWrites
<1>2. PICK got \in Token : TokenOK(got) /\ tokens' = [tokens EXCEPT ![u] = Saved(u, got)]
  BY ExchangedWrites
<1> DEFINE tok == Saved(u, got)
<1>3. tok \in Token /\ TokenOK(tok)
  BY <1>1, <1>2, SavedType DEF IInv
<1>4. /\ tokens' = [tokens EXCEPT ![u] = tok]
      /\ entries' = [entries EXCEPT ![u] = "connected"]
      /\ task' = [task EXCEPT ![k] = Idle] /\ sent' = None
      /\ UNCHANGED <<now, issued, grants, standing>>
  BY <1>2 DEF Exchanged
<1> HIDE DEF tok, u
<1>5. TypeOK'
  BY <1>1, <1>3, <1>4, IdleType DEF IInv, TypeOK
<1>6. ConnectedHasToken'
  BY <1>1, <1>3, <1>4 DEF IInv, TypeOK, ConnectedHasToken
<1>7. \A x \in Tasks : TaskOK(task'[x], now')
  BY <1>4, IdleType DEF IInv, TypeOK
<1>8. \A x \in Users : TokenOK(tokens'[x])
  BY <1>1, <1>3, <1>4 DEF IInv, TypeOK
<1>9. CallsCarryLiveToken'
  BY <1>4 DEF CallsCarryLiveToken
<1> QED BY <1>5, <1>6, <1>7, <1>8, <1>9 DEF IInv

LEMMA RefreshedOK ==
  ASSUME IInv, NEW k \in Tasks, Refreshed(k)
  PROVE  IInv'
PROOF
<1> DEFINE u == task[k].user
<1>1. u \in Users
  BY RefreshedWrites
<1>2. PICK got \in Token :
        /\ TokenOK(got) /\ now < got.ends
        /\ tokens' = [tokens EXCEPT ![u] = Saved(u, got)] /\ sent' = Posted(u, got)
  BY RefreshedWrites
<1> DEFINE tok == Saved(u, got)
<1>3. tok \in Token /\ TokenOK(tok)
  BY <1>1, <1>2, SavedType DEF IInv
<1>4. /\ tokens' = [tokens EXCEPT ![u] = tok]
      /\ task' = [task EXCEPT ![k] = Idle] /\ UNCHANGED <<now, issued, entries, grants, standing>>
  BY <1>2 DEF Refreshed
<1> HIDE DEF tok, u
<1>5. sent' \in Call
  BY <1>1, <1>2 DEF Posted, Call, Token
<1>6. TypeOK'
  BY <1>1, <1>3, <1>4, <1>5, IdleType DEF IInv, TypeOK
<1>7. ConnectedHasToken'
  BY <1>1, <1>3, <1>4 DEF IInv, TypeOK, ConnectedHasToken
<1>8. \A x \in Tasks : TaskOK(task'[x], now')
  BY <1>4, IdleType DEF IInv, TypeOK
<1>9. \A x \in Users : TokenOK(tokens'[x])
  BY <1>1, <1>3, <1>4 DEF IInv, TypeOK
<1>10. CallsCarryLiveToken'
  BY <1>2, <1>4 DEF CallsCarryLiveToken, Posted
<1> QED BY <1>6, <1>7, <1>8, <1>9, <1>10 DEF IInv

LEMMA DisconnectOK ==
  ASSUME IInv, NEW k \in Tasks, NEW u \in Users, Disconnect(k, u)
  PROVE  IInv'
PROOF
<1>1. /\ tokens' = [tokens EXCEPT ![u] = None]
      /\ standing' = [standing EXCEPT ![u] = {}]
      /\ sent' = None /\ UNCHANGED <<now, issued, task, grants>>
  BY DEF Disconnect
<1>2. \/ entries[u] = None /\ entries' = entries
      \/ entries[u] # None /\ entries' = [entries EXCEPT ![u] = "disconnected"]
  BY DEF Disconnect, MarkDisconnected
<1>3. TypeOK'
  BY <1>1, <1>2 DEF IInv, TypeOK
<1>4. ConnectedHasToken'
  BY <1>1, <1>2 DEF IInv, TypeOK, ConnectedHasToken
<1>5. \A x \in Users : TokenOK(tokens'[x])
  BY <1>1 DEF IInv, TypeOK, TokenOK
<1>6. CallsCarryLiveToken' /\ \A x \in Tasks : TaskOK(task'[x], now')
  BY <1>1 DEF IInv, CallsCarryLiveToken
<1> QED BY <1>3, <1>4, <1>5, <1>6 DEF IInv

LEMMA RestartOK == IInv /\ Restart => IInv'
PROOF
<1> SUFFICES ASSUME IInv, Restart PROVE IInv'
  OBVIOUS
<1>1. grants' \in [Users -> Nat] /\ standing' \in [Users -> SUBSET Nat]
  BY BooksType DEF Restart
<1>2. TypeOK'
  BY <1>1, IdleType DEF Restart, IInv, TypeOK
<1>3. ConnectedHasToken'
  BY DEF Restart, ConnectedHasToken
<1>4. \A x \in Tasks : TaskOK(task'[x], now')
  BY IdleType DEF Restart, IInv, TypeOK
<1>5. (\A x \in Users : TokenOK(tokens'[x])) /\ CallsCarryLiveToken'
  BY DEF Restart, IInv, CallsCarryLiveToken
<1> QED BY <1>2, <1>3, <1>4, <1>5 DEF IInv

LEMMA TickOK == IInv /\ Tick => IInv'
PROOF
<1> SUFFICES ASSUME IInv, Tick PROVE IInv'
  OBVIOUS
<1>1. now \in Nat /\ now' = now + 1 /\ sent' = None
  BY DEF IInv, TypeOK, Tick
<1>2. TypeOK'
  BY <1>1 DEF IInv, TypeOK, Tick
<1>3. ConnectedHasToken'
  BY DEF Tick, IInv, ConnectedHasToken
<1>4. ASSUME NEW x \in Tasks PROVE TaskOK(task'[x], now')
  <2>1. task[x] # Idle => now < task[x].since + Delay
    BY DEF Tick
  <2>2. TaskOK(task[x], now) /\ task[x] \in Await /\ task' = task
    BY DEF Tick, IInv, TypeOK
  <2>3. task[x].kind # "idle" => task[x] # Idle
    BY DEF Idle
  <2> QED BY <1>1, <2>1, <2>2, <2>3 DEF TaskOK, Await
<1>5. (\A x \in Users : TokenOK(tokens'[x])) /\ CallsCarryLiveToken'
  BY <1>1 DEF Tick, IInv, CallsCarryLiveToken
<1> QED BY <1>2, <1>3, <1>4, <1>5 DEF IInv

LEMMA NextOK == IInv /\ [Next]_vars => IInv'
PROOF
<1> SUFFICES ASSUME IInv, [Next]_vars PROVE IInv'
  OBVIOUS
<1>1. ASSUME NEW k \in Tasks, NEW u \in Users, Request(k, u) PROVE IInv'
  BY <1>1, ConnectOK, CallbackOK, CreateEventOK, DisconnectOK DEF Request
<1>2. ASSUME NEW k \in Tasks, Exchanged(k) \/ Refreshed(k) \/ AwaitFails(k) PROVE IInv'
  BY <1>2, ExchangedOK, RefreshedOK, AwaitFailsOK
<1>3. CASE UNCHANGED vars
  BY <1>3, Zenon DEF vars, IInv, TypeOK, ConnectedHasToken, CallsCarryLiveToken
<1> QED BY <1>1, <1>2, <1>3, RestartOK, TickOK DEF Next

-----------------------------------------------------------------------------
(* However requests interleave.                                            *)

\* The inductive invariant holds.
THEOREM Invariance == Spec => []IInv
PROOF BY InitOK, NextOK, PTL DEF Spec

\* Every variable keeps its type; in particular no entry ever has the status error.
THEOREM TypeCorrect == Spec => []TypeOK
PROOF BY Invariance, PTL DEF IInv

\* The entries of ConnectionStore and the token database agree: a connected entry has a token.
THEOREM StoresAgree == Spec => []ConnectedHasToken
PROOF BY Invariance, PTL DEF IInv

\* If Google answers within the margin, calendar calls carry tokens it still accepts.
THEOREM CallsAreLive == Spec => []CallsCarryLiveToken
PROOF BY Invariance, PTL DEF IInv

\* save_token keeps the refresh_token that is stored.
LEMMA RefreshTokenKeptOK == IInv /\ [Next]_vars => [RefreshTokenKeptStep]_vars
PROOF
<1> SUFFICES ASSUME IInv, [Next]_vars, NEW x \in Users,
                    tokens[x] # None, tokens'[x] # None, tokens[x].refresh
             PROVE  tokens'[x].refresh
  BY DEF RefreshTokenKeptStep
<1>1. ASSUME tokens' = tokens PROVE tokens'[x].refresh
  BY <1>1
<1>2. ASSUME NEW u \in Users, NEW tok \in Token,
             tokens' = [tokens EXCEPT ![u] = Saved(u, tok)]
      PROVE  tokens'[x].refresh
  BY <1>2, SavedType DEF IInv, TypeOK
<1>3. ASSUME NEW k \in Tasks, Exchanged(k) PROVE tokens'[x].refresh
  BY <1>2, <1>3, ExchangedWrites
<1>4. ASSUME NEW k \in Tasks, Refreshed(k) PROVE tokens'[x].refresh
  BY <1>2, <1>4, RefreshedWrites
<1>5. ASSUME NEW k \in Tasks, NEW u \in Users, Disconnect(k, u) PROVE tokens'[x].refresh
  BY <1>5 DEF Disconnect, IInv, TypeOK
<1>6. ASSUME NEW k \in Tasks, NEW u \in Users, Request(k, u) PROVE tokens'[x].refresh
  BY <1>1, <1>5, <1>6 DEF Request, Connect, Callback, CreateEvent
<1>7. ASSUME NEW k \in Tasks, AwaitFails(k) PROVE tokens'[x].refresh
  BY <1>1, <1>7 DEF AwaitFails
<1>8. CASE Restart \/ Tick \/ UNCHANGED vars
  BY <1>1, <1>8 DEF Restart, Tick, vars
<1> QED BY <1>3, <1>4, <1>6, <1>7, <1>8 DEF Next

\* The refresh_token survives every exchange and refresh.
THEOREM RefreshTokenSurvives == Spec => RefreshTokenKept
PROOF BY Invariance, RefreshTokenKeptOK, PTL DEF Spec, RefreshTokenKept

-----------------------------------------------------------------------------
(* The history: consents are numbered, and no two exchanges are for one.   *)

Exchanging(k, u) == task[k].kind = "exchange" /\ task[k].user = u

Numbered ==
  \A u \in Users :
    /\ \A g \in standing[u] : g <= grants[u]
    /\ \A k \in Tasks : Exchanging(k, u) => task[k].grant <= grants[u]
    /\ \A j, k \in Tasks :
         Exchanging(j, u) /\ Exchanging(k, u) /\ task[j].grant = task[k].grant => j = k

\* A step leaves the user's consents in force, and no exchange without a consent that stands.
ForceKept(u) ==
  /\ InForce(u)' = InForce(u)
  /\ Exchanges(Tasks, u) \subseteq standing[u] => Exchanges(Tasks, u)' \subseteq standing'[u]

LEMMA NumberedInit == Init => Numbered
PROOF
<1> SUFFICES ASSUME Init PROVE Numbered
  OBVIOUS
<1>1. \A k \in Tasks : task[k].kind = "idle"
  BY DEF Init, Idle
<1>2. \A u \in Users : standing[u] = {}
  BY DEF Init
<1> QED BY <1>1, <1>2 DEF Numbered, Exchanging

LEMMA SameExchanges ==
  ASSUME NEW u,
         \A k \in Tasks : task[k].kind = "exchange" \/ task'[k].kind = "exchange" =>
                            task'[k] = task[k]
  PROVE  Exchanges(Tasks, u)' = Exchanges(Tasks, u)
PROOF BY DEF Exchanges

\* A step that begins and ends no exchange, gives no consent and withdraws none.
LEMMA QuietBooks ==
  ASSUME Numbered, UNCHANGED <<grants, standing>>,
         \A k \in Tasks : task[k].kind = "exchange" \/ task'[k].kind = "exchange" =>
                            task'[k] = task[k]
  PROVE  Numbered' /\ \A u \in Users : ForceKept(u)
PROOF
<1>1. Numbered'
  BY DEF Numbered, Exchanging
<1>2. ASSUME NEW u \in Users PROVE ForceKept(u)
  BY SameExchanges DEF ForceKept, InForce
<1> QED BY <1>1, <1>2

LEMMA CallbackBooks ==
  ASSUME IInv, Numbered, NEW k \in Tasks, NEW u \in Users, Callback(k, u)
  PROVE  Numbered' /\ \A x \in Users : ForceKept(x)
PROOF
<1> DEFINE n == grants[u] + 1
           t == [kind |-> "exchange", user |-> u, token |-> None, grant |-> n, since |-> now]
<1>1. /\ task[k].kind # "exchange" /\ task' = [task EXCEPT ![k] = t]
      /\ grants' = [grants EXCEPT ![u] = n]
      /\ standing' = [standing EXCEPT ![u] = standing[u] \cup {n}]
  BY DEF Callback, Idle
<1>2. t.kind = "exchange" /\ t.user = u /\ t.grant = n
  OBVIOUS
<1>3. n \in Nat /\ n > grants[u] /\ grants[u] \in Nat
  BY DEF IInv, TypeOK
<1> HIDE DEF t
<1>4. task'[k] = t /\ \A j \in Tasks : j # k => task'[j] = task[j]
  BY <1>1 DEF IInv, TypeOK
<1>5. /\ grants'[u] = n /\ standing'[u] = standing[u] \cup {n}
      /\ \A x \in Users : x # u => grants'[x] = grants[x] /\ standing'[x] = standing[x]
  <2> HIDE DEF n
  <2> QED BY <1>1 DEF IInv, TypeOK
<1>6. standing[u] \subseteq Nat /\ \A j \in Tasks : task[j].grant \in Nat
  BY DEF IInv, TypeOK, Await
<1>7. ASSUME NEW x \in Users, x # u
      PROVE  Exchanges(Tasks, x)' = Exchanges(Tasks, x)
  BY <1>1, <1>2, <1>4, <1>7 DEF Exchanges
<1>8. Exchanges(Tasks, u)' = Exchanges(Tasks, u) \cup {n}
  <2> HIDE DEF n
  <2> QED BY <1>1, <1>2, <1>4 DEF Exchanges
<1>9. Numbered'
  <2>1. ASSUME NEW x \in Users, NEW g \in standing'[x] PROVE g <= grants'[x]
    BY <1>3, <1>5, <1>6, <2>1 DEF Numbered
  <2>2. ASSUME NEW x \in Users, NEW j \in Tasks, Exchanging(j, x)'
        PROVE  task'[j].grant <= grants'[x]
    BY <1>2, <1>3, <1>4, <1>5, <1>6, <2>2 DEF Numbered, Exchanging
  <2>3. ASSUME NEW x \in Users, NEW i \in Tasks, NEW j \in Tasks, Exchanging(i, x)',
               Exchanging(j, x)', task'[i].grant = task'[j].grant
        PROVE  i = j
    <3>1. CASE i # k /\ j # k
      BY <1>4, <2>3, <3>1 DEF Numbered, Exchanging
    <3>2. ASSUME NEW h \in Tasks, h # k, Exchanging(h, x)' PROVE x = u => task'[h].grant < n
      BY <1>3, <1>4, <1>6, <3>2 DEF Numbered, Exchanging
    <3>3. Exchanging(k, x)' => x = u /\ task'[k].grant = n
      BY <1>2, <1>4 DEF Exchanging
    <3> HIDE DEF n
    <3> QED BY <1>3, <2>3, <3>1, <3>2, <3>3
  <2> QED BY <2>1, <2>2, <2>3 DEF Numbered
<1>10. n \notin standing[u]
  BY <1>3, <1>6 DEF Numbered
<1>11. ASSUME NEW x \in Users PROVE ForceKept(x)
  <2> HIDE DEF n
  <2> QED BY <1>5, <1>7, <1>8, <1>10 DEF ForceKept, InForce
<1> QED BY <1>9, <1>11

\* Exchanges that come to nothing take with them the consents they are for, and no others.
LEMMA LostBooks ==
  ASSUME IInv, Numbered, NEW K \in SUBSET Tasks, LoseConsents(K), UNCHANGED grants,
         \A k \in Tasks : IF k \in K THEN task'[k].kind # "exchange" ELSE task'[k] = task[k]
  PROVE  Numbered' /\ \A u \in Users : ForceKept(u)
PROOF
<1>1. ASSUME NEW u \in Users PROVE standing'[u] = standing[u] \ Exchanges(K, u)
  BY DEF LoseConsents
<1>2. Numbered'
  BY <1>1 DEF Numbered, Exchanging
<1>3. ASSUME NEW u \in Users PROVE ForceKept(u)
  <2>1. Exchanges(Tasks, u)' = Exchanges(Tasks \ K, u)
    BY DEF Exchanges
  <2>2. Exchanges(Tasks, u) = Exchanges(Tasks \ K, u) \cup Exchanges(K, u)
    BY DEF Exchanges
  <2>3. Exchanges(Tasks \ K, u) \cap Exchanges(K, u) = {}
    BY DEF Exchanges, Numbered, Exchanging
  <2> QED BY <1>1, <2>1, <2>2, <2>3 DEF ForceKept, InForce
<1> QED BY <1>2, <1>3

\* An answered exchange puts its consent in force, unless it has been withdrawn.
LEMMA ExchangedBooks ==
  ASSUME IInv, Numbered, NEW k \in Tasks, Exchanged(k), NEW u, u = task[k].user
  PROVE  /\ Numbered'
         /\ \A x \in Users : x # u => ForceKept(x)
         /\ InForce(u)' = InForce(u) \cup (standing[u] \cap {task[k].grant})
         /\ Exchanges(Tasks, u)' \subseteq Exchanges(Tasks, u) /\ standing' = standing
         /\ task[k].grant \in Exchanges(Tasks, u)
PROOF
<1>1. /\ task[k].kind = "exchange" /\ task'[k].kind = "idle" /\ UNCHANGED <<grants, standing>>
      /\ \A j \in Tasks : j # k => task'[j] = task[j]
  BY DEF Exchanged, Idle, IInv, TypeOK
<1>2. u \in Users
  BY ExchangedWrites
<1>3. Numbered'
  BY <1>1 DEF Numbered, Exchanging
<1>4. ASSUME NEW x \in Users, x # u PROVE ForceKept(x)
  <2>1. Exchanges(Tasks, x)' = Exchanges(Tasks, x)
    BY <1>1, <1>4 DEF Exchanges
  <2> QED BY <1>1, <2>1 DEF ForceKept, InForce
<1>5. task[k].grant \in Exchanges(Tasks, u)
  BY <1>1 DEF Exchanges
<1>6. Exchanges(Tasks, u)' = Exchanges(Tasks, u) \ {task[k].grant}
  BY <1>1, <1>2 DEF Exchanges, Numbered, Exchanging
<1>7. InForce(u)' = InForce(u) \cup (standing[u] \cap {task[k].grant})
  BY <1>1, <1>5, <1>6 DEF InForce
<1> QED BY <1>1, <1>3, <1>4, <1>5, <1>6, <1>7

LEMMA DisconnectBooks ==
  ASSUME IInv, Numbered, NEW k \in Tasks, NEW u \in Users, Disconnect(k, u)
  PROVE  /\ Numbered'
         /\ \A x \in Users : x # u => ForceKept(x)
         /\ InForce(u)' = {}
         /\ \A x \in Users : Exchanges(Tasks, x)' = Exchanges(Tasks, x)
PROOF
<1>1. UNCHANGED <<grants, task>> /\ standing' = [standing EXCEPT ![u] = {}]
  BY DEF Disconnect
<1>2. /\ standing'[u] = {}
      /\ \A x \in Users : x # u => standing'[x] = standing[x]
  BY <1>1 DEF IInv, TypeOK
<1>3. Numbered'
  BY <1>1, <1>2 DEF Numbered, Exchanging
<1>4. ASSUME NEW x \in Users PROVE Exchanges(Tasks, x)' = Exchanges(Tasks, x)
  BY <1>1 DEF Exchanges
<1> QED BY <1>2, <1>3, <1>4 DEF ForceKept, InForce

\* All other steps leave every user's consents in force.
LEMMA OtherBooks ==
  ASSUME IInv, Numbered, [Next]_vars, \A k \in Tasks : ~Exchanged(k),
         \A k \in Tasks, u \in Users : ~Disconnect(k, u)
  PROVE  Numbered' /\ \A x \in Users : ForceKept(x)
PROOF
<1>1. ASSUME NEW k \in Tasks, NEW u \in Users, Connect(k, u)
      PROVE  Numbered' /\ \A x \in Users : ForceKept(x)
  BY <1>1, QuietBooks DEF Connect
<1>2. ASSUME NEW k \in Tasks, NEW u \in Users, CreateEvent(k, u)
      PROVE  Numbered' /\ \A x \in Users : ForceKept(x)
  <2>1. \A j \in Tasks : task[j].kind = "exchange" \/ task'[j].kind = "exchange" =>
                           task'[j] = task[j]
    BY <1>2 DEF CreateEvent, Idle, IInv, TypeOK
  <2> QED BY <1>2, <2>1, QuietBooks DEF CreateEvent
<1>3. ASSUME NEW k \in Tasks, Refreshed(k)
      PROVE  Numbered' /\ \A x \in Users : ForceKept(x)
  <2>1. \A j \in Tasks : task[j].kind = "exchange" \/ task'[j].kind = "exchange" =>
                           task'[j] = task[j]
    BY <1>3 DEF Refreshed, Idle, IInv, TypeOK
  <2> QED BY <1>3, <2>1, QuietBooks DEF Refreshed
<1>4. ASSUME NEW k \in Tasks, AwaitFails(k)
      PROVE  Numbered' /\ \A x \in Users : ForceKept(x)
  <2>1. \A j \in Tasks : IF j \in {k} THEN task'[j].kind # "exchange" ELSE task'[j] = task[j]
    BY <1>4 DEF AwaitFails, Idle, IInv, TypeOK
  <2> QED BY <1>4, <2>1, LostBooks DEF AwaitFails
<1>5. CASE Restart
  <2>1. \A j \in Tasks : IF j \in Tasks THEN task'[j].kind # "exchange" ELSE task'[j] = task[j]
    BY <1>5 DEF Restart, Idle
  <2> QED BY <1>5, <2>1, LostBooks DEF Restart
<1>6. CASE Tick \/ UNCHANGED vars
  BY <1>6, QuietBooks DEF Tick, vars
<1> QED BY <1>1, <1>2, <1>3, <1>4, <1>5, <1>6, CallbackBooks DEF Next, Request

LEMMA NumberedNext == IInv /\ Numbered /\ [Next]_vars => Numbered'
PROOF BY ExchangedBooks, DisconnectBooks, OtherBooks

-----------------------------------------------------------------------------
(* What holds of the status however requests interleave.                   *)

\* Behind a consent in force there is a token, and no entry that says disconnected.
Backing ==
  \A u \in Users : InForce(u) # {} => tokens[u] # None /\ entries[u] # "disconnected"

LEMMA BackingNext == IInv /\ Numbered /\ Backing /\ [Next]_vars => Backing'
PROOF
<1> SUFFICES ASSUME IInv, Numbered, Backing, [Next]_vars PROVE Backing'
  OBVIOUS
<1> DEFINE Kept(x) == /\ tokens'[x] = tokens[x] \/ tokens'[x] # None
                      /\ entries'[x] \in {entries[x], None, "connected"}
<1>1. ASSUME NEW x \in Users, ForceKept(x), Kept(x)
      PROVE  InForce(x)' # {} => tokens'[x] # None /\ entries'[x] # "disconnected"
  BY <1>1 DEF Backing, ForceKept
<1>2. ASSUME NEW k \in Tasks, Exchanged(k) PROVE Backing'
  <2> DEFINE u == task[k].user
  <2>1. u \in Users /\ \E tok \in Token : tokens' = [tokens EXCEPT ![u] = tok]
    BY <1>2, ExchangedWrites, SavedType DEF IInv
  <2>2. entries' = [entries EXCEPT ![u] = "connected"]
    BY <1>2 DEF Exchanged
  <2>3. \A x \in Users : x # u => ForceKept(x)
    BY <1>2, ExchangedBooks
  <2> HIDE DEF u
  <2>4. tokens'[u] # None /\ entries'[u] = "connected"
    BY <2>1, <2>2 DEF IInv, TypeOK
  <2>5. \A x \in Users : x # u => Kept(x)
    BY <2>1, <2>2 DEF IInv, TypeOK
  <2> QED BY <1>1, <2>3, <2>4, <2>5 DEF Backing
<1>3. ASSUME NEW k \in Tasks, NEW u \in Users, Disconnect(k, u) PROVE Backing'
  <2>1. InForce(u)' = {} /\ \A x \in Users : x # u => ForceKept(x)
    BY <1>3, DisconnectBooks
  <2>2. \A x \in Users : x # u => Kept(x)
    BY <1>3 DEF Disconnect, MarkDisconnected, IInv, TypeOK
  <2> QED BY <1>1, <2>1, <2>2 DEF Backing
<1>4. CASE (\A k \in Tasks : ~Exchanged(k)) /\ \A k \in Tasks, u \in Users : ~Disconnect(k, u)
  <2>1. \A x \in Users : ForceKept(x)
    BY <1>4, OtherBooks
  <2>2. ASSUME NEW k \in Tasks, NEW u \in Users, Request(k, u) PROVE \A x \in Users : Kept(x)
    BY <1>4, <2>2 DEF Request, Connect, Callback, CreateEvent
  <2>3. ASSUME NEW k \in Tasks, Refreshed(k) PROVE \A x \in Users : Kept(x)
    <3> DEFINE u == task[k].user
    <3>1. u \in Users /\ \E tok \in Token : tokens' = [tokens EXCEPT ![u] = tok]
      BY <2>3, RefreshedWrites, SavedType DEF IInv
    <3> HIDE DEF u
    <3> QED BY <2>3, <3>1 DEF Refreshed, IInv, TypeOK
  <2>4. ASSUME NEW k \in Tasks, AwaitFails(k) PROVE \A x \in Users : Kept(x)
    BY <2>4 DEF AwaitFails
  <2>5. ASSUME Restart PROVE \A x \in Users : Kept(x)
    BY <2>5 DEF Restart
  <2>6. ASSUME Tick \/ UNCHANGED vars PROVE \A x \in Users : Kept(x)
    BY <2>6 DEF Tick, vars
  <2>7. \A x \in Users : Kept(x)
    <3> HIDE DEF Kept
    <3> QED BY <1>4, <2>2, <2>3, <2>4, <2>5, <2>6 DEF Next
  <2> QED BY <1>1, <2>1, <2>7 DEF Backing
<1> QED BY <1>2, <1>3, <1>4

LEMMA BackingInit == Init => Backing
PROOF BY DEF Init, Backing, InForce

\* The history keeps its numbers.
LEMMA History == Spec => [](IInv /\ Numbered)
PROOF BY Invariance, NumberedInit, NumberedNext, PTL DEF Spec

\* However requests interleave, who has consented is connected.
THEOREM ConsentIsShown == Spec => []ConsentShown
PROOF
<1>1. IInv /\ Backing => ConsentShown
  BY DEF IInv, TypeOK, Backing, ConsentShown, Status
<1> QED BY <1>1, History, BackingInit, BackingNext, PTL DEF Spec

-----------------------------------------------------------------------------
(* Which steps can make the status wrong.                                  *)

\* A step that leaves the user's consents, token and entry as they were, or loses the entry, and
\* begins no refresh without a consent.
LEMMA SettledKept ==
  ASSUME IInv, NEW x \in Users, Settled(x), ForceKept(x),
         tokens'[x] = None <=> tokens[x] = None, entries'[x] \in {entries[x], None},
         \A k \in Tasks : task'[k].kind = "refresh" /\ task'[k].user = x => InForce(x) # {}
  PROVE  Settled(x)'
PROOF
<1>1. InForce(x)' = InForce(x) /\ Exchanges(Tasks, x)' \subseteq standing'[x]
  BY DEF Settled, ForceKept
<1>2. tokens'[x] # None <=> InForce(x)' # {}
  BY <1>1 DEF Settled
<1>3. Status(x)' = "connected" <=> InForce(x)' # {}
  BY <1>1, <1>2 DEF Settled, Status
<1> QED BY <1>1, <1>2, <1>3 DEF Settled

\* A step that leaves the user's token and entry alone, and after which no coroutine refreshes
\* that did not before.
LEMMA SettledQuiet ==
  ASSUME IInv, NEW x \in Users, Settled(x), ForceKept(x), UNCHANGED <<tokens, entries>>,
         \A k \in Tasks : task'[k].kind = "refresh" => task'[k] = task[k]
  PROVE  Settled(x)'
PROOF
<1>1. \A k \in Tasks : task'[k].kind = "refresh" /\ task'[k].user = x => InForce(x) # {}
  BY DEF Settled
<1> QED BY <1>1, SettledKept

\* What a disconnect does to a user for whom nothing is awaited.
LEMMA DisconnectSettles ==
  ASSUME IInv, Numbered, NEW k \in Tasks, NEW x \in Users, Disconnect(k, x), ~Awaited(x)
  PROVE  Settled(x)'
PROOF
<1>1. tokens'[x] = None /\ entries'[x] # "connected"
  BY DEF Disconnect, MarkDisconnected, IInv, TypeOK
<1>2. InForce(x)' = {} /\ Exchanges(Tasks, x)' = Exchanges(Tasks, x)
  BY DisconnectBooks
<1>3. Exchanges(Tasks, x) = {}
  BY DEF Exchanges, Awaited
<1>4. \A j \in Tasks : ~(task'[j].kind = "refresh" /\ task'[j].user = x)
  BY DEF Disconnect, Awaited
<1>5. Status(x)' # "connected"
  BY <1>1 DEF Status
<1> QED BY <1>1, <1>2, <1>3, <1>4, <1>5 DEF Settled

\* An answered exchange settles the user, whose consent still stood, and disturbs no other.
LEMMA ExchangedSettles ==
  ASSUME IInv, Numbered, NEW k \in Tasks, Exchanged(k), NEW x \in Users, Settled(x)
  PROVE  Settled(x)'
PROOF
<1>1. PICK u \in Users : u = task[k].user
  BY ExchangedWrites
<1>2. \E tok \in Token : tokens' = [tokens EXCEPT ![u] = tok]
  BY <1>1, ExchangedWrites, SavedType DEF IInv
<1>3. entries' = [entries EXCEPT ![u] = "connected"]
  BY <1>1 DEF Exchanged
<1>4. \A j \in Tasks : task'[j].kind = "refresh" => task'[j] = task[j]
  BY DEF Exchanged, Idle, IInv, TypeOK
<1>5. /\ x # u => ForceKept(x)
      /\ InForce(u)' = InForce(u) \cup (standing[u] \cap {task[k].grant})
      /\ Exchanges(Tasks, u)' \subseteq Exchanges(Tasks, u) /\ standing' = standing
      /\ task[k].grant \in Exchanges(Tasks, u)
  BY <1>1, ExchangedBooks
<1>6. CASE x # u
  <2>1. \A j \in Tasks : task'[j].kind = "refresh" /\ task'[j].user = x => InForce(x) # {}
    BY <1>4 DEF Settled
  <2>2. tokens'[x] = tokens[x] /\ entries'[x] = entries[x]
    BY <1>2, <1>3, <1>6 DEF IInv, TypeOK
  <2> QED BY <1>5, <1>6, <2>1, <2>2, SettledKept
<1>7. CASE x = u
  <2>1. InForce(x)' # {} /\ Exchanges(Tasks, x)' \subseteq standing'[x]
    BY <1>5, <1>7 DEF Settled
  <2>2. tokens'[x] # None /\ entries'[x] = "connected"
    BY <1>2, <1>3, <1>7 DEF IInv, TypeOK
  <2>3. Status(x)' = "connected"
    BY <2>2, NoneAssumption DEF Status
  <2> QED BY <2>1, <2>2, <2>3 DEF Settled
<1> QED BY <1>6, <1>7

LEMMA StatusStaysTrueNext == IInv /\ Numbered /\ [Next]_vars => [StatusStaysTrueStep]_vars
PROOF
<1> SUFFICES ASSUME IInv, Numbered, Next, NEW x \in Users
             PROVE  /\ Settled(x) /\ ~DisconnectStep(x) => Settled(x)'
                    /\ DisconnectStep(x) /\ ~Awaited(x) => Settled(x)'
  BY DEF StatusStaysTrueStep
<1>1. DisconnectStep(x) /\ ~Awaited(x) => Settled(x)'
  BY DisconnectSettles DEF DisconnectStep
<1>2. ASSUME Settled(x), ~DisconnectStep(x) PROVE Settled(x)'
  <2>1. ASSUME NEW k \in Tasks, NEW u \in Users, Disconnect(k, u) PROVE Settled(x)'
    <3>1. x # u
      BY <1>2, <2>1 DEF DisconnectStep
    <3>2. tokens'[x] = tokens[x] /\ entries'[x] = entries[x] /\ task' = task
      BY <2>1, <3>1 DEF Disconnect, MarkDisconnected, IInv, TypeOK
    <3>3. \A j \in Tasks : task'[j].kind = "refresh" /\ task'[j].user = x => InForce(x) # {}
      BY <1>2, <3>2 DEF Settled
    <3>4. ForceKept(x)
      BY <2>1, <3>1, DisconnectBooks
    <3> QED BY <1>2, <3>2, <3>3, <3>4, SettledKept
  <2>2. ASSUME NEW k \in Tasks, Exchanged(k) PROVE Settled(x)'
    BY <1>2, <2>2, ExchangedSettles
  <2>3. CASE (\A k \in Tasks : ~Exchanged(k)) /\ \A k \in Tasks, u \in Users : ~Disconnect(k, u)
    <3>1. ForceKept(x)
      BY <2>3, OtherBooks
    <3>2. ASSUME NEW k \in Tasks, NEW u \in Users, Connect(k, u) PROVE Settled(x)'
      BY <1>2, <3>1, <3>2, SettledQuiet DEF Connect
    <3>3. ASSUME NEW k \in Tasks, NEW u \in Users, Callback(k, u) PROVE Settled(x)'
      <4>1. \A j \in Tasks : task'[j].kind = "refresh" => task'[j] = task[j]
        BY <3>3 DEF Callback, IInv, TypeOK
      <4> QED BY <1>2, <3>1, <3>3, <4>1, SettledQuiet DEF Callback
    <3>4. ASSUME NEW k \in Tasks, NEW u \in Users, CreateEvent(k, u) PROVE Settled(x)'
      <4>1. \A j \in Tasks : task'[j].kind = "refresh" =>
              task'[j] = task[j] \/ (task'[j].user = u /\ tokens[u] # None)
        BY <3>4 DEF CreateEvent, IInv, TypeOK
      <4>2. \A j \in Tasks : task'[j].kind = "refresh" /\ task'[j].user = x => InForce(x) # {}
        BY <1>2, <4>1 DEF Settled
      <4> QED BY <1>2, <3>1, <3>4, <4>2, SettledKept DEF CreateEvent
    <3>5. ASSUME NEW k \in Tasks, Refreshed(k) PROVE Settled(x)'
      <4> DEFINE u == task[k].user
      <4>1. u \in Users /\ \E tok \in Token : tokens' = [tokens EXCEPT ![u] = tok]
        BY <3>5, RefreshedWrites, SavedType DEF IInv
      <4>2. \A j \in Tasks : task'[j].kind = "refresh" /\ task'[j].user = x => InForce(x) # {}
        BY <1>2, <3>5 DEF Refreshed, Idle, Settled, IInv, TypeOK
      <4>3. x = u => tokens[x] # None
        BY <1>2, <3>5 DEF Refreshed, Settled
      <4> HIDE DEF u
      <4>4. tokens'[x] = None <=> tokens[x] = None
        BY <4>1, <4>3 DEF IInv, TypeOK
      <4> QED BY <1>2, <3>1, <3>5, <4>2, <4>4, SettledKept DEF Refreshed
    <3>6. ASSUME NEW k \in Tasks, AwaitFails(k) PROVE Settled(x)'
      <4>1. \A j \in Tasks : task'[j].kind = "refresh" => task'[j] = task[j]
        BY <3>6 DEF AwaitFails, Idle, IInv, TypeOK
      <4> QED BY <1>2, <3>1, <3>6, <4>1, SettledQuiet DEF AwaitFails
    <3>7. CASE Restart
      <4>1. \A j \in Tasks : task'[j].kind # "refresh"
        BY <3>7 DEF Restart, Idle
      <4>2. entries'[x] = None /\ tokens' = tokens
        BY <3>7 DEF Restart
      <4> QED BY <1>2, <3>1, <4>1, <4>2, SettledKept
    <3>8. CASE Tick
      BY <1>2, <3>1, <3>8, SettledQuiet DEF Tick
    <3> QED BY <2>3, <3>2, <3>3, <3>4, <3>5, <3>6, <3>7, <3>8 DEF Next, Request
  <2> QED BY <2>1, <2>2, <2>3
<1> QED BY <1>1, <1>2

\* However requests, failures and restarts interleave, only a disconnect during an awaited call of
\* Google can make the status wrong, and any other disconnect leaves it right.
THEOREM OnlyDisconnectsUnsettle == Spec => StatusStaysTrue
PROOF BY History, StatusStaysTrueNext, PTL DEF Spec, StatusStaysTrue

-----------------------------------------------------------------------------
(* One request at a time, which the code does not enforce:                 *)
(* GoogleResurrected.cfg shows the status goes wrong without it.           *)

\* There is one coroutine.
Serial == \A j, k \in Tasks : j = k

\* Every user is settled, with the token of the latest consent in force; an exchange under way is
\* for the latest consent, and a refresh under way was begun with the token that is stored.
SInv ==
  /\ \A u \in Users : Settled(u)
  /\ LatestGrantStored
  /\ \A k \in Tasks : task[k].kind = "exchange" => task[k].grant = grants[task[k].user]
  /\ \A k \in Tasks : task[k].kind = "refresh" => task[k].token.grant = tokens[task[k].user].grant

LEMMA SerialInit == Init => SInv
PROOF
<1> SUFFICES ASSUME Init PROVE SInv
  OBVIOUS
<1>1. \A k \in Tasks : task[k].kind = "idle"
  BY DEF Init, Idle
<1>2. \A u \in Users : InForce(u) = {} /\ Exchanges(Tasks, u) = {}
  BY <1>1 DEF Init, InForce, Exchanges
<1>3. \A u \in Users : tokens[u] = None /\ Status(u) = "disconnected"
  BY DEF Init, Status
<1> QED BY <1>1, <1>2, <1>3 DEF SInv, LatestGrantStored, Settled

\* Without concurrent requests a disconnect overlaps no awaited answer.
LEMMA SerialSettled ==
  ASSUME Serial, IInv, Numbered, Next, \A u \in Users : Settled(u)
  PROVE  \A u \in Users : Settled(u)'
PROOF
<1> SUFFICES ASSUME NEW u \in Users PROVE Settled(u)'
  OBVIOUS
<1>1. DisconnectStep(u) => ~Awaited(u)
  BY DEF DisconnectStep, Disconnect, Awaited, Serial, Idle
<1>2. CASE UNCHANGED vars
  <2>1. tokens' = tokens /\ entries' = entries /\ task' = task /\ standing' = standing
    BY <1>2 DEF vars
  <2> QED BY <2>1 DEF Settled, Status, InForce, Exchanges
<1>3. CASE StatusStaysTrueStep
  BY <1>1, <1>3 DEF StatusStaysTrueStep
<1> QED BY <1>2, <1>3, StatusStaysTrueNext

\* The latest of the consents in force is still the one whose token is stored.
LEMMA LatestKept ==
  ASSUME LatestGrantStored, \A u \in Users : ForceKept(u),
         \A u \in Users : \/ tokens'[u] = tokens[u]
                          \/ /\ tokens[u] # None /\ tokens'[u] # None
                             /\ tokens'[u].grant = tokens[u].grant
  PROVE  LatestGrantStored'
PROOF BY DEF LatestGrantStored, ForceKept

LEMMA SerialNext == Serial /\ IInv /\ Numbered /\ SInv /\ [Next]_vars => SInv'
PROOF
<1> SUFFICES ASSUME Serial, IInv, Numbered, SInv, Next PROVE SInv'
  <2> SUFFICES ASSUME SInv, UNCHANGED vars PROVE SInv'
    OBVIOUS
  <2>1. tokens' = tokens /\ entries' = entries /\ task' = task /\ grants' = grants
        /\ standing' = standing
    BY DEF vars
  <2> QED BY <2>1 DEF SInv, LatestGrantStored, Settled, Status, InForce, Exchanges
<1> DEFINE NewestExchange == \A k \in Tasks : task[k].kind = "exchange" =>
                               task[k].grant = grants[task[k].user]
           StoredRefresh == \A k \in Tasks : task[k].kind = "refresh" =>
                              task[k].token.grant = tokens[task[k].user].grant
<1>1. (\A u \in Users : Settled(u)) /\ LatestGrantStored /\ NewestExchange /\ StoredRefresh
  BY DEF SInv
<1>2. \A u \in Users : Settled(u)'
  BY <1>1, SerialSettled
<1> SUFFICES LatestGrantStored' /\ NewestExchange' /\ StoredRefresh'
  BY <1>2 DEF SInv
<1>3. ASSUME NEW k \in Tasks, Exchanged(k)
      PROVE  LatestGrantStored' /\ NewestExchange' /\ StoredRefresh'
  <2>1. \A j \in Tasks : task'[j].kind = "idle"
    BY <1>3 DEF Exchanged, Serial, Idle, IInv, TypeOK
  <2>2. PICK u \in Users : u = task[k].user
    BY <1>3, ExchangedWrites
  <2>3. PICK tok \in Token : tok.grant = task[k].grant /\ tokens' = [tokens EXCEPT ![u] = tok]
    BY <1>3, <2>2, ExchangedWrites, SavedType DEF IInv
  <2>4. task[k].grant = grants[u]
    BY <1>1, <1>3, <2>2 DEF Exchanged
  <2>5. /\ InForce(u)' = InForce(u) \cup (standing[u] \cap {task[k].grant})
        /\ task[k].grant \in Exchanges(Tasks, u) /\ \A x \in Users : x # u => ForceKept(x)
    BY <1>3, <2>2, ExchangedBooks
  <2>6. ASSUME NEW x \in Users, x # u
        PROVE  /\ tokens'[x] = tokens[x] /\ InForce(x)' = InForce(x)
    BY <2>3, <2>5, <2>6 DEF ForceKept, IInv, TypeOK
  <2>7. tokens'[u].grant = grants[u]
    BY <2>3, <2>4 DEF IInv, TypeOK
  <2>8. grants[u] \in InForce(u)'
    BY <1>1, <2>4, <2>5 DEF Settled
  <2>9. \A g \in InForce(u)' : g <= grants[u]
    <3>1. grants[u] \in Nat /\ \A g \in standing[u] : g <= grants[u]
      BY DEF Numbered, IInv, TypeOK
    <3> QED BY <2>5, <3>1 DEF InForce
  <2>10. LatestGrantStored'
    BY <1>1, <2>6, <2>7, <2>8, <2>9 DEF LatestGrantStored
  <2> QED BY <2>1, <2>10
<1>4. ASSUME NEW k \in Tasks, NEW u \in Users, Disconnect(k, u)
      PROVE  LatestGrantStored' /\ NewestExchange' /\ StoredRefresh'
  <2>1. \A j \in Tasks : task'[j].kind = "idle"
    BY <1>4 DEF Disconnect, Serial, Idle
  <2>2. \A x \in Users : x # u => ForceKept(x)
    BY <1>4, DisconnectBooks
  <2>3. tokens'[u] = None /\ \A x \in Users : x # u => tokens'[x] = tokens[x]
    BY <1>4 DEF Disconnect, IInv, TypeOK
  <2> QED BY <1>1, <2>1, <2>2, <2>3 DEF LatestGrantStored, ForceKept
<1>5. CASE (\A k \in Tasks : ~Exchanged(k)) /\ \A k \in Tasks, u \in Users : ~Disconnect(k, u)
  <2>1. \A x \in Users : ForceKept(x)
    BY <1>5, OtherBooks
  <2>2. ASSUME tokens' = tokens, grants' = grants,
               \A k \in Tasks : task'[k] = task[k] \/ task'[k].kind = "idle"
        PROVE  LatestGrantStored' /\ NewestExchange' /\ StoredRefresh'
    BY <1>1, <2>1, <2>2, LatestKept
  <2>3. ASSUME NEW k \in Tasks, NEW u \in Users, Connect(k, u)
        PROVE  LatestGrantStored' /\ NewestExchange' /\ StoredRefresh'
    BY <2>2, <2>3 DEF Connect
  <2>4. ASSUME NEW k \in Tasks, NEW u \in Users, Callback(k, u)
        PROVE  LatestGrantStored' /\ NewestExchange' /\ StoredRefresh'
    <3>1. /\ task'[k].kind = "exchange" /\ task'[k].user = u
          /\ task'[k].grant = grants[u] + 1 /\ grants'[u] = grants[u] + 1
      BY <2>4 DEF Callback, IInv, TypeOK
    <3>2. \A j \in Tasks : j = k
      BY DEF Serial
    <3>3. LatestGrantStored'
      BY <1>1, <2>1, <2>4, LatestKept DEF Callback
    <3> QED BY <3>1, <3>2, <3>3
  <2>5. ASSUME NEW k \in Tasks, NEW u \in Users, CreateEvent(k, u)
        PROVE  LatestGrantStored' /\ NewestExchange' /\ StoredRefresh'
    <3>1. UNCHANGED <<tokens, grants>>
      BY <2>5 DEF CreateEvent
    <3>2. CASE UNCHANGED task
      BY <2>2, <3>1, <3>2
    <3>3. CASE task'[k].kind = "refresh" /\ task'[k].user = u /\ task'[k].token = tokens[u]
      <4>1. \A j \in Tasks : j = k
        BY DEF Serial
      <4>2. LatestGrantStored'
        BY <1>1, <2>1, <3>1, LatestKept
      <4> QED BY <3>1, <3>3, <4>1, <4>2
    <3>4. UNCHANGED task \/
          (task'[k].kind = "refresh" /\ task'[k].user = u /\ task'[k].token = tokens[u])
      BY <2>5 DEF CreateEvent, IInv, TypeOK
    <3> QED BY <3>2, <3>3, <3>4
  <2>6. ASSUME NEW k \in Tasks, Refreshed(k)
        PROVE  LatestGrantStored' /\ NewestExchange' /\ StoredRefresh'
    <3>1. \A j \in Tasks : task'[j].kind = "idle"
      BY <2>6 DEF Refreshed, Serial, Idle, IInv, TypeOK
    <3>2. PICK u \in Users : u = task[k].user
      BY <2>6, RefreshedWrites
    <3>3. PICK tok \in Token :
            tok.grant = task[k].token.grant /\ tokens' = [tokens EXCEPT ![u] = tok]
      BY <2>6, <3>2, RefreshedWrites, SavedType DEF IInv
    <3>4. tokens[u] # None /\ tok.grant = tokens[u].grant
      BY <1>1, <2>6, <3>2, <3>3 DEF Refreshed, Settled
    <3>5. tokens'[u] = tok /\ \A x \in Users : x # u => tokens'[x] = tokens[x]
      BY <3>3 DEF IInv, TypeOK
    <3>6. LatestGrantStored'
      BY <1>1, <2>1, <3>4, <3>5, LatestKept
    <3> QED BY <3>1, <3>6
  <2>7. ASSUME NEW k \in Tasks, AwaitFails(k)
        PROVE  LatestGrantStored' /\ NewestExchange' /\ StoredRefresh'
    <3>1. \A j \in Tasks : task'[j] = task[j] \/ task'[j].kind = "idle"
      BY <2>7 DEF AwaitFails, Idle, IInv, TypeOK
    <3> QED BY <2>2, <2>7, <3>1 DEF AwaitFails
  <2>8. CASE Restart
    <3>1. \A j \in Tasks : task'[j].kind = "idle"
      BY <2>8 DEF Restart, Idle
    <3> QED BY <2>2, <2>8, <3>1 DEF Restart
  <2>9. CASE Tick
    BY <2>2, <2>9 DEF Tick
  <2> HIDE DEF NewestExchange, StoredRefresh
  <2> QED BY <1>5, <2>3, <2>4, <2>5, <2>6, <2>7, <2>8, <2>9 DEF Next, Request
<1> QED BY <1>3, <1>4, <1>5

LEMMA SerialInvariance == ASSUME Serial PROVE Spec => []SInv
PROOF BY History, SerialInit, SerialNext, PTL DEF Spec

\* The status, restarts included, tells whether the user's consent stands.
THEOREM SerialStatusTellsConsent ==
  ASSUME Serial PROVE Spec => []StatusTellsConsent
PROOF
<1>1. SInv => StatusTellsConsent
  BY DEF SInv, Settled, StatusTellsConsent
<1> QED BY <1>1, SerialInvariance, PTL

\* The stored token comes from the latest consent that stands.
THEOREM SerialLatestGrant ==
  ASSUME Serial PROVE Spec => []LatestGrantStored
PROOF
<1>1. SInv => LatestGrantStored
  BY DEF SInv
<1> QED BY <1>1, SerialInvariance, PTL

=============================================================================
