-------------------------- MODULE GoogleConnection --------------------------
(***************************************************************************)
(* A user's Google connection: the consent flow and the token refresh      *)
(* (src/app/integrations/google_oauth), the connection entries             *)
(* (src/app/integrations/connections), the token database                  *)
(* (src/oauth_runtime) and the calendar calls that use the token           *)
(* (src/app/integrations/google_calendar, reached through n8n).            *)
(*                                                                         *)
(* All these handlers are coroutines of one event loop, which switches     *)
(* between them only where one awaits an answer of Google.  A step of this *)
(* model is the code between two such points.  The entries live in memory  *)
(* and are lost when the process restarts; the tokens and the signed       *)
(* states are not.                                                         *)
(***************************************************************************)
EXTENDS Naturals

CONSTANTS
  Users,        \* user ids
  Tasks,        \* coroutines that serve requests
  Life,         \* expires_in: how long an access token works
  Margin,       \* refresh this long before the token expires (60 s)
  Delay,        \* an awaited call of Google ends within it (timeout 20 s)
  StateLife,    \* OAUTH_STATE_EXPIRY_SECONDS
  MaxTime,      \* bound on the clock
  MaxGrants,    \* bound on the consents a user gives
  None          \* no token, no entry, no expiry, no call

ASSUME ClockAssumption ==
  /\ {Life, Margin, Delay, StateLife, MaxTime, MaxGrants} \subseteq Nat
  /\ Delay <= Margin /\ Delay < Life

VARIABLES
  now,          \* the clock
  issued,       \* expiry of the latest signed state made for a user; earlier ones lapse earlier
  tokens,       \* google_oauth_tokens: user -> token
  entries,      \* ConnectionStore: user -> status of the connection
  task,         \* what each coroutine awaits, with its local variables
  sent,         \* the calendar call the last step made
  grants,       \* history: how many consents the user has given; they are numbered from 1
  standing      \* history: the consents no disconnect has withdrawn and no failed exchange lost

vars == <<now, issued, tokens, entries, task, sent, grants, standing>>

Token == [grant : Nat,              \* the consent it comes from
          refresh : BOOLEAN,        \* has a refresh_token
          expires : Nat \cup {None},\* expires_at, if Google sent expires_in
          ends : Nat]               \* when Google stops accepting the access token

Await == [kind : {"idle", "exchange", "refresh"}, user : Users \cup {None},
          token : Token \cup {None}, grant : Nat, since : Nat]

ASSUME NoneAssumption ==
  None \notin Nat /\ None \notin Token /\ None \notin {"connected", "disconnected"}

Call == [user : Users, expires : Nat \cup {None}, ends : Nat]

TypeOK ==
  /\ now \in Nat
  /\ issued \in [Users -> Nat \cup {None}]
  /\ tokens \in [Users -> Token \cup {None}]
  /\ entries \in [Users -> {"connected", "disconnected", None}]
  /\ task \in [Tasks -> Await]
  /\ sent \in Call \cup {None}
  /\ grants \in [Users -> Nat]
  /\ standing \in [Users -> SUBSET Nat]

Idle == [kind |-> "idle", user |-> None, token |-> None, grant |-> 0, since |-> 0]

-----------------------------------------------------------------------------
StatusByEntry(u) ==    \* mutant: a user without an entry is not looked up
  IF entries[u] # None THEN entries[u] ELSE "disconnected"

\* status: the entry's if there is one, else whether a token is stored.
Status(u) ==
  IF entries[u] # None THEN entries[u]
  ELSE IF tokens[u] # None THEN "connected" ELSE "disconnected"

StaleAtExpiry(tok) == tok.expires # None /\ tok.expires < now    \* mutant: no margin

Stale(tok) == tok.expires # None /\ tok.expires <= now + Margin

SavedAsReceived(u, tok) == tok    \* mutant: the stored refresh_token is dropped

\* What save_token writes: a token without refresh_token keeps the stored one.
Saved(u, tok) ==
  [tok EXCEPT !.refresh = @ \/ (tokens[u] # None /\ tokens[u].refresh)]

\* An access token Google issued at time i and the code received now.
Received(grant, refresh, told, i) ==
  [grant |-> grant, refresh |-> refresh,
   expires |-> IF told THEN now + Life ELSE None, ends |-> i + Life]

MarkDisconnectedMissing(u) == entries    \* mutant: only the token is deleted

\* disconnect marks an entry that exists; it makes none.
MarkDisconnected(u) ==
  IF entries[u] = None THEN entries ELSE [entries EXCEPT ![u] = "disconnected"]

\* The POST to the calendar, made in the step that obtained the token.
Posted(u, tok) == [user |-> u, expires |-> tok.expires, ends |-> tok.ends]

-----------------------------------------------------------------------------
(* History: the consents of a user.                                        *)

\* The consents of the user whose exchange the coroutines in K await.
Exchanges(K, u) ==
  {task[k].grant : k \in {j \in K : task[j].kind = "exchange" /\ task[j].user = u}}

\* The exchanges the coroutines in K await come to nothing, and their users are told so.
LoseConsents(K) ==
  standing' = [u \in Users |-> standing[u] \ Exchanges(K, u)]

\* The consents of the user that stand and whose exchange has been answered.
InForce(u) == standing[u] \ Exchanges(Tasks, u)

-----------------------------------------------------------------------------
\* GET /connect: build_authorization_url signs a state for the user.
Connect(k, u) ==
  /\ task[k] = Idle
  /\ issued' = [issued EXCEPT ![u] = now + StateLife]
  /\ sent' = None
  /\ UNCHANGED <<now, tokens, entries, task, grants, standing>>

\* GET /callback up to the awaited exchange of the code: the user has consented, and the
\* state must not have expired.
Callback(k, u) ==
  /\ task[k] = Idle
  /\ issued[u] # None /\ issued[u] >= now
  /\ grants' = [grants EXCEPT ![u] = @ + 1]
  /\ standing' = [standing EXCEPT ![u] = @ \cup {grants[u] + 1}]
  /\ task' = [task EXCEPT ![k] = [kind |-> "exchange", user |-> u, token |-> None,
                                  grant |-> grants[u] + 1, since |-> now]]
  /\ sent' = None
  /\ UNCHANGED <<now, issued, tokens, entries>>

\* Google answers the exchange: save_token, then the entry is marked connected.
Exchanged(k) ==
  /\ task[k].kind = "exchange"
  /\ LET u == task[k].user IN
       /\ \E refresh, told \in BOOLEAN, i \in task[k].since..now :
            tokens' = [tokens EXCEPT ![u] =
                         Saved(u, Received(task[k].grant, refresh, told, i))]
       /\ entries' = [entries EXCEPT ![u] = "connected"]
  /\ task' = [task EXCEPT ![k] = Idle]
  /\ sent' = None
  /\ UNCHANGED <<now, issued, grants, standing>>

\* POST /integrations/n8n/execute with a calendar event: status, then get_valid_access_token
\* and the call, or an error, or the awaited refresh.
CreateEvent(k, u) ==
  /\ task[k] = Idle
  /\ UNCHANGED <<now, issued, tokens, entries, grants, standing>>
  /\ IF Status(u) # "connected" \/ tokens[u] = None
       THEN sent' = None /\ UNCHANGED task
     ELSE IF ~Stale(tokens[u])
       THEN sent' = Posted(u, tokens[u]) /\ UNCHANGED task
     ELSE IF ~tokens[u].refresh
       THEN sent' = None /\ UNCHANGED task
     ELSE /\ sent' = None
          /\ task' = [task EXCEPT ![k] = [kind |-> "refresh", user |-> u,
                                          token |-> tokens[u], grant |-> 0, since |-> now]]

\* Google answers the refresh: the answer is merged into the token read before the await,
\* the result is saved, and the calendar call made with it.
Refreshed(k) ==
  /\ task[k].kind = "refresh"
  /\ \E i \in task[k].since..now :
       LET u   == task[k].user
           tok == Received(task[k].token.grant, TRUE, TRUE, i)
       IN  /\ tokens' = [tokens EXCEPT ![u] = Saved(u, tok)]
           /\ sent' = Posted(u, tok)
  /\ task' = [task EXCEPT ![k] = Idle]
  /\ UNCHANGED <<now, issued, entries, grants, standing>>

AwaitFailsDropsToken(k) ==    \* mutant: a failed refresh deletes the token
  /\ task[k] # Idle
  /\ tokens' = [tokens EXCEPT ![task[k].user] = None]
  /\ LoseConsents({k})
  /\ task' = [task EXCEPT ![k] = Idle]
  /\ sent' = None
  /\ UNCHANGED <<now, issued, entries, grants>>

\* The awaited call fails, times out or brings no access_token, or save_token raises.
AwaitFails(k) ==
  /\ task[k] # Idle
  /\ LoseConsents({k})
  /\ task' = [task EXCEPT ![k] = Idle]
  /\ sent' = None
  /\ UNCHANGED <<now, issued, tokens, entries, grants>>

\* DELETE /disconnect.
Disconnect(k, u) ==
  /\ task[k] = Idle
  /\ tokens' = [tokens EXCEPT ![u] = None]
  /\ entries' = MarkDisconnected(u)
  /\ standing' = [standing EXCEPT ![u] = {}]
  /\ sent' = None
  /\ UNCHANGED <<now, issued, task, grants>>

\* The process stops and starts again.  A crash between save_token and mark_connected, or
\* between delete_token and mark_disconnected, leaves what the whole handler and a restart do.
Restart ==
  /\ entries' = [u \in Users |-> None]
  /\ LoseConsents(Tasks)
  /\ task' = [k \in Tasks |-> Idle]
  /\ sent' = None
  /\ UNCHANGED <<now, issued, tokens, grants>>

\* Time passes, but no await outlives Delay.
Tick ==
  /\ \A k \in Tasks : task[k] # Idle => now < task[k].since + Delay
  /\ now' = now + 1
  /\ sent' = None
  /\ UNCHANGED <<issued, tokens, entries, task, grants, standing>>

-----------------------------------------------------------------------------
Init ==
  /\ now = 0
  /\ issued = [u \in Users |-> None]
  /\ tokens = [u \in Users |-> None]
  /\ entries = [u \in Users |-> None]
  /\ task = [k \in Tasks |-> Idle]
  /\ sent = None
  /\ grants = [u \in Users |-> 0]
  /\ standing = [u \in Users |-> {}]

Request(k, u) ==
  \/ Connect(k, u)
  \/ grants[u] < MaxGrants /\ Callback(k, u)
  \/ CreateEvent(k, u)
  \/ Disconnect(k, u)

Next ==
  \/ \E k \in Tasks :
       \/ \E u \in Users : Request(k, u)
       \/ Exchanged(k)
       \/ Refreshed(k)
       \/ AwaitFails(k)
  \/ Restart
  \/ now < MaxTime /\ Tick

Spec == Init /\ [][Next]_vars

-----------------------------------------------------------------------------
(* Safety, however the requests interleave.                                *)

\* An entry says connected only while the token database holds a token for the user:
\* the two stores, changed by different modules, agree in that direction.
ConnectedHasToken ==
  \A u \in Users : entries[u] = "connected" => tokens[u] # None

\* A user whose consent stands is shown as connected, whatever else is under way, fails or is
\* lost with a restart: nobody who has consented has to consent again.
ConsentShown == \A u \in Users : InForce(u) # {} => Status(u) = "connected"

\* An answer of Google is awaited on behalf of the user.
Awaited(u) == \E k \in Tasks : task[k].kind # "idle" /\ task[k].user = u

\* Database and status tell whether the user's consent stands, and what is awaited for the user,
\* once it is answered, will leave it so.
Settled(u) ==
  /\ tokens[u] # None <=> InForce(u) # {}
  /\ Status(u) = "connected" <=> InForce(u) # {}
  /\ Exchanges(Tasks, u) \subseteq standing[u]
  /\ \A k \in Tasks : task[k].kind = "refresh" /\ task[k].user = u => InForce(u) # {}

DisconnectStep(u) == \E k \in Tasks : Disconnect(k, u)

\* Nothing but a disconnect that overlaps an awaited answer sets the user up for a wrong status:
\* no consent, refresh, failure or restart does, and a disconnect that overlaps none ends with
\* everything right, whatever was wrong before.
StatusStaysTrueStep ==
  \A u \in Users :
    /\ Settled(u) /\ ~Settled(u)' => DisconnectStep(u)
    /\ DisconnectStep(u) /\ ~Awaited(u) => Settled(u)'

StatusStaysTrue == [][StatusStaysTrueStep]_vars

\* A refresh_token, sent by Google with the first consent only, is never lost by a later
\* exchange or refresh that brings none; only disconnect gives it up.
RefreshTokenKeptStep ==
  \A u \in Users :
    (tokens[u] # None /\ tokens'[u] # None) => (tokens[u].refresh => tokens'[u].refresh)

RefreshTokenKept == [][RefreshTokenKeptStep]_vars

\* A calendar call never carries an access token that Google has stopped accepting, if Google
\* said how long it lives: expires_at, counted from the receipt of the answer, is later than
\* the true end by up to Delay, and the margin makes up for it.
CallsCarryLiveToken ==
  sent # None => (sent.expires # None => now < sent.ends)

(* Safety of one request at a time.                                        *)

\* The status shown to the user, restarts included, says connected exactly when the user has
\* given a consent whose exchange was answered and has not disconnected since giving it.
StatusTellsConsent ==
  \A u \in Users : Status(u) = "connected" <=> InForce(u) # {}

\* The stored token comes from the latest of the user's consents that stand.
LatestGrantStored ==
  \A u \in Users : tokens[u] # None =>
    /\ tokens[u].grant \in InForce(u)
    /\ \A g \in InForce(u) : g <= tokens[u].grant

=============================================================================
