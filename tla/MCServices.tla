----------------------------- MODULE MCServices -----------------------------
(* The sessions of M15, the audit log and the security policy: services of one process that     *)
(* share nothing, so that a behaviour is that of one of them.                                   *)
EXTENDS Conversation, AuditTrail, Security, TLC

VARIABLE serving

services == <<vars, auditVars, policyVars>>

ServicesInit ==
  /\ Init /\ AuditInit /\ PolicyInit
  /\ serving \in {"sessions", "audit", "policy"}
  /\ serving # "audit" => schema = {}

ServicesNext ==
  /\ UNCHANGED serving
  /\ \/ serving = "sessions" /\ Next /\ UNCHANGED <<auditVars, policyVars>>
     \/ serving = "audit" /\ AuditNext /\ UNCHANGED <<vars, policyVars>>
     \/ serving = "policy" /\ PolicyNext /\ UNCHANGED <<vars, auditVars>>

ServicesSpec == ServicesInit /\ [][ServicesNext]_<<services, serving>>

-----------------------------------------------------------------------------
Symmetric == Permutations(Threads) \cup Permutations(Lists) \cup Permutations(Clients)

\* The checks by default, and each one alone.
MCCheckLists == {DefaultChecks} \cup {{type} : type \in CheckTypes}

\* Ids and timestamps decide what is evicted, of which nothing is stated once calls have
\* overlapped: there, messages have their ids in the order of creation and one timestamp.
InOrder(messages) == \A m \in messages : m.time = 1 /\ \A i \in unused : m.id < i

OneOrder ==
  overlapped' =>
    /\ InOrder(Listed)
    /\ \A n \in 2 .. Len(since) : since[n - 1].id < since[n].id
    /\ InOrder({threads[t].message : t \in Threads} \ {None})

\* While a database is being set up, nothing is recorded in it.
EmptyWhileNew == (\E c \in Clients : opening'[c].step = "script") => log' = {}

Bounded == OneOrder /\ EmptyWhileNew
=============================================================================
