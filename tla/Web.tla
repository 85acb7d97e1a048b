-------------------------------- MODULE Web ---------------------------------
(* The page and the server: a fetch of the page is a request that passes the gate of main.py,  *)
(* unless the network fails, and other clients send requests the page never sends.             *)
EXTENDS Frontend, Gate

CONSTANT Foreign     \* the requests of other clients

ASSUME NamesAssumption == Numbers \subseteq Requests /\ Numbers \subseteq Nat \ {0}

ASSUME ForeignAssumption == Foreign \subseteq Request

vars == <<pageVars, requests>>

TypeOK == PageTypes /\ GateTypes

\* fetch("/api/assistant", ...) with a text of some length.
Fetched(size) == [method |-> "POST", json |-> TRUE, declared |-> size, size |-> size]

Init ==
  /\ PageInit
  /\ \/ requests = [r \in Requests |-> None]
     \/ \E f \in Foreign, r \in Requests \ Numbers :
          requests = [q \in Requests |-> IF q = r THEN Arrival(f) ELSE None]

\* Other requests share nothing with those of the page and are served in behaviours of their own.
Alone == \A r \in Requests \ Numbers : requests[r] = None

Sends ==
  /\ Alone
  /\ \E n \in Numbers, size \in Sizes \ {0} :
       /\ Submit(n)
       /\ requests' = [requests EXCEPT ![n] = Arrival(Fetched(size))]

\* The response arrives; safeResponseText may still look sensitive.
Receives(n) ==
  /\ n \in fetching
  /\ At(n, "answered")
  /\ IF requests[n].status = 200 THEN Answer(n) \/ Refusal(n) ELSE Refusal(n)
  /\ UNCHANGED requests

\* fetch fails: the server may never have seen the request, or still work on it.
NetworkFails(n) ==
  /\ n \in fetching
  /\ Refusal(n)
  /\ UNCHANGED requests

Serves(r) == GateStep(r) /\ UNCHANGED pageVars

Next ==
  \/ Sends
  \/ Alone /\ PageStep /\ UNCHANGED requests
  \/ \E n \in Numbers : Receives(n) \/ NetworkFails(n)
  \/ \E r \in Requests : Serves(r)

Spec == Init /\ [][Next]_vars

\* The server gets to every request, bodies end, routes return, and responses arrive.
Fairness ==
  /\ \A r \in Requests :
       WF_vars((Enter(r) \/ Read(r) \/ Route(r)) /\ UNCHANGED pageVars)
  /\ \A n \in Numbers : WF_vars(Receives(n))

FairSpec == Spec /\ Fairness

-----------------------------------------------------------------------------
\* The page accepts the next request at last: whatever becomes of a request - refused by the gate,
\* failed in its route, answered, withheld, lost - the buttons it disabled are enabled again.
ButtonsReturn == disabled ~> ~disabled
=============================================================================
