-------------------------------- MODULE Gate --------------------------------
(* What a request meets in app/main.py before and after its route: JsonOnlyMiddleware, then    *)
(* BodySizeLimitMiddleware, and the exception handlers.  Requests share nothing; the server    *)
(* hands the body over in chunks, or says that the client has gone.                            *)
EXTENDS Naturals, Sequences

CONSTANTS
  Requests,     \* the requests that can be made
  Sizes,        \* sizes of bodies
  MaxBytes,     \* max_bytes
  None

ASSUME SizesAssumption == Sizes \subseteq Nat /\ MaxBytes \in Nat

VARIABLE requests     \* the requests made, as far as they have got

\* declared: the content-length header; None stands for one that is no number, too.
Request ==
  [method : {"POST", "GET"}, json : BOOLEAN, declared : Sizes \cup {None}, size : Sizes]

\* 500 stands for every other error.
Statuses == {200, 413, 415, 500}

\* read: the bytes of the body captured.  left: the client has gone before its end.  entered: the
\* routes have been reached.
Exchange ==
  [request : Request, step : {"arrived", "reading", "inside", "answered"}, read : Nat,
   left : BOOLEAN, entered : BOOLEAN, status : Statuses \cup {None}]

GateTypes == requests \in [Requests -> Exchange \cup {None}]

ASSUME AbsenceAssumption == None \notin Exchange \cup Statuses \cup Sizes

Arrival(request) ==
  [request |-> request, step |-> "arrived", read |-> 0, left |-> FALSE, entered |-> FALSE,
   status |-> None]

-----------------------------------------------------------------------------
At(r, step) == requests[r] # None /\ requests[r].step = step

Answers(r, status) == requests' = [requests EXCEPT ![r].step = "answered", ![r].status = status]

DeclaredTooLarge(request) == request.declared # None /\ request.declared > MaxBytes

\* JsonOnlyMiddleware, and BodySizeLimitMiddleware up to its loop.
Enter(r) ==
  /\ At(r, "arrived")
  /\ LET request == requests[r].request
         refused == request.method = "POST" /\ ~request.json
     IN  \/ refused /\ Answers(r, 415)
         \/ ~refused /\ DeclaredTooLarge(request) /\ Answers(r, 413)
         \/ /\ ~refused /\ ~DeclaredTooLarge(request)
            /\ requests' = [requests EXCEPT ![r].step = "reading"]

OverrunsByTwo(length) == length > MaxBytes + 1    \* mutant: the sum may exceed the limit by one

Overruns(length) == length > MaxBytes

GoesInside(r, length, left) ==
  requests' = [requests EXCEPT ![r].read = length, ![r].step = "inside", ![r].entered = TRUE, ![r].left = left]

\* A chunk, after which there may be more, if only an empty chunk, or not.
Read(r) ==
  /\ At(r, "reading")
  /\ \E length \in requests[r].read .. requests[r].request.size :
       \/ length > requests[r].read /\ Overruns(length) /\ Answers(r, 413)
       \/ /\ length > requests[r].read /\ ~Overruns(length)
          /\ requests' = [requests EXCEPT ![r].read = length]
       \/ length = requests[r].request.size /\ ~Overruns(length) /\ GoesInside(r, length, FALSE)

\* http.disconnect ends the loop like the end of the body, and what was received is passed on.
Disconnect(r) == At(r, "reading") /\ GoesInside(r, requests[r].read, TRUE)

\* The route gets what was captured and answers; an AppError (413 for a long text), an
\* HTTPException, a body that validation refuses and anything unexpected become responses too.
Route(r) == At(r, "inside") /\ \E status \in Statuses \ {415} : Answers(r, status)

GateStep(r) == Enter(r) \/ Read(r) \/ Disconnect(r) \/ Route(r)

-----------------------------------------------------------------------------
\* Exactly the bodies over max_bytes are refused, whether content-length or the sum of chunks
\* tells, when the header tells the truth; and what the routes see is no longer than that and,
\* unless the client left, nothing less than the body.
LimitIsExact ==
  \A r \in Requests : requests[r] # None =>
    LET x == requests[r] IN
      /\ x.entered => x.read <= MaxBytes /\ (x.left \/ x.read = x.request.size)
      /\ x.step = "answered" /\ ~x.entered /\ x.status = 413 =>
           x.request.size > MaxBytes \/ DeclaredTooLarge(x.request)
=============================================================================
