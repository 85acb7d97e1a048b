----------------------------- MODULE WebProofs -----------------------------
(***************************************************************************)
(* The safety of the page and of the gate, for any number of requests.     *)
(***************************************************************************)
EXTENDS Web, TLAPS

-----------------------------------------------------------------------------
\* What holds of a request wherever it has got to: the loop holds no more than the limit, and what
\* it hands over is the body unless the client left.
Sound(x) ==
  /\ x.read <= x.request.size
  /\ x.step \in {"arrived", "reading"} => ~x.entered /\ x.read <= MaxBytes
  /\ x.step = "inside" => x.entered
  /\ x.entered => x.read <= MaxBytes /\ (x.left \/ x.read = x.request.size)
  /\ x.step = "answered" /\ ~x.entered /\ x.status = 413 =>
       x.request.size > MaxBytes \/ DeclaredTooLarge(x.request)

Exchanges == GateTypes /\ \A r \in Requests : requests[r] # None => Sound(requests[r])

LEMMA ExchangeReplaced ==
  ASSUME Exchanges, NEW r \in Requests, NEW x \in Exchange, Sound(x),
         requests' = [requests EXCEPT ![r] = x]
  PROVE  Exchanges'
<1>1. requests \in [Requests -> Exchange \cup {None}]
  BY DEF Exchanges, GateTypes
<1>2. GateTypes'
  BY <1>1 DEF GateTypes
<1>3. ASSUME NEW q \in Requests, requests'[q] # None PROVE Sound(requests'[q])
  <2>1. CASE q = r
    BY <1>1, <2>1
  <2>2. CASE q # r
    BY <1>1, <1>3, <2>2 DEF Exchanges
  <2> QED
    BY <2>1, <2>2
<1>4. (\A q \in Requests : requests[q] # None => Sound(requests[q]))'
  <2>1. ASSUME NEW q \in Requests, requests'[q] # None PROVE Sound(requests[q])'
    BY <1>3, <2>1 DEF Sound, DeclaredTooLarge
  <2> QED
    BY <2>1
<1> QED
  BY <1>2, <1>4 DEF Exchanges

\* A request that has got to a step is one, and sound.
LEMMA AtIsExchange ==
  ASSUME Exchanges, NEW r \in Requests, NEW step, At(r, step)
  PROVE  requests[r] \in Exchange /\ Sound(requests[r]) /\ requests[r].step = step
  BY DEF Exchanges, GateTypes, At

LEMMA AnswersKeeps ==
  ASSUME Exchanges, NEW r \in Requests, requests[r] \in Exchange, Sound(requests[r]),
         NEW status \in Statuses, Answers(r, status),
         \/ requests[r].entered
         \/ status # 413
         \/ requests[r].request.size > MaxBytes \/ DeclaredTooLarge(requests[r].request)
  PROVE  Exchanges'
<1> DEFINE x == [requests[r] EXCEPT !.step = "answered", !.status = status]
<1>1. requests' = [requests EXCEPT ![r] = x]
  BY DEF Answers
<1>2. x \in Exchange
  BY DEF Exchange
<1>3. /\ x.read = requests[r].read /\ x.request = requests[r].request
      /\ x.entered = requests[r].entered /\ x.left = requests[r].left
      /\ x.step = "answered" /\ x.status = status
  BY DEF Exchange
<1> HIDE DEF x
<1>4. Sound(x)
  BY <1>3 DEF Sound
<1> QED
  BY <1>1, <1>2, <1>4, ExchangeReplaced

LEMMA GoesInsideKeeps ==
  ASSUME Exchanges, NEW r \in Requests, requests[r] \in Exchange,
         NEW length \in Nat, NEW left \in BOOLEAN, GoesInside(r, length, left),
         length <= requests[r].request.size, length <= MaxBytes,
         left \/ length = requests[r].request.size
  PROVE  Exchanges'
<1> DEFINE x == [requests[r] EXCEPT
                   !.read = length, !.step = "inside", !.entered = TRUE, !.left = left]
<1>1. requests' = [requests EXCEPT ![r] = x]
  BY DEF GoesInside
<1>2. x \in Exchange
  BY DEF Exchange
<1>3. /\ x.read = length /\ x.request = requests[r].request
      /\ x.entered = TRUE /\ x.left = left /\ x.step = "inside"
  BY DEF Exchange
<1> HIDE DEF x
<1>4. Sound(x)
  BY <1>3 DEF Sound
<1> QED
  BY <1>1, <1>2, <1>4, ExchangeReplaced

LEMMA EnterKeeps == ASSUME Exchanges, NEW r \in Requests, Enter(r) PROVE Exchanges'
<1>1. requests[r] \in Exchange /\ Sound(requests[r]) /\ requests[r].step = "arrived"
  BY AtIsExchange DEF Enter
<1>2. CASE Answers(r, 415)
  BY <1>1, <1>2, AnswersKeeps DEF Statuses
<1>3. CASE DeclaredTooLarge(requests[r].request) /\ Answers(r, 413)
  BY <1>1, <1>3, AnswersKeeps DEF Statuses
<1>4. CASE requests' = [requests EXCEPT ![r].step = "reading"]
  <2> DEFINE x == [requests[r] EXCEPT !.step = "reading"]
  <2>1. requests' = [requests EXCEPT ![r] = x]
    BY <1>4
  <2>2. x \in Exchange
    BY <1>1 DEF Exchange
  <2>3. /\ x.read = requests[r].read /\ x.request = requests[r].request
        /\ x.entered = requests[r].entered /\ x.left = requests[r].left
        /\ x.step = "reading"
    BY <1>1 DEF Exchange
  <2> HIDE DEF x
  <2>4. Sound(x)
    BY <1>1, <2>3 DEF Sound
  <2> QED
    BY <2>1, <2>2, <2>4, ExchangeReplaced
<1> QED
  BY <1>2, <1>3, <1>4 DEF Enter

LEMMA ReadKeeps == ASSUME Exchanges, NEW r \in Requests, Read(r) PROVE Exchanges'
<1>1. requests[r] \in Exchange /\ Sound(requests[r]) /\ requests[r].step = "reading"
  BY AtIsExchange DEF Read
<1>2. /\ requests[r].read \in Nat /\ requests[r].request.size \in Nat /\ MaxBytes \in Nat
      /\ requests[r].read <= requests[r].request.size
  BY <1>1, SizesAssumption DEF Exchange, Request, Sound
<1>3. PICK length \in requests[r].read .. requests[r].request.size :
       \/ length > requests[r].read /\ Overruns(length) /\ Answers(r, 413)
       \/ /\ length > requests[r].read /\ ~Overruns(length)
          /\ requests' = [requests EXCEPT ![r].read = length]
       \/ length = requests[r].request.size /\ ~Overruns(length) /\ GoesInside(r, length, FALSE)
  BY DEF Read
<1>4. length \in Nat /\ length <= requests[r].request.size
  BY <1>2, <1>3
<1>5. CASE Overruns(length) /\ Answers(r, 413)
  <2>1. requests[r].request.size > MaxBytes
    BY <1>2, <1>4, <1>5 DEF Overruns
  <2> QED
    BY <1>1, <1>5, <2>1, AnswersKeeps DEF Statuses
<1>6. CASE ~Overruns(length) /\ requests' = [requests EXCEPT ![r].read = length]
  <2> DEFINE x == [requests[r] EXCEPT !.read = length]
  <2>1. requests' = [requests EXCEPT ![r] = x]
    BY <1>6
  <2>2. x \in Exchange
    BY <1>1, <1>4 DEF Exchange
  <2>3. /\ x.read = length /\ x.request = requests[r].request
        /\ x.entered = requests[r].entered /\ x.step = "reading"
    BY <1>1 DEF Exchange
  <2>4. length <= MaxBytes
    BY <1>2, <1>4, <1>6 DEF Overruns
  <2> HIDE DEF x
  <2>5. Sound(x)
    BY <1>1, <1>4, <2>3, <2>4 DEF Sound
  <2> QED
    BY <2>1, <2>2, <2>5, ExchangeReplaced
<1>7. CASE length = requests[r].request.size /\ ~Overruns(length) /\ GoesInside(r, length, FALSE)
  <2>1. length <= MaxBytes
    BY <1>2, <1>4, <1>7 DEF Overruns
  <2> QED
    BY <1>1, <1>4, <1>7, <2>1, GoesInsideKeeps
<1> QED
  BY <1>3, <1>5, <1>6, <1>7

LEMMA DisconnectKeeps == ASSUME Exchanges, NEW r \in Requests, Disconnect(r) PROVE Exchanges'
<1>1. requests[r] \in Exchange /\ Sound(requests[r]) /\ requests[r].step = "reading"
  BY AtIsExchange DEF Disconnect
<1>2. /\ requests[r].read \in Nat /\ requests[r].read <= requests[r].request.size
      /\ requests[r].read <= MaxBytes
  BY <1>1 DEF Exchange, Sound
<1>3. GoesInside(r, requests[r].read, TRUE)
  BY DEF Disconnect
<1> QED
  BY <1>1, <1>2, <1>3, GoesInsideKeeps

LEMMA RouteKeeps == ASSUME Exchanges, NEW r \in Requests, Route(r) PROVE Exchanges'
<1>1. requests[r] \in Exchange /\ Sound(requests[r]) /\ requests[r].step = "inside"
  BY AtIsExchange DEF Route
<1>2. requests[r].entered
  BY <1>1 DEF Sound
<1>3. PICK status \in Statuses : Answers(r, status)
  BY DEF Route
<1> QED
  BY <1>1, <1>2, <1>3, AnswersKeeps

LEMMA GateStepKeeps == ASSUME Exchanges, NEW r \in Requests, GateStep(r) PROVE Exchanges'
  BY EnterKeeps, ReadKeeps, DisconnectKeeps, RouteKeeps DEF GateStep

LEMMA ArrivalIsSound ==
  ASSUME NEW request \in Request
  PROVE  Arrival(request) \in Exchange /\ Sound(Arrival(request))
<1>1. Arrival(request) \in Exchange
  BY DEF Arrival, Exchange
<1>2. request.size \in Nat /\ MaxBytes \in Nat
  BY SizesAssumption DEF Request
<1>3. Sound(Arrival(request))
  BY <1>2 DEF Arrival, Sound
<1> QED
  BY <1>1, <1>3

-----------------------------------------------------------------------------
\* What holds of the page between its handlers.  A request is under way exactly while the buttons
\* are disabled, and its question, or the greeting, is the last bubble meanwhile; and an utterance
\* whose start no handler has seen yet is being spoken, or has its end behind.
Question(n) == [who |-> "user", request |-> n]

Pending ==
  /\ disabled => fetching = {sent} /\ chat[Len(chat)] \in {Question(sent), Greeting}
  /\ ~disabled => fetching = {}
  /\ Len(chat) > 0

Ending ==
  \A n \in DOMAIN events : events[n] = "start" =>
    utterance = "speaking" \/ \E m \in DOMAIN events : m > n /\ events[m] = "end"

Page == PageTypes /\ Pending /\ Ending /\ DisplayIsFounded /\ AnswersInPlace

\* The display needs a reason; all but the reason for "SPEAKING" are in the variables of the page.
SpeechFounded == utterance = "speaking" \/ \E n \in DOMAIN events : events[n] = "end"

LEMMA PageInitially == PageInit => Page
<1> SUFFICES ASSUME PageInit PROVE Page
  OBVIOUS
<1>1. chat = <<Greeting>> /\ Greeting \in Bubble
  BY DEF PageInit, Greeting, Bubble
<1>2. chat \in Seq(Bubble) /\ Len(chat) = 1 /\ chat[1] = Greeting
  BY <1>1
<1>3. events = <<>> /\ events \in Seq({"start", "end"}) /\ DOMAIN events = {}
  BY DEF PageInit
<1>4. PageTypes
  <2>1. fetching \subseteq Numbers /\ sent \in Nat
    BY DEF PageInit
  <2>2. /\ hears \in BOOLEAN /\ speaks \in BOOLEAN /\ error \in BOOLEAN /\ disabled \in BOOLEAN
        /\ listening \in BOOLEAN
    BY DEF PageInit
  <2>3. /\ display \in {"IDLE", "LISTENING", "PROCESSING", "RESPONDING", "SPEAKING", "ERROR"}
        /\ recognizer \in {"off", "starting", "on", "failed"}
        /\ utterance \in {"none", "queued", "speaking"}
    BY DEF PageInit
  <2> QED
    BY <1>2, <1>3, <2>1, <2>2, <2>3 DEF PageTypes
<1>5. Pending
  BY <1>2 DEF PageInit, Pending
<1>6. Ending
  BY <1>3 DEF Ending
<1>7. DisplayIsFounded
  BY DEF PageInit, DisplayIsFounded
<1>8. AnswersInPlace
  BY <1>1, <1>2 DEF AnswersInPlace, Greeting
<1> QED
  BY <1>4, <1>5, <1>6, <1>7, <1>8 DEF Page

-----------------------------------------------------------------------------
\* Events of utterances.
LEMMA EndComes ==
  ASSUME events \in Seq({"start", "end"}), events' = Append(events, "end")
  PROVE  events' \in Seq({"start", "end"}) /\ Ending' /\ SpeechFounded'
<1> DEFINE last == Len(events) + 1
<1>1. /\ events' \in Seq({"start", "end"}) /\ Len(events') = last
      /\ last \in DOMAIN events' /\ events'[last] = "end"
  OBVIOUS
<1>2. SpeechFounded'
  BY <1>1 DEF SpeechFounded
<1>3. ASSUME NEW n \in DOMAIN events', events'[n] = "start"
      PROVE \E m \in DOMAIN events' : m > n /\ events'[m] = "end"
  <2>1. n \in 1 .. last /\ n # last
    BY <1>1, <1>3
  <2>2. last > n
    BY <2>1
  <2> QED
    BY <1>1, <2>2
<1>4. Ending'
  BY <1>3 DEF Ending
<1> QED
  BY <1>1, <1>2, <1>4

LEMMA CancelKeeps ==
  ASSUME Page, NEW next \in {"none", "queued"}, Cancel(next)
  PROVE  /\ events' \in Seq({"start", "end"}) /\ utterance' \in {"none", "queued", "speaking"}
         /\ Ending'
         /\ SpeechFounded => SpeechFounded'
<1>1. events \in Seq({"start", "end"})
  BY DEF Page, PageTypes
<1>2. utterance' = next
  BY DEF Cancel
<1>3. CASE events' = events /\ utterance # "speaking"
  <2>1. Ending'
    BY <1>3 DEF Page, Ending
  <2>2. SpeechFounded => SpeechFounded'
    BY <1>3 DEF SpeechFounded
  <2> QED
    BY <1>1, <1>2, <1>3, <2>1, <2>2
<1>4. CASE events' = Append(events, "end")
  BY <1>1, <1>2, <1>4, EndComes
<1> QED
  BY <1>3, <1>4 DEF Cancel

LEMMA SpeechStartsKeeps == ASSUME Page, SpeechStarts PROVE Page'
<1>1. /\ events \in Seq({"start", "end"}) /\ events' = Append(events, "start")
      /\ utterance' = "speaking"
  BY DEF Page, PageTypes, SpeechStarts
<1>2. events' \in Seq({"start", "end"})
  BY <1>1
<1>3. Ending'
  BY <1>1 DEF Ending
<1>4. PageTypes'
  BY <1>1, <1>2 DEF Page, PageTypes, SpeechStarts
<1>5. Pending' /\ AnswersInPlace'
  BY DEF Page, Pending, AnswersInPlace, SpeechStarts
<1>6. DisplayIsFounded'
  BY <1>1 DEF Page, DisplayIsFounded, SpeechStarts
<1> QED
  BY <1>3, <1>4, <1>5, <1>6 DEF Page

LEMMA SpeechEndsKeeps == ASSUME Page, SpeechEnds PROVE Page'
<1>1. /\ events \in Seq({"start", "end"}) /\ events' = Append(events, "end")
      /\ utterance' = "none"
  BY DEF Page, PageTypes, SpeechEnds
<1>2. events' \in Seq({"start", "end"}) /\ Ending' /\ SpeechFounded'
  BY <1>1, EndComes
<1>3. PageTypes'
  BY <1>1, <1>2 DEF Page, PageTypes, SpeechEnds
<1>4. Pending' /\ AnswersInPlace'
  BY DEF Page, Pending, AnswersInPlace, SpeechEnds
<1>5. DisplayIsFounded'
  BY <1>2 DEF Page, DisplayIsFounded, SpeechEnds, SpeechFounded
<1> QED
  BY <1>2, <1>3, <1>4, <1>5 DEF Page

LEMMA SpeechEventKeeps == ASSUME Page, SpeechEvent PROVE Page'
<1>1. events \in Seq({"start", "end"}) /\ events # <<>> /\ events' = Tail(events)
  BY DEF Page, PageTypes, SpeechEvent
<1>2. /\ events' \in Seq({"start", "end"}) /\ Len(events) \in Nat /\ Len(events) > 0
      /\ Len(events') = Len(events) - 1
      /\ \A n \in 1 .. Len(events') : events'[n] = events[n + 1]
      /\ Head(events) = events[1]
  BY <1>1
<1>3. DOMAIN events = 1 .. Len(events) /\ DOMAIN events' = 1 .. Len(events')
  BY <1>1, <1>2
<1>4. utterance' = utterance
  BY DEF SpeechEvent
\* A later event is one of those that remain.
<1>5. ASSUME NEW n \in Nat, NEW m \in DOMAIN events, m > n + 1
      PROVE m - 1 \in DOMAIN events' /\ m - 1 > n /\ events'[m - 1] = events[m]
  <2>1. m - 1 \in 1 .. Len(events') /\ m - 1 > n /\ (m - 1) + 1 = m
    BY <1>2, <1>3, <1>5
  <2> QED
    BY <1>2, <1>3, <2>1
<1>6. Ending'
  <2> SUFFICES ASSUME NEW n \in DOMAIN events', events'[n] = "start", utterance # "speaking"
               PROVE  \E m \in DOMAIN events' : m > n /\ events'[m] = "end"
    BY <1>4 DEF Ending
  <2>1. n \in Nat /\ n + 1 \in DOMAIN events /\ events[n + 1] = "start"
    BY <1>2, <1>3
  <2>2. PICK m \in DOMAIN events : m > n + 1 /\ events[m] = "end"
    BY <2>1 DEF Page, Ending
  <2> QED
    BY <1>5, <2>1, <2>2
<1>7. Head(events) = "start" => SpeechFounded'
  <2> SUFFICES ASSUME events[1] = "start", utterance # "speaking"
               PROVE  \E n \in DOMAIN events' : events'[n] = "end"
    BY <1>2, <1>4 DEF SpeechFounded
  <2>1. 1 \in DOMAIN events
    BY <1>2, <1>3
  <2>2. PICK m \in DOMAIN events : m > 1 /\ events[m] = "end"
    BY <2>1 DEF Page, Ending
  <2>3. 0 \in Nat /\ m > 0 + 1
    BY <2>2
  <2> QED
    BY <1>5, <2>2, <2>3
<1>8. display' = IF Head(events) = "start" THEN "SPEAKING" ELSE "IDLE"
  BY DEF SpeechEvent
<1>9. DisplayIsFounded'
  BY <1>7, <1>8 DEF DisplayIsFounded, SpeechFounded
<1>10. PageTypes'
  BY <1>2, <1>8 DEF Page, PageTypes, SpeechEvent
<1>11. Pending' /\ AnswersInPlace'
  BY DEF Page, Pending, AnswersInPlace, SpeechEvent
<1> QED
  BY <1>6, <1>9, <1>10, <1>11 DEF Page

-----------------------------------------------------------------------------
\* Bubbles.
LEMMA BubbleAdded ==
  ASSUME chat \in Seq(Bubble), AnswersInPlace, NEW bubble \in Bubble, chat' = Append(chat, bubble),
         bubble.who = "assistant" /\ bubble.request # 0 =>
           Len(chat) > 0 /\ chat[Len(chat)] \in {Question(bubble.request), Greeting}
  PROVE  /\ chat' \in Seq(Bubble)
         /\ Len(chat') > 0
         /\ chat'[Len(chat')] = bubble
         /\ AnswersInPlace'
<1> DEFINE last == Len(chat) + 1
<1>1. /\ chat' \in Seq(Bubble) /\ Len(chat) \in Nat /\ Len(chat') = last /\ chat'[last] = bubble
      /\ \A n \in 1 .. Len(chat) : chat'[n] = chat[n]
      /\ DOMAIN chat = 1 .. Len(chat) /\ DOMAIN chat' = 1 .. last
  OBVIOUS
<1>2. ASSUME NEW n \in DOMAIN chat', chat'[n].who = "assistant", chat'[n].request # 0
      PROVE  n > 1 /\ chat'[n - 1] \in {Question(chat'[n].request), Greeting}
  <2>1. CASE n = last
    <3>1. Len(chat) > 0 /\ chat[Len(chat)] \in {Question(bubble.request), Greeting}
      BY <1>1, <1>2, <2>1
    <3>2. n > 1 /\ n - 1 = Len(chat) /\ Len(chat) \in 1 .. Len(chat)
      BY <1>1, <2>1, <3>1
    <3> QED
      BY <1>1, <2>1, <3>1, <3>2
  <2>2. CASE n # last
    <3>1. n \in DOMAIN chat /\ chat'[n] = chat[n]
      BY <1>1, <2>2
    <3>2. n > 1 /\ chat[n - 1] \in {Question(chat[n].request), Greeting}
      BY <1>2, <3>1 DEF AnswersInPlace, Question
    <3>3. n - 1 \in 1 .. Len(chat)
      BY <1>1, <3>1, <3>2
    <3> QED
      BY <1>1, <3>1, <3>2, <3>3
  <2> QED
    BY <2>1, <2>2
<1>3. AnswersInPlace'
  BY <1>2 DEF AnswersInPlace, Question
<1> QED
  BY <1>1, <1>3

LEMMA GreetingOnly ==
  ASSUME chat' = <<Greeting>>
  PROVE  /\ chat' \in Seq(Bubble) /\ Len(chat') > 0 /\ chat'[Len(chat')] = Greeting
         /\ AnswersInPlace'
<1>1. Greeting \in Bubble /\ Greeting.request = 0
  BY DEF Greeting, Bubble
<1>2. chat' \in Seq(Bubble) /\ Len(chat') = 1 /\ chat'[1] = Greeting /\ DOMAIN chat' = {1}
  BY <1>1
<1>3. AnswersInPlace'
  BY <1>1, <1>2 DEF AnswersInPlace
<1> QED
  BY <1>2, <1>3

-----------------------------------------------------------------------------
\* The handlers of the page.
LEMMA SubmitKeeps == ASSUME Page, NEW n \in Numbers, Submit(n) PROVE Page'
<1>1. /\ chat \in Seq(Bubble) /\ fetching = {} /\ n \in Nat
      /\ fetching' = {n} /\ sent' = n /\ disabled' = TRUE /\ display' = "PROCESSING"
  <2>1. chat \in Seq(Bubble) /\ fetching = {}
    BY DEF Page, PageTypes, Pending, Submit
  <2>2. fetching' = fetching \cup {n} /\ sent' = n /\ disabled' = TRUE /\ display' = "PROCESSING"
    BY DEF Submit
  <2> QED
    BY <2>1, <2>2, NamesAssumption
<1>2. Question(n) \in Bubble /\ Question(n).who # "assistant"
  BY DEF Question, Bubble
<1>3. chat' = Append(chat, Question(n))
  BY DEF Submit, Question
<1>4. /\ chat' \in Seq(Bubble) /\ Len(chat') > 0 /\ chat'[Len(chat')] = Question(n)
      /\ AnswersInPlace'
  BY <1>1, <1>2, <1>3, BubbleAdded DEF Page
<1>5. PageTypes'
  BY <1>1, <1>4 DEF Page, PageTypes, Submit
<1>6. Pending'
  BY <1>1, <1>4 DEF Pending
<1>7. Ending'
  BY DEF Page, Ending, Submit
<1>8. DisplayIsFounded'
  BY <1>1 DEF DisplayIsFounded
<1> QED
  BY <1>4, <1>5, <1>6, <1>7, <1>8 DEF Page

LEMMA AnswerKeeps == ASSUME Page, NEW n \in Numbers, Answer(n) PROVE Page'
<1>1. /\ chat \in Seq(Bubble) /\ fetching = {n} /\ n = sent /\ Len(chat) > 0
      /\ chat[Len(chat)] \in {Question(n), Greeting}
  <2>1. n \in fetching /\ chat \in Seq(Bubble) /\ disabled \in BOOLEAN
    BY DEF Answer, Page, PageTypes
  <2>2. disabled
    BY <2>1 DEF Page, Pending
  <2> QED
    BY <2>1, <2>2 DEF Page, Pending
<1> DEFINE bubble == [who |-> "assistant", request |-> n]
<1>2. bubble \in Bubble /\ bubble.request = n
  BY DEF Bubble
<1>3. chat' = Append(chat, bubble)
  BY DEF Answer
<1>4. chat' \in Seq(Bubble) /\ Len(chat') > 0 /\ AnswersInPlace'
  <2> HIDE DEF bubble
  <2> QED
    BY <1>1, <1>2, <1>3, BubbleAdded DEF Page
<1>5. /\ events' \in Seq({"start", "end"}) /\ utterance' \in {"none", "queued", "speaking"}
      /\ Ending'
  <2>1. CASE Cancel("queued")
    BY <2>1, CancelKeeps
  <2>2. CASE UNCHANGED <<utterance, events>>
    BY <2>2 DEF Page, PageTypes, Ending
  <2> QED
    BY <2>1, <2>2 DEF Answer
<1>6. fetching' = {} /\ display' = "IDLE" /\ disabled' = FALSE /\ sent' = sent
  <2>1. fetching' = fetching \ {n} /\ display' = "IDLE" /\ disabled' = FALSE /\ sent' = sent
    BY DEF Answer
  <2> QED
    BY <1>1, <2>1
<1>7. PageTypes'
  BY <1>4, <1>5, <1>6 DEF Page, PageTypes, Answer
<1>8. Pending'
  BY <1>4, <1>6 DEF Pending
<1>9. DisplayIsFounded'
  BY <1>6 DEF DisplayIsFounded
<1> QED
  BY <1>4, <1>5, <1>7, <1>8, <1>9 DEF Page

LEMMA RefusalKeeps == ASSUME Page, NEW n \in Numbers, Refusal(n) PROVE Page'
<1>1. fetching = {n}
  <2>1. n \in fetching /\ disabled \in BOOLEAN
    BY DEF Refusal, Page, PageTypes
  <2> QED
    BY <2>1 DEF Page, Pending
<1>2. fetching' = {} /\ display' = "ERROR" /\ error' = TRUE /\ disabled' = FALSE
  <2>1. fetching' = fetching \ {n} /\ display' = "ERROR" /\ error' = TRUE /\ disabled' = FALSE
    BY DEF Refusal, ShowError
  <2> QED
    BY <1>1, <2>1
<1>3. PageTypes'
  BY <1>2 DEF Page, PageTypes, Refusal
<1>4. Pending'
  BY <1>2 DEF Page, Pending, Refusal
<1>5. DisplayIsFounded'
  BY <1>2 DEF DisplayIsFounded
<1>6. Ending' /\ AnswersInPlace'
  BY DEF Page, Ending, AnswersInPlace, Refusal
<1> QED
  BY <1>3, <1>4, <1>5, <1>6 DEF Page

LEMMA StopKeeps == ASSUME Page, Stop PROVE Page'
<1>1. /\ events' \in Seq({"start", "end"}) /\ utterance' \in {"none", "queued", "speaking"}
      /\ Ending'
  BY CancelKeeps DEF Stop
<1>2. display' # "SPEAKING" /\ (display' = display \/ display' = "IDLE")
  BY DEF Stop, Quiet
<1>3. PageTypes'
  BY <1>1, <1>2 DEF Page, PageTypes, Stop
<1>4. Pending' /\ AnswersInPlace'
  BY DEF Page, Pending, AnswersInPlace, Stop
<1>5. DisplayIsFounded'
  BY <1>2 DEF Page, DisplayIsFounded, Stop
<1> QED
  BY <1>1, <1>3, <1>4, <1>5 DEF Page

LEMMA ClearKeeps == ASSUME Page, Clear PROVE Page'
<1>1. /\ events' \in Seq({"start", "end"}) /\ utterance' \in {"none", "queued", "speaking"}
      /\ Ending'
  <2>1. CASE Cancel("none")
    BY <2>1, CancelKeeps
  <2>2. CASE UNCHANGED <<utterance, events>>
    BY <2>2 DEF Page, PageTypes, Ending
  <2> QED
    BY <2>1, <2>2 DEF Clear
<1>2. /\ chat' \in Seq(Bubble) /\ Len(chat') > 0 /\ chat'[Len(chat')] = Greeting
      /\ AnswersInPlace'
  BY GreetingOnly DEF Clear
<1>3. display' = "IDLE"
  BY DEF Clear
<1>4. PageTypes'
  BY <1>1, <1>2, <1>3 DEF Page, PageTypes, Clear
<1>5. Pending'
  BY <1>2 DEF Page, Pending, Clear
<1>6. DisplayIsFounded'
  BY <1>3 DEF DisplayIsFounded
<1> QED
  BY <1>1, <1>2, <1>4, <1>5, <1>6 DEF Page

LEMMA MicKeeps == ASSUME Page, Mic PROVE Page'
<1>1. \/ display' = display /\ error' = error /\ recognizer = "off" /\ recognizer' = "starting"
      \/ display' = "ERROR" /\ error' = TRUE /\ recognizer' = recognizer
  BY DEF Mic, ShowError
<1>2. PageTypes'
  BY <1>1 DEF Page, PageTypes, Mic
<1>3. Pending' /\ Ending' /\ AnswersInPlace'
  BY DEF Page, Pending, Ending, AnswersInPlace, Mic
<1>4. DisplayIsFounded'
  BY <1>1 DEF Page, DisplayIsFounded, Mic
<1> QED
  BY <1>2, <1>3, <1>4 DEF Page

LEMMA SensitiveKeeps == ASSUME Page, SubmitSensitive PROVE Page'
<1>1. PageTypes'
  BY DEF Page, PageTypes, SubmitSensitive, ShowError
<1>2. Pending' /\ Ending' /\ AnswersInPlace'
  BY DEF Page, Pending, Ending, AnswersInPlace, SubmitSensitive
<1>3. DisplayIsFounded'
  BY DEF DisplayIsFounded, SubmitSensitive, ShowError
<1> QED
  BY <1>1, <1>2, <1>3 DEF Page

\* The events of the recognizer.
LEMMA RecognizerKeeps ==
  ASSUME Page, RecognizerStarts \/ RecognizerFails \/ RecognizerEnds
  PROVE  Page'
<1>1. PageTypes'
  BY DEF Page, PageTypes, RecognizerStarts, RecognizerFails, RecognizerEnds, ShowError
<1>2. Pending' /\ Ending' /\ AnswersInPlace'
  BY DEF Page, Pending, Ending, AnswersInPlace, RecognizerStarts, RecognizerFails, RecognizerEnds
<1>3. DisplayIsFounded'
  BY DEF Page, DisplayIsFounded, RecognizerStarts, RecognizerFails, RecognizerEnds, ShowError
<1> QED
  BY <1>1, <1>2, <1>3 DEF Page

LEMMA PageStepKeeps == ASSUME Page, PageStep PROVE Page'
  BY SensitiveKeeps, StopKeeps, ClearKeeps, MicKeeps, RecognizerKeeps, SpeechStartsKeeps,
     SpeechEndsKeeps, SpeechEventKeeps DEF PageStep, BrowserStep

-----------------------------------------------------------------------------
Ind == Page /\ Exchanges

LEMMA IndInit == Init => Ind
<1> SUFFICES ASSUME Init PROVE Ind
  OBVIOUS
<1>1. Page
  BY PageInitially DEF Init
<1>2. ASSUME requests = [r \in Requests |-> None] PROVE Exchanges
  <2>1. \A r \in Requests : requests[r] = None
    BY <1>2
  <2>2. GateTypes
    BY <1>2 DEF GateTypes
  <2> QED
    BY <2>1, <2>2 DEF Exchanges
<1>3. ASSUME NEW f \in Foreign, NEW r \in Requests,
             requests = [q \in Requests |-> IF q = r THEN Arrival(f) ELSE None]
      PROVE  Exchanges
  <2>1. Arrival(f) \in Exchange /\ Sound(Arrival(f))
    BY ForeignAssumption, ArrivalIsSound
  <2>2. GateTypes
    BY <1>3, <2>1 DEF GateTypes
  <2>3. \A q \in Requests : requests[q] # None => Sound(requests[q])
    BY <1>3, <2>1
  <2> QED
    BY <2>2, <2>3 DEF Exchanges
<1> QED
  BY <1>1, <1>2, <1>3 DEF Init, Ind

LEMMA PageUntouched == Page /\ UNCHANGED pageVars => Page'
  BY DEF pageVars, Page, PageTypes, Pending, Ending, DisplayIsFounded, AnswersInPlace

LEMMA RequestsUntouched == Exchanges /\ UNCHANGED requests => Exchanges'
  BY DEF Exchanges, GateTypes, Sound, DeclaredTooLarge

LEMMA SendsKeeps == ASSUME Ind, Sends PROVE Ind'
<1>1. PICK n \in Numbers, size \in Sizes \ {0} :
        Submit(n) /\ requests' = [requests EXCEPT ![n] = Arrival(Fetched(size))]
  BY DEF Sends
<1>2. Fetched(size) \in Request
  BY DEF Fetched, Request
<1>3. Arrival(Fetched(size)) \in Exchange /\ Sound(Arrival(Fetched(size)))
  BY <1>2, ArrivalIsSound
<1>4. Exchanges'
  <2> DEFINE x == Arrival(Fetched(size))
  <2>1. n \in Requests
    BY NamesAssumption
  <2>2. x \in Exchange /\ Sound(x) /\ requests' = [requests EXCEPT ![n] = x]
    BY <1>1, <1>3
  <2> HIDE DEF x
  <2> QED
    BY <2>1, <2>2, ExchangeReplaced DEF Ind
<1> QED
  BY <1>1, <1>4, SubmitKeeps DEF Ind

LEMMA IndKept == Ind /\ [Next]_vars => Ind'
<1> SUFFICES ASSUME Ind, [Next]_vars PROVE Ind'
  OBVIOUS
<1>1. CASE UNCHANGED vars
  BY <1>1, PageUntouched, RequestsUntouched DEF vars, Ind
<1>2. CASE Sends
  BY <1>2, SendsKeeps
<1>3. CASE PageStep /\ UNCHANGED requests
  BY <1>3, PageStepKeeps, RequestsUntouched DEF Ind
<1>4. ASSUME NEW n \in Numbers, Receives(n) \/ NetworkFails(n) PROVE Ind'
  <2>1. (Answer(n) \/ Refusal(n)) /\ UNCHANGED requests
    BY <1>4 DEF Receives, NetworkFails
  <2> QED
    BY <2>1, AnswerKeeps, RefusalKeeps, RequestsUntouched DEF Ind
<1>5. ASSUME NEW r \in Requests, Serves(r) PROVE Ind'
  BY <1>5, GateStepKeeps, PageUntouched DEF Serves, Ind
<1> QED
  BY <1>1, <1>2, <1>3, <1>4, <1>5 DEF Next

\* Page and gate keep to their types.
THEOREM TypeCorrect == Spec => []TypeOK
<1>1. Ind => TypeOK
  BY DEF Ind, Page, Exchanges, TypeOK
<1> QED
  BY IndInit, IndKept, <1>1, PTL DEF Spec

\* No body over the limit reaches a route, no other is refused for its size, and none is cut.
THEOREM LimitExact == Spec => []LimitIsExact
<1>1. Ind => LimitIsExact
  BY DEF Ind, Exchanges, Sound, LimitIsExact
<1> QED
  BY IndInit, IndKept, <1>1, PTL DEF Spec

\* The page never stays in a state that nothing leaves, in whichever order the events come.
THEOREM DisplayFounded == Spec => []DisplayIsFounded
<1>1. Ind => DisplayIsFounded
  BY DEF Ind, Page
<1> QED
  BY IndInit, IndKept, <1>1, PTL DEF Spec

\* An answer stands below its question or below the greeting, for any number of requests.
THEOREM AnswersPlaced == Spec => []AnswersInPlace
<1>1. Ind => AnswersInPlace
  BY DEF Ind, Page
<1> QED
  BY IndInit, IndKept, <1>1, PTL DEF Spec
=============================================================================
