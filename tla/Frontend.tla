------------------------------ MODULE Frontend ------------------------------
(* The page of M15, frontend/app.js.  Each handler runs to its end before another one starts;  *)
(* between them lie the awaits of sendToAssistant, the events of the recognizer and those of   *)
(* the speech engine, which come in the order in which the engine raised them.                 *)
EXTENDS Naturals, Sequences

CONSTANT Numbers     \* numbers of requests, 1, 2, ...

VARIABLES
  hears, speaks,     \* what the browser supports: SpeechRecognition, speechSynthesis
  display,           \* currentState
  error,             \* the error box is shown
  disabled,          \* send.disabled and mic.disabled
  listening,         \* listening
  chat,              \* the bubbles
  fetching,          \* the requests whose fetch is pending
  sent,              \* how many requests have been sent
  recognizer,        \* what the browser's recognizer is doing
  utterance,         \* what the browser's speech engine is doing
  events             \* the events of utterances that handlers have not seen yet

pageVars ==
  <<hears, speaks, display, error, disabled, listening, chat, fetching, sent, recognizer,
    utterance, events>>

Bubble == [who : {"user", "assistant"}, request : Numbers \cup {0}]

\* The greeting of the page, and of a cleared conversation.
Greeting == [who |-> "assistant", request |-> 0]

PageTypes ==
  /\ hears \in BOOLEAN /\ speaks \in BOOLEAN
  /\ display \in {"IDLE", "LISTENING", "PROCESSING", "RESPONDING", "SPEAKING", "ERROR"}
  /\ error \in BOOLEAN /\ disabled \in BOOLEAN /\ listening \in BOOLEAN
  /\ chat \in Seq(Bubble)
  /\ fetching \subseteq Numbers
  /\ sent \in Nat
  /\ recognizer \in {"off", "starting", "on", "failed"}
  /\ utterance \in {"none", "queued", "speaking"}
  /\ events \in Seq({"start", "end"})

PageInit ==
  /\ hears \in BOOLEAN /\ speaks \in BOOLEAN
  /\ display = "IDLE"
  /\ error = FALSE /\ disabled = FALSE /\ listening = FALSE
  /\ chat = <<Greeting>>
  /\ fetching = {}
  /\ sent = 0
  /\ recognizer = "off"
  /\ utterance = "none"
  /\ events = <<>>

-----------------------------------------------------------------------------
ShowError == display' = "ERROR" /\ error' = TRUE

\* speechSynthesis.cancel(): an utterance that is being spoken ends with an event; one that still
\* waits may go without.
Cancel(next) ==
  /\ utterance' = next
  /\ \/ events' = events /\ utterance # "speaking"
     \/ events' = Append(events, "end") /\ utterance # "none"

SubmitAnyTime(n) ==    \* mutant: the Enter key submits while send is disabled
  /\ n = sent + 1
  /\ sent' = n
  /\ chat' = Append(chat, [who |-> "user", request |-> n])
  /\ fetching' = fetching \cup {n}
  /\ error' = FALSE /\ display' = "PROCESSING" /\ disabled' = TRUE
  /\ UNCHANGED <<hears, speaks, listening, recognizer, utterance, events>>

\* The submit handler, and sendToAssistant up to its fetch.
Submit(n) ==
  /\ ~disabled
  /\ n = sent + 1
  /\ sent' = n
  /\ chat' = Append(chat, [who |-> "user", request |-> n])
  /\ fetching' = fetching \cup {n}
  /\ error' = FALSE /\ display' = "PROCESSING" /\ disabled' = TRUE
  /\ UNCHANGED <<hears, speaks, listening, recognizer, utterance, events>>

\* The submit handler with a text that looks sensitive.
SubmitSensitive ==
  /\ ~disabled
  /\ ShowError
  /\ UNCHANGED <<hears, speaks, disabled, listening, chat, fetching, sent, recognizer, utterance, events>>

LeavesResponding(n) ==    \* mutant: the state is reset by the end of speech only
  /\ n \in fetching
  /\ fetching' = fetching \ {n}
  /\ chat' = Append(chat, [who |-> "assistant", request |-> n])
  /\ IF speaks THEN Cancel("queued") ELSE UNCHANGED <<utterance, events>>
  /\ display' = "RESPONDING"
  /\ disabled' = FALSE
  /\ UNCHANGED <<hears, speaks, error, listening, sent, recognizer>>

\* sendToAssistant after a response that is ok: the bubble, speak, and IDLE at once, since the
\* events of the utterance come later.
Answer(n) ==
  /\ n \in fetching
  /\ fetching' = fetching \ {n}
  /\ chat' = Append(chat, [who |-> "assistant", request |-> n])
  /\ IF speaks THEN Cancel("queued") ELSE UNCHANGED <<utterance, events>>
  /\ display' = "IDLE"
  /\ disabled' = FALSE
  /\ UNCHANGED <<hears, speaks, error, listening, sent, recognizer>>

StaysDisabled(n) ==    \* mutant: the buttons are enabled after a success only, not in a finally
  /\ n \in fetching
  /\ fetching' = fetching \ {n}
  /\ ShowError
  /\ UNCHANGED <<hears, speaks, disabled, listening, chat, sent, recognizer, utterance, events>>

\* ... after a response that is not, an answer that looks sensitive, or a network error.
Refusal(n) ==
  /\ n \in fetching
  /\ fetching' = fetching \ {n}
  /\ ShowError
  /\ disabled' = FALSE
  /\ UNCHANGED <<hears, speaks, listening, chat, sent, recognizer, utterance, events>>

Quiet(next) == IF display = "SPEAKING" THEN "IDLE" ELSE next

\* The stop button, which is disabled where speech is not supported.
Stop ==
  /\ speaks
  /\ Cancel("none")
  /\ display' = Quiet(display)
  /\ UNCHANGED <<hears, speaks, error, disabled, listening, chat, fetching, sent, recognizer>>

\* The clear button; a pending fetch goes on.
Clear ==
  /\ IF speaks THEN Cancel("none") ELSE UNCHANGED <<utterance, events>>
  /\ chat' = <<Greeting>>
  /\ error' = FALSE /\ display' = "IDLE"
  /\ UNCHANGED <<hears, speaks, disabled, listening, fetching, sent, recognizer>>

\* The microphone button: stop() shows in a later event, start() fails on a recognizer whose
\* session has not ended.
Mic ==
  /\ ~disabled
  /\ ~(hears /\ listening)
  /\ IF hears /\ recognizer = "off"
       THEN recognizer' = "starting" /\ UNCHANGED <<display, error>>
       ELSE ShowError /\ UNCHANGED recognizer
  /\ UNCHANGED <<hears, speaks, disabled, listening, chat, fetching, sent, utterance, events>>

-----------------------------------------------------------------------------
\* onstart, onerror and onend of the recognizer; an error is followed by the end, which stop() or
\* the recognizer itself may bring about at any time.
RecognizerStarts ==
  /\ recognizer = "starting"
  /\ recognizer' = "on"
  /\ listening' = TRUE /\ display' = "LISTENING" /\ error' = FALSE
  /\ UNCHANGED <<hears, speaks, disabled, chat, fetching, sent, utterance, events>>

RecognizerFails ==
  /\ recognizer \in {"starting", "on"}
  /\ recognizer' = "failed"
  /\ listening' = FALSE
  /\ ShowError
  /\ UNCHANGED <<hears, speaks, disabled, chat, fetching, sent, utterance, events>>

RecognizerEnds ==
  /\ recognizer # "off"
  /\ recognizer' = "off"
  /\ listening' = FALSE
  /\ display' = IF display = "LISTENING" THEN "IDLE" ELSE display
  /\ UNCHANGED <<hears, speaks, error, disabled, chat, fetching, sent, utterance, events>>

\* The speech engine begins and ends an utterance, each with an event.
SpeechStarts ==
  /\ utterance = "queued"
  /\ utterance' = "speaking"
  /\ events' = Append(events, "start")
  /\ UNCHANGED <<hears, speaks, display, error, disabled, listening, chat, fetching, sent, recognizer>>

SpeechEnds ==
  /\ utterance # "none"
  /\ utterance' = "none"
  /\ events' = Append(events, "end")
  /\ UNCHANGED <<hears, speaks, display, error, disabled, listening, chat, fetching, sent, recognizer>>

\* onstart, onend and onerror of an utterance, perhaps not the last one.
SpeechEvent ==
  /\ events # <<>>
  /\ events' = Tail(events)
  /\ display' = IF Head(events) = "start" THEN "SPEAKING" ELSE "IDLE"
  /\ UNCHANGED <<hears, speaks, error, disabled, listening, chat, fetching, sent, recognizer, utterance>>

BrowserStep ==
  RecognizerStarts \/ RecognizerFails \/ RecognizerEnds \/ SpeechStarts \/ SpeechEnds \/ SpeechEvent

PageStep == SubmitSensitive \/ Stop \/ Clear \/ Mic \/ BrowserStep

-----------------------------------------------------------------------------
\* What the page says it does is going on, or an event is on its way that will say otherwise, and
\* an error that is reported can be read: wherever late events of earlier utterances, of the
\* recognizer and of fetches fall, the page does not come to rest in a state that nothing leaves.
DisplayIsFounded ==
  /\ display # "RESPONDING"
  /\ display = "PROCESSING" => fetching # {}
  /\ display = "LISTENING" => recognizer = "on"
  /\ display = "SPEAKING" => utterance = "speaking" \/ \E n \in DOMAIN events : events[n] = "end"
  /\ display = "ERROR" => error

\* An answer stands right below its question, or below the greeting of a conversation that was
\* cleared while the question was open, and nowhere else.
AnswersInPlace ==
  \A n \in DOMAIN chat : chat[n].who = "assistant" /\ chat[n].request # 0 =>
    n > 1 /\ chat[n - 1] \in {[who |-> "user", request |-> chat[n].request], Greeting}
=============================================================================
