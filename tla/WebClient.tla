------------------------------ MODULE WebClient -----------------------------
(***************************************************************************)
(* The pages that browsers have open (web/app.js), the event stream that   *)
(* feeds them (EventStream) and the part of HttpApi that serves them, for  *)
(* one daemon.                                                             *)
(*                                                                         *)
(* A page loads the list and opens the stream at the same time, and adds   *)
(* what the stream and its own POST bring.  The stream is reopened by the  *)
(* browser whenever it breaks; the list is read once.  Events carry no id, *)
(* so a reopened stream starts with what is published from then on.        *)
(*                                                                         *)
(* A message is its rank in the order of get_messages (created_at_ms,      *)
(* origin, sequence); messages come in any order.  Trimming is left to     *)
(* MessageStore.                                                           *)
(***************************************************************************)
EXTENDS Integers, SequencesExt

CONSTANTS
    Messages,   \* ranks of the messages that may be written
    Pages,      \* open pages
    Conns,      \* TCP connections for event streams, used again when free
    Failures,   \* TRUE when requests, connections and the daemon may fail
    MaxUnread   \* bound: nothing is published again while a page lags so far behind

ASSUME MessagesAssumption == Messages \subseteq Nat
ASSUME NamesAssumption == "none" \notin Conns
ASSUME FailuresAssumption == Failures \in BOOLEAN
ASSUME MaxUnreadAssumption == MaxUnread \in Nat

VARIABLES
    up,         \* the daemon is running
    messages,   \* messages_ of the store, in storage order
    requests,   \* requests_ of EventStream
    broken,     \* connections that carry nothing any more
    channel,    \* c |-> "message" events on their way over c
    stream,     \* p |-> the connection of its eventStream, "none" while reopening
    fetch,      \* p |-> GET /api/v1/messages: "asked", "answered" or "done"
    list,       \* p |-> the reply to it
    sending,    \* p |-> POST /api/v1/messages: "no", "posted" or "answered"
    answer,     \* p |-> the message in the reply to it
    shown,      \* p |-> messages on the page, from top to bottom
    owed        \* history, p |-> messages published since the list of p was
                \* rendered, on the connection p has

daemon == <<up, messages, requests>>
wire == <<broken, channel>>
page == <<stream, fetch, list, sending, answer, shown>>
vars == <<daemon, wire, page, owed>>

TypeOK ==
    /\ up \in BOOLEAN
    /\ messages \in Seq(Messages)
    /\ requests \in Seq(Conns)
    /\ broken \subseteq Conns
    /\ channel \in [Conns -> Seq(Messages)]
    /\ stream \in [Pages -> Conns \cup {"none"}]
    /\ fetch \in [Pages -> {"asked", "answered", "done"}]
    /\ list \in [Pages -> Seq(Messages)]
    /\ sending \in [Pages -> {"no", "posted", "answered"}]
    /\ answer \in [Pages -> SUBSET Messages]
    /\ shown \in [Pages -> Seq(Messages)]
    /\ owed \in [Pages -> SUBSET Messages]
    /\ \A p \in Pages : stream[p] \in broken \cup Range(requests) \cup {"none"}

\* The pages have just been opened: refreshMessages and connectEventStream
\* have been called.
Init ==
    /\ up = TRUE
    /\ messages = <<>>
    /\ requests = <<>>
    /\ broken = {}
    /\ channel = [c \in Conns |-> <<>>]
    /\ stream = [p \in Pages |-> "none"]
    /\ fetch = [p \in Pages |-> "asked"]
    /\ list = [p \in Pages |-> <<>>]
    /\ sending = [p \in Pages |-> "no"]
    /\ answer = [p \in Pages |-> {}]
    /\ shown = [p \in Pages |-> <<>>]
    /\ owed = [p \in Pages |-> {}]

-----------------------------------------------------------------------------
(* EventStream *)

Open(c) == c \in Range(requests) \ broken

\* The list of p is rendered and its connection holds.
Live(p) == fetch[p] = "done" /\ stream[p] \in Conns \ broken

\* Mutant of Publish: the oldest subscription is skipped.
PublishSkipsFirst(m) ==
    /\ channel' = [c \in Conns |->
          IF Open(c) /\ requests[1] # c THEN Append(channel[c], m) ELSE channel[c]]
    /\ owed' = [p \in Pages |->
          owed[p] \cup {x \in {m} : Live(p)}]

\* publish: to every request, also to one whose end is not noticed yet.
Publish(m) ==
    /\ channel' = [c \in Conns |->
          IF Open(c) THEN Append(channel[c], m) ELSE channel[c]]
    /\ owed' = [p \in Pages |->
          owed[p] \cup {x \in {m} : Live(p)}]

\* subscribe: GET /api/v1/events.
Subscribe(p, c) ==
    /\ up
    /\ stream[p] = "none"
    /\ c \notin Range(requests) \cup Range(stream)
    /\ requests' = Append(requests, c)
    /\ broken' = broken \ {c}
    /\ channel' = [channel EXCEPT ![c] = <<>>]
    /\ stream' = [stream EXCEPT ![p] = c]
    /\ owed' = [owed EXCEPT ![p] = {}]
    /\ UNCHANGED <<up, messages, fetch, list, sending, answer, shown>>

\* Mutant of HandleClose: pop_back instead of erase(match).
HandleCloseLast(c) ==
    /\ up
    /\ c \in Range(requests) \cap broken
    /\ requests' = SubSeq(requests, 1, Len(requests) - 1)
    /\ UNCHANGED <<up, messages, wire, page, owed>>

\* handle_close: the first request of that connection is erased.
HandleClose(c) ==
    /\ up
    /\ c \in broken
    /\ \E i \in DOMAIN requests :
          /\ requests[i] = c
          /\ \A j \in 1..(i - 1) : requests[j] # c
          /\ requests' = RemoveAt(requests, i)
    /\ UNCHANGED <<up, messages, wire, page, owed>>

-----------------------------------------------------------------------------
(* MessageService and HttpApi *)

Fresh(m) == m \notin Range(messages)

\* A message of a peer: ingest_replica or ingest_sync.
Ingest(m) ==
    /\ up
    /\ Fresh(m)
    /\ messages' = Append(messages, m)
    /\ Publish(m)
    /\ UNCHANGED <<up, requests, broken, page>>

\* ingest_replica when contains fails: add ignores m, and m is published.
IngestKnown(m) ==
    /\ up
    /\ Failures
    /\ ~Fresh(m)
    /\ \A c \in Conns : Len(channel[c]) < MaxUnread
    /\ Publish(m)
    /\ UNCHANGED <<daemon, broken, page>>

\* POST /api/v1/messages: create_local publishes before the reply is sent.
CreateMessage(p, m) ==
    /\ up
    /\ sending[p] = "posted"
    /\ Fresh(m)
    /\ messages' = Append(messages, m)
    /\ Publish(m)
    /\ sending' = [sending EXCEPT ![p] = "answered"]
    /\ answer' = [answer EXCEPT ![p] = {m}]
    /\ UNCHANGED <<up, requests, broken, stream, fetch, list, shown>>

\* s is a list of the elements of S, in the order of get_messages.
SortedListOf(s, S) ==
    /\ Range(s) = S
    /\ \A i, j \in DOMAIN s : i < j => s[i] < s[j]

\* GET /api/v1/messages: a sorted copy of messages_.
GetMessages(p) ==
    /\ up
    /\ fetch[p] = "asked"
    /\ fetch' = [fetch EXCEPT ![p] = "answered"]
    /\ \E s \in [1..Len(messages) -> Range(messages)] :
          /\ SortedListOf(s, Range(messages))
          /\ list' = [list EXCEPT ![p] = s]
    /\ UNCHANGED <<daemon, wire, stream, sending, answer, shown, owed>>

-----------------------------------------------------------------------------
(* The page *)

\* Mutant of AppendMessage: no look for the same message id.
AppendAlways(s, m) == Append(s, m)

AppendMessage(s, m) == IF m \in Range(s) THEN s ELSE Append(s, m)

\* renderMessages: replaceChildren drops whatever the page showed.
RenderMessages(p) ==
    /\ fetch[p] = "answered"
    /\ fetch' = [fetch EXCEPT ![p] = "done"]
    /\ shown' = [shown EXCEPT ![p] = list[p]]
    /\ list' = [list EXCEPT ![p] = <<>>]
    /\ UNCHANGED <<daemon, wire, stream, sending, answer, owed>>

\* refreshMessages fails: a line of text, and no second attempt.
RefreshFails(p) ==
    /\ Failures
    /\ fetch[p] # "done"
    /\ fetch' = [fetch EXCEPT ![p] = "done"]
    /\ list' = [list EXCEPT ![p] = <<>>]
    /\ UNCHANGED <<daemon, wire, stream, sending, answer, shown, owed>>

\* The "message" listener.
OnMessage(p) ==
    /\ stream[p] # "none"
    /\ channel[stream[p]] # <<>>
    /\ shown' = [shown EXCEPT ![p] = AppendMessage(@, Head(channel[stream[p]]))]
    /\ channel' = [channel EXCEPT ![stream[p]] = Tail(@)]
    /\ UNCHANGED <<daemon, broken, stream, fetch, list, sending, answer, owed>>

\* The "error" event; the browser goes on to reopen the stream.
OnError(p) ==
    /\ stream[p] \in broken
    /\ stream' = [stream EXCEPT ![p] = "none"]
    /\ channel' = [channel EXCEPT ![stream[p]] = <<>>]
    /\ UNCHANGED <<daemon, broken, fetch, list, sending, answer, shown, owed>>

\* The form is submitted; not while a message is being sent.
Submit(p) ==
    /\ sending[p] = "no"
    /\ sending' = [sending EXCEPT ![p] = "posted"]
    /\ UNCHANGED <<daemon, wire, stream, fetch, list, answer, shown, owed>>

\* sendMessage has returned the message.
Sent(p) ==
    /\ sending[p] = "answered"
    /\ sending' = [sending EXCEPT ![p] = "no"]
    /\ \E m \in answer[p] : shown' = [shown EXCEPT ![p] = AppendMessage(@, m)]
    /\ answer' = [answer EXCEPT ![p] = {}]
    /\ UNCHANGED <<daemon, wire, stream, fetch, list, owed>>

\* The request, its handling or the reply fails, the message stored or not.
SendFails(p) ==
    /\ Failures
    /\ sending[p] # "no"
    /\ sending' = [sending EXCEPT ![p] = "no"]
    /\ answer' = [answer EXCEPT ![p] = {}]
    /\ UNCHANGED <<daemon, wire, stream, fetch, list, shown, owed>>

\* The page is loaded again; the old connection is closed.
Reload(p) ==
    /\ stream' = [stream EXCEPT ![p] = "none"]
    /\ broken' = broken \cup (Conns \cap {stream[p]})
    /\ channel' = [c \in Conns |-> IF c = stream[p] THEN <<>> ELSE channel[c]]
    /\ fetch' = [fetch EXCEPT ![p] = "asked"]
    /\ list' = [list EXCEPT ![p] = <<>>]
    /\ sending' = [sending EXCEPT ![p] = "no"]
    /\ answer' = [answer EXCEPT ![p] = {}]
    /\ shown' = [shown EXCEPT ![p] = <<>>]
    /\ owed' = [owed EXCEPT ![p] = {}]
    /\ UNCHANGED daemon

-----------------------------------------------------------------------------
(* The network and the process *)

\* A connection fails.  Either side learns of it on its own, and later.
Break(c) ==
    /\ Failures
    /\ Open(c)
    /\ broken' = broken \cup {c}
    /\ UNCHANGED <<daemon, channel, page, owed>>

\* A request that was still being set up may be answered by the next process;
\* RefreshFails and SendFails are the others.
Crash ==
    /\ Failures
    /\ up
    /\ up' = FALSE
    /\ broken' = broken \cup Range(requests)
    /\ requests' = <<>>
    /\ UNCHANGED <<messages, channel, page, owed>>

\* The store is loaded again; EventStream has no requests.
Start ==
    /\ ~up
    /\ up' = TRUE
    /\ UNCHANGED <<messages, requests, wire, page, owed>>

Next ==
    \/ \E m \in Messages : Ingest(m) \/ IngestKnown(m)
    \/ \E p \in Pages, m \in Messages : CreateMessage(p, m)
    \/ \E p \in Pages, c \in Conns : Subscribe(p, c)
    \/ \E c \in Conns : HandleClose(c) \/ Break(c)
    \/ \E p \in Pages :
          \/ GetMessages(p)
          \/ RenderMessages(p)
          \/ RefreshFails(p)
          \/ OnMessage(p)
          \/ OnError(p)
          \/ Submit(p)
          \/ Sent(p)
          \/ SendFails(p)
          \/ Reload(p)
    \/ Crash
    \/ Start

Spec == Init /\ [][Next]_vars

\* The daemon answers, is restarted by procd and notices what is closed; the
\* browser reads what arrives and reopens the stream.
Fairness ==
    /\ WF_vars(Start)
    /\ \A c \in Conns : WF_vars(HandleClose(c))
    /\ \A p \in Pages :
          /\ SF_vars(\E c \in Conns : Subscribe(p, c))
          /\ WF_vars(GetMessages(p)) /\ WF_vars(RenderMessages(p))
          /\ WF_vars(OnMessage(p)) /\ WF_vars(OnError(p))
          /\ WF_vars(Sent(p))

FairSpec == Spec /\ Fairness

-----------------------------------------------------------------------------
\* A page shows a message once, whether the list, the stream, the reply to its
\* own POST or several of them brought it, and however often it is published.
ShownOnce ==
    \A p \in Pages : \A i, j \in DOMAIN shown[p] :
        shown[p][i] = shown[p][j] => i = j

\* While the connection of a page holds, every message published since the
\* list was rendered is on the page or on its way: the end of other streams,
\* of an older one of the same page too, costs it nothing.
NothingMissedWhileConnected ==
    \A p \in Pages : stream[p] \in Conns \ broken =>
        owed[p] \subseteq Range(shown[p]) \cup Range(channel[stream[p]])

\* A page is brought up to date without being loaded again: every message of
\* the node comes to be shown.
UpdatesReachThePage ==
    \A p \in Pages, m \in Messages :
        m \in Range(messages) ~> m \in Range(shown[p])
=============================================================================
