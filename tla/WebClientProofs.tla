--------------------------- MODULE WebClientProofs --------------------------
(***************************************************************************)
(* Theorems about the web page and the event stream, for every number of   *)
(* pages, connections and messages, with requests, connections and the     *)
(* daemon failing at any point.                                            *)
(***************************************************************************)
EXTENDS WebClient, SequenceTheorems, TLAPS

NoRepeats(s) == \A i, j \in DOMAIN s : s[i] = s[j] => i = j

\* The reply to GET /api/v1/messages has no message twice.
ListOnce == \A p \in Pages : NoRepeats(list[p])

\* No two pages read the same connection.
OwnStream ==
    \A p, q \in Pages : stream[p] \in Conns /\ stream[p] = stream[q] => p = q

\* Nothing is owed to a page before its list is rendered.
OwedWhenRendered == \A p \in Pages : fetch[p] # "done" => owed[p] = {}

IInv ==
    /\ TypeOK
    /\ ShownOnce
    /\ ListOnce
    /\ OwnStream
    /\ OwedWhenRendered
    /\ NothingMissedWhileConnected

-----------------------------------------------------------------------------
\* The elements of a sequence.
LEMMA RangeIs ==
    ASSUME NEW S, NEW s \in Seq(S)
    PROVE  /\ Range(s) = {s[i] : i \in 1..Len(s)} /\ Range(s) \subseteq S
           /\ Len(s) \in Nat /\ DOMAIN s = 1..Len(s)
BY RangeEquality, LenProperties, ElementOfSeq

\* evbuffer_add, push_back and the page's append put one element at the end.
LEMMA AppendIs ==
    ASSUME NEW S, NEW s \in Seq(S), NEW e \in S
    PROVE  /\ Append(s, e) \in Seq(S)
           /\ Range(Append(s, e)) = Range(s) \cup {e}
           /\ e \notin Range(s) /\ NoRepeats(s) => NoRepeats(Append(s, e))
<1>1. /\ Append(s, e) \in Seq(S)
      /\ Len(Append(s, e)) = Len(s) + 1
      /\ \A i \in 1..Len(s) : Append(s, e)[i] = s[i]
      /\ Append(s, e)[Len(s) + 1] = e
  BY AppendProperties
<1>2. Range(s) = {s[i] : i \in 1..Len(s)} /\ Len(s) \in Nat /\ DOMAIN s = 1..Len(s)
  BY RangeIs
<1>3. /\ Range(Append(s, e)) = {Append(s, e)[i] : i \in 1..(Len(s) + 1)}
      /\ DOMAIN Append(s, e) = 1..(Len(s) + 1)
  BY <1>1, RangeIs
<1>4. 1..(Len(s) + 1) = (1..Len(s)) \cup {Len(s) + 1}
  BY <1>2
<1>5. Range(Append(s, e)) = Range(s) \cup {e}
  BY <1>1, <1>2, <1>3, <1>4
<1>6. ASSUME e \notin Range(s), NoRepeats(s) PROVE NoRepeats(Append(s, e))
  <2>1. \A i \in 1..Len(s) : s[i] # e
    BY <1>2, <1>6
  <2> SUFFICES ASSUME NEW i \in 1..(Len(s) + 1), NEW j \in 1..(Len(s) + 1),
                      Append(s, e)[i] = Append(s, e)[j]
               PROVE  i = j
    BY <1>3 DEF NoRepeats
  <2>2. CASE i \in 1..Len(s) /\ j \in 1..Len(s)
    BY <1>1, <1>2, <1>6, <2>2 DEF NoRepeats
  <2>3. CASE i = Len(s) + 1 \/ j = Len(s) + 1
    BY <1>1, <1>4, <2>1, <2>3
  <2> QED
    BY <1>4, <2>2, <2>3
<1> QED
  BY <1>1, <1>5, <1>6

\* appendMessage of the page: the message is there afterwards, and once.
LEMMA AppendMessageIs ==
    ASSUME NEW S, NEW s \in Seq(S), NEW m \in S, NoRepeats(s)
    PROVE  /\ AppendMessage(s, m) \in Seq(S)
           /\ Range(AppendMessage(s, m)) = Range(s) \cup {m}
           /\ NoRepeats(AppendMessage(s, m))
BY AppendIs DEF AppendMessage

\* Reading the oldest event of a connection.
LEMMA HeadTailIs ==
    ASSUME NEW S, NEW s \in Seq(S), s # <<>>
    PROVE  /\ Head(s) \in S /\ Tail(s) \in Seq(S)
           /\ Range(s) = {Head(s)} \cup Range(Tail(s))
<1>1. /\ Head(s) \in S /\ Tail(s) \in Seq(S)
      /\ Len(Tail(s)) = Len(s) - 1
      /\ \A i \in 1..Len(Tail(s)) : Tail(s)[i] = s[i + 1]
      /\ Head(s) = s[1]
  BY HeadTailProperties
<1>2. /\ Range(s) = {s[i] : i \in 1..Len(s)} /\ Len(s) \in Nat
      /\ Range(Tail(s)) = {Tail(s)[i] : i \in 1..Len(Tail(s))} /\ Len(Tail(s)) \in Nat
  BY <1>1, RangeIs
<1>3. ASSUME NEW i \in 1..Len(s) PROVE s[i] \in {Head(s)} \cup Range(Tail(s))
  <2>1. CASE i = 1
    BY <1>1, <2>1
  <2>2. CASE i # 1
    <3>1. i - 1 \in 1..Len(Tail(s)) /\ Tail(s)[i - 1] = s[i]
      BY <1>1, <1>2, <2>2
    <3> QED
      BY <1>2, <3>1
  <2> QED
    BY <2>1, <2>2
<1>4. ASSUME NEW i \in 1..Len(Tail(s)) PROVE Tail(s)[i] \in Range(s)
  <2>1. i + 1 \in 1..Len(s)
    BY <1>1, <1>2
  <2> QED
    BY <1>1, <1>2, <2>1
<1>5. Head(s) \in Range(s)
  BY <1>1, <1>2
<1> QED
  BY <1>1, <1>2, <1>3, <1>4, <1>5

\* erase(match): nothing but the element at i goes.
LEMMA RemoveAtIs ==
    ASSUME NEW S, NEW s \in Seq(S), NEW i \in DOMAIN s
    PROVE  /\ RemoveAt(s, i) \in Seq(S)
           /\ Range(s) \subseteq Range(RemoveAt(s, i)) \cup {s[i]}
<1> DEFINE low == SubSeq(s, 1, i - 1)
           high == SubSeq(s, i + 1, Len(s))
<1>1. /\ Len(s) \in Nat /\ i \in 1..Len(s) /\ \A k \in 1..Len(s) : s[k] \in S
      /\ Range(s) = {s[k] : k \in 1..Len(s)}
  BY RangeIs, ElementOfSeq
<1>2. /\ low \in Seq(S) /\ Len(low) = IF 1 <= i - 1 THEN i - 1 - 1 + 1 ELSE 0
      /\ \A k \in 1..(i - 1 - 1 + 1) : low[k] = s[1 + k - 1]
  BY <1>1, SubSeqProperties
<1>3. /\ high \in Seq(S) /\ Len(high) = IF i + 1 <= Len(s) THEN Len(s) - (i + 1) + 1 ELSE 0
      /\ \A k \in 1..(Len(s) - (i + 1) + 1) : high[k] = s[i + 1 + k - 1]
  BY <1>1, SubSeqProperties
<1>4. RemoveAt(s, i) = low \o high
  BY DEF RemoveAt
<1> HIDE DEF low, high
<1>5. low \o high \in Seq(S) /\ Range(low \o high) = Range(low) \cup Range(high)
  BY <1>2, <1>3, ConcatProperties, RangeConcatenation
<1>6. /\ Range(low) = {low[k] : k \in 1..Len(low)}
      /\ Range(high) = {high[k] : k \in 1..Len(high)}
  BY <1>2, <1>3, RangeIs
<1>7. ASSUME NEW k \in 1..Len(s), k # i PROVE s[k] \in Range(low) \cup Range(high)
  <2>1. CASE k < i
    <3>1. k \in 1..Len(low) /\ low[k] = s[k]
      BY <1>1, <1>2, <2>1
    <3> QED
      BY <1>6, <3>1
  <2>2. CASE k > i
    <3> DEFINE l == k - i
    <3>1. /\ l \in 1..(Len(s) - (i + 1) + 1) /\ i + 1 + l - 1 = k
          /\ Len(s) - (i + 1) + 1 = Len(high)
      BY <1>1, <1>3, <2>2
    <3> HIDE DEF l
    <3>2. high[l] = s[k] /\ l \in 1..Len(high)
      BY <1>3, <3>1
    <3> QED
      BY <1>6, <3>2
  <2> QED
    BY <1>1, <1>7, <2>1, <2>2
<1> QED
  BY <1>1, <1>4, <1>5, <1>7

-----------------------------------------------------------------------------
\* Every page has just been opened and fetches.
LEMMA InitInvariant == Init => IInv
<1> SUFFICES ASSUME Init PROVE IInv
  OBVIOUS
<1>1. <<>> \in Seq(Messages) /\ <<>> \in Seq(Conns) /\ DOMAIN <<>> = {}
  BY EmptySeq
<1>2. TypeOK
  BY <1>1 DEF Init, TypeOK
<1>3. ShownOnce /\ ListOnce
  BY <1>1 DEF Init, ShownOnce, ListOnce, NoRepeats
<1> QED
  BY <1>2, <1>3, NamesAssumption DEF Init, IInv, OwnStream, OwedWhenRendered,
     NothingMissedWhileConnected

\* publish reaches every page whose connection holds, so what it is owed is on
\* its way; the others are owed nothing more.
LEMMA PublishKeeps ==
    ASSUME IInv, NEW m \in Messages, Publish(m),
           UNCHANGED <<requests, broken, stream, fetch, shown>>
    PROVE  /\ channel' \in [Conns -> Seq(Messages)]
           /\ owed' \in [Pages -> SUBSET Messages]
           /\ OwedWhenRendered'
           /\ NothingMissedWhileConnected'
<1>1. /\ channel \in [Conns -> Seq(Messages)] /\ owed \in [Pages -> SUBSET Messages]
      /\ \A p \in Pages : stream[p] \in broken \cup Range(requests) \cup {"none"}
  BY DEF IInv, TypeOK
<1>2. /\ channel' = [c \in Conns |-> IF Open(c) THEN Append(channel[c], m) ELSE channel[c]]
      /\ owed' = [p \in Pages |-> owed[p] \cup {x \in {m} : Live(p)}]
  BY DEF Publish
<1>3. \A c \in Conns : /\ Append(channel[c], m) \in Seq(Messages)
                       /\ Range(Append(channel[c], m)) = Range(channel[c]) \cup {m}
  BY <1>1, AppendIs
<1>4. channel' \in [Conns -> Seq(Messages)] /\ owed' \in [Pages -> SUBSET Messages]
  BY <1>1, <1>2, <1>3
<1>5. OwedWhenRendered'
  BY <1>2 DEF IInv, OwedWhenRendered, Live
<1>6. ASSUME NEW p \in Pages, stream[p] \in Conns \ broken
      PROVE  owed'[p] \subseteq Range(shown[p]) \cup Range(channel'[stream[p]])
  <2>1. Open(stream[p])
    BY <1>1, <1>6, NamesAssumption DEF Open
  <2>2. Range(channel'[stream[p]]) = Range(channel[stream[p]]) \cup {m}
    BY <1>2, <1>3, <1>6, <2>1
  <2>3. owed[p] \subseteq Range(shown[p]) \cup Range(channel[stream[p]])
    BY <1>6 DEF IInv, NothingMissedWhileConnected
  <2>4. owed'[p] \subseteq owed[p] \cup {m}
    BY <1>2
  <2> QED
    BY <2>2, <2>3, <2>4
<1>7. NothingMissedWhileConnected'
  BY <1>6 DEF NothingMissedWhileConnected
<1> QED
  BY <1>4, <1>5, <1>7

\* A message from a peer, new or already stored, and a message of a page.
LEMMA PublishersKeep ==
    ASSUME IInv, NEW m \in Messages,
           \/ Ingest(m) \/ IngestKnown(m)
           \/ \E p \in Pages : CreateMessage(p, m)
    PROVE  IInv'
<1>1. Publish(m) /\ UNCHANGED <<up, requests, broken, stream, fetch, list, shown>>
  BY DEF Ingest, IngestKnown, CreateMessage, daemon, page
<1>2. messages' \in Seq(Messages)
  <2>1. Append(messages, m) \in Seq(Messages)
    BY AppendIs DEF IInv, TypeOK
  <2> QED
    BY <2>1 DEF IInv, TypeOK, Ingest, IngestKnown, CreateMessage, daemon
<1>3. /\ sending' \in [Pages -> {"no", "posted", "answered"}]
      /\ answer' \in [Pages -> SUBSET Messages]
  <2>1. CASE Ingest(m) \/ IngestKnown(m)
    BY <2>1 DEF IInv, TypeOK, Ingest, IngestKnown, page
  <2>2. CASE \E p \in Pages : CreateMessage(p, m)
    BY <2>2 DEF IInv, TypeOK, CreateMessage
  <2> QED
    BY <2>1, <2>2
<1>4. /\ channel' \in [Conns -> Seq(Messages)]
      /\ owed' \in [Pages -> SUBSET Messages]
      /\ OwedWhenRendered'
      /\ NothingMissedWhileConnected'
  BY <1>1, PublishKeeps
<1> QED
  BY <1>1, <1>2, <1>3, <1>4 DEF IInv, TypeOK, ShownOnce, ListOnce, NoRepeats, OwnStream

\* A page gets a connection that no page and no request has.
LEMMA SubscribeKeeps ==
    ASSUME IInv, NEW p \in Pages, NEW c \in Conns, Subscribe(p, c)
    PROVE  IInv'
<1>1. /\ c \notin Range(requests) \cup Range(stream)
      /\ requests' = Append(requests, c)
      /\ broken' = broken \ {c}
      /\ channel' = [channel EXCEPT ![c] = <<>>]
      /\ stream' = [stream EXCEPT ![p] = c]
      /\ owed' = [owed EXCEPT ![p] = {}]
      /\ UNCHANGED <<up, messages, fetch, list, sending, answer, shown>>
  BY DEF Subscribe
<1>2. /\ requests \in Seq(Conns) /\ stream \in [Pages -> Conns \cup {"none"}]
      /\ channel \in [Conns -> Seq(Messages)] /\ owed \in [Pages -> SUBSET Messages]
      /\ \A q \in Pages : stream[q] \in broken \cup Range(requests) \cup {"none"}
  BY DEF IInv, TypeOK
<1>3. \A q \in Pages : stream[q] # c
  BY <1>1, <1>2 DEF Range
<1>4. requests' \in Seq(Conns) /\ Range(requests') = Range(requests) \cup {c}
  BY <1>1, <1>2, AppendIs
<1>5. \A q \in Pages : /\ stream'[q] = IF q = p THEN c ELSE stream[q]
                       /\ owed'[q] = IF q = p THEN {} ELSE owed[q]
  BY <1>1, <1>2
<1>6. \A d \in Conns : d # c => channel'[d] = channel[d]
  BY <1>1, <1>2
<1>7. TypeOK'
  <2>1. <<>> \in Seq(Messages)
    BY EmptySeq
  <2>2. channel' \in [Conns -> Seq(Messages)] /\ stream' \in [Pages -> Conns \cup {"none"}]
        /\ owed' \in [Pages -> SUBSET Messages]
    BY <1>1, <1>2, <2>1
  <2>3. \A q \in Pages : stream'[q] \in broken' \cup Range(requests') \cup {"none"}
    BY <1>1, <1>2, <1>3, <1>4, <1>5
  <2> QED
    BY <1>1, <1>4, <2>2, <2>3 DEF IInv, TypeOK
<1>8. OwnStream'
  BY <1>3, <1>5 DEF IInv, OwnStream
<1>9. OwedWhenRendered'
  BY <1>1, <1>5 DEF IInv, OwedWhenRendered
<1>10. NothingMissedWhileConnected'
  BY <1>1, <1>3, <1>5, <1>6 DEF IInv, NothingMissedWhileConnected
<1> QED
  BY <1>1, <1>7, <1>8, <1>9, <1>10 DEF IInv, ShownOnce, ListOnce, NoRepeats

\* The end of a connection, noticed by the daemon: no page that is connected
\* loses its request.
LEMMA HandleCloseKeeps ==
    ASSUME IInv, NEW c \in Conns, HandleClose(c)
    PROVE  IInv'
<1>1. c \in broken /\ UNCHANGED <<up, messages, broken, channel, stream, fetch, list, sending,
                                  answer, shown, owed>>
  BY DEF HandleClose, wire, page
<1>2. PICK i \in DOMAIN requests : requests[i] = c /\ requests' = RemoveAt(requests, i)
  BY DEF HandleClose
<1>3. requests' \in Seq(Conns) /\ Range(requests) \subseteq Range(requests') \cup {c}
  BY <1>2, RemoveAtIs DEF IInv, TypeOK
<1>4. \A p \in Pages : stream[p] \in broken \cup Range(requests') \cup {"none"}
  BY <1>1, <1>3 DEF IInv, TypeOK
<1> QED
  BY <1>1, <1>3, <1>4 DEF IInv, TypeOK, ShownOnce, ListOnce, NoRepeats, OwnStream,
     OwedWhenRendered, NothingMissedWhileConnected

\* A connection breaks, the process ends or starts.
LEMMA FaultsKeep ==
    ASSUME IInv, (\E c \in Conns : Break(c)) \/ Crash \/ Start
    PROVE  IInv'
<1>1. UNCHANGED <<messages, channel, stream, fetch, list, sending, answer, shown, owed>>
  BY DEF Break, Crash, Start, daemon, wire, page
<1>2. /\ requests \in Seq(Conns) /\ broken \subseteq Conns /\ up \in BOOLEAN
      /\ Range(requests) \subseteq Conns
      /\ \A p \in Pages : stream[p] \in broken \cup Range(requests) \cup {"none"}
  BY RangeIs DEF IInv, TypeOK
<1>3. /\ up' \in BOOLEAN /\ requests' \in Seq(Conns)
      /\ broken \subseteq broken' /\ broken' \subseteq Conns
      /\ broken \cup Range(requests) \subseteq broken' \cup Range(requests')
  BY <1>2, EmptySeq DEF Break, Crash, Start, daemon, wire
<1> QED
  BY <1>1, <1>2, <1>3 DEF IInv, TypeOK, ShownOnce, ListOnce, NoRepeats, OwnStream,
     OwedWhenRendered, NothingMissedWhileConnected

-----------------------------------------------------------------------------
\* GET /api/v1/messages answers with each message once.
LEMMA GetMessagesKeeps ==
    ASSUME IInv, NEW p \in Pages, GetMessages(p)
    PROVE  IInv'
<1>1. PICK s \in [1..Len(messages) -> Range(messages)] :
         /\ SortedListOf(s, Range(messages))
         /\ list' = [list EXCEPT ![p] = s]
  BY DEF GetMessages
<1>2. messages \in Seq(Messages) /\ Len(messages) \in Nat /\ Range(messages) \subseteq Messages
  BY RangeIs DEF IInv, TypeOK
<1>3. s \in Seq(Messages)
  <2>1. s \in [1..Len(messages) -> Messages]
    BY <1>2
  <2> QED
    BY <1>2, <2>1, SeqDef
<1>4. NoRepeats(s)
  <2> SUFFICES ASSUME NEW i \in DOMAIN s, NEW j \in DOMAIN s, s[i] = s[j], i # j
               PROVE  FALSE
    BY DEF NoRepeats
  <2>1. i \in Nat /\ j \in Nat /\ s[i] \in Nat
    <3>1. s[i] \in Messages /\ i \in 1..Len(messages) /\ j \in 1..Len(messages)
      BY <1>2
    <3>2. s[i] \in Nat
      BY <3>1, MessagesAssumption, Zenon
    <3> QED
      BY <3>1, <3>2
  <2>2. i < j \/ j < i
    BY <2>1
  <2>3. s[i] < s[j] \/ s[j] < s[i]
    BY <1>1, <2>2 DEF SortedListOf
  <2> QED
    BY <2>1, <2>3
<1>5. /\ fetch' = [fetch EXCEPT ![p] = "answered"] /\ fetch[p] = "asked"
      /\ UNCHANGED <<up, messages, requests, broken, channel, stream, sending, answer,
                     shown, owed>>
  BY DEF GetMessages, daemon, wire
<1>6. list' \in [Pages -> Seq(Messages)] /\ ListOnce'
  BY <1>1, <1>3, <1>4 DEF IInv, TypeOK, ListOnce
<1>7. /\ fetch' \in [Pages -> {"asked", "answered", "done"}]
      /\ \A q \in Pages : fetch'[q] # "done" => fetch[q] # "done"
  BY <1>5 DEF IInv, TypeOK
<1> QED
  BY <1>5, <1>6, <1>7 DEF IInv, TypeOK, ShownOnce, OwnStream, OwedWhenRendered,
     NothingMissedWhileConnected

\* replaceChildren drops what the page showed: nothing of it was owed.
LEMMA RenderMessagesKeeps ==
    ASSUME IInv, NEW p \in Pages, RenderMessages(p) \/ RefreshFails(p)
    PROVE  IInv'
<1>1. /\ fetch' = [fetch EXCEPT ![p] = "done"] /\ fetch[p] # "done"
      /\ list' = [list EXCEPT ![p] = <<>>]
      /\ shown' = [shown EXCEPT ![p] = list[p]] \/ shown' = shown
      /\ UNCHANGED <<up, messages, requests, broken, channel, stream, sending, answer, owed>>
  BY DEF RenderMessages, RefreshFails, daemon, wire
<1>2. /\ list \in [Pages -> Seq(Messages)] /\ shown \in [Pages -> Seq(Messages)]
      /\ fetch \in [Pages -> {"asked", "answered", "done"}]
      /\ \A q \in Pages : NoRepeats(list[q]) /\ NoRepeats(shown[q])
  BY DEF IInv, TypeOK, ListOnce, ShownOnce, NoRepeats
<1>3. <<>> \in Seq(Messages) /\ NoRepeats(<<>>)
  BY EmptySeq DEF NoRepeats
<1>4. list' \in [Pages -> Seq(Messages)] /\ ListOnce'
  BY <1>1, <1>2, <1>3 DEF ListOnce
<1>5. /\ shown' \in [Pages -> Seq(Messages)] /\ \A q \in Pages : NoRepeats(shown'[q])
      /\ \A q \in Pages : q # p => shown'[q] = shown[q]
  BY <1>1, <1>2
<1>6. owed[p] = {}
  BY <1>1 DEF IInv, OwedWhenRendered
<1>7. NothingMissedWhileConnected'
  BY <1>1, <1>5, <1>6 DEF IInv, NothingMissedWhileConnected
<1>8. OwedWhenRendered' /\ fetch' \in [Pages -> {"asked", "answered", "done"}]
  BY <1>1, <1>2 DEF IInv, OwedWhenRendered
<1>9. ShownOnce'
  BY <1>5 DEF ShownOnce, NoRepeats
<1> QED
  BY <1>1, <1>4, <1>5, <1>7, <1>8, <1>9 DEF IInv, TypeOK, OwnStream

\* An event that is read moves from the connection to the page.
LEMMA OnMessageKeeps ==
    ASSUME IInv, NEW p \in Pages, OnMessage(p)
    PROVE  IInv'
<1> DEFINE c == stream[p]
           m == Head(channel[c])
<1>1. /\ c # "none" /\ channel[c] # <<>>
      /\ shown' = [shown EXCEPT ![p] = AppendMessage(@, m)]
      /\ channel' = [channel EXCEPT ![c] = Tail(@)]
      /\ UNCHANGED <<up, messages, requests, broken, stream, fetch, list, sending,
                     answer, owed>>
  BY DEF OnMessage, daemon
<1>2. /\ c \in Conns
      /\ channel \in [Conns -> Seq(Messages)] /\ shown \in [Pages -> Seq(Messages)]
      /\ \A q \in Pages : NoRepeats(shown[q])
  BY <1>1 DEF IInv, TypeOK, ShownOnce, NoRepeats
<1>3. /\ m \in Messages /\ Tail(channel[c]) \in Seq(Messages)
      /\ Range(channel[c]) = {m} \cup Range(Tail(channel[c]))
  BY <1>1, <1>2, HeadTailIs
<1>4. /\ AppendMessage(shown[p], m) \in Seq(Messages)
      /\ Range(AppendMessage(shown[p], m)) = Range(shown[p]) \cup {m}
      /\ NoRepeats(AppendMessage(shown[p], m))
  BY <1>2, <1>3, AppendMessageIs
<1> HIDE DEF m, c
<1>5. /\ channel' \in [Conns -> Seq(Messages)] /\ shown' \in [Pages -> Seq(Messages)]
      /\ shown'[p] = AppendMessage(shown[p], m) /\ channel'[c] = Tail(channel[c])
      /\ \A q \in Pages : q # p => shown'[q] = shown[q]
      /\ \A d \in Conns : d # c => channel'[d] = channel[d]
  BY <1>1, <1>2, <1>3, <1>4
<1>6. ShownOnce'
  <2>1. \A q \in Pages : NoRepeats(shown'[q])
    BY <1>2, <1>4, <1>5
  <2> QED
    BY <2>1 DEF ShownOnce, NoRepeats
<1>7. NothingMissedWhileConnected'
  <2> SUFFICES ASSUME NEW q \in Pages, stream[q] \in Conns \ broken
               PROVE  owed[q] \subseteq Range(shown'[q]) \cup Range(channel'[stream[q]])
    BY <1>1 DEF NothingMissedWhileConnected
  <2>1. owed[q] \subseteq Range(shown[q]) \cup Range(channel[stream[q]])
    BY DEF IInv, NothingMissedWhileConnected
  <2>2. CASE q = p
    <3>1. stream[q] = c
      BY <2>2 DEF c
    <3> QED
      BY <1>3, <1>4, <1>5, <2>1, <2>2, <3>1
  <2>3. CASE q # p
    <3>1. stream[q] # c
      BY <2>3 DEF IInv, OwnStream, c
    <3> QED
      BY <1>5, <2>1, <2>3, <3>1
  <2> QED
    BY <2>2, <2>3
<1> QED
  BY <1>1, <1>5, <1>6, <1>7 DEF IInv, TypeOK, ListOnce, OwnStream, OwedWhenRendered

\* The browser notices that its stream is gone.
LEMMA OnErrorKeeps ==
    ASSUME IInv, NEW p \in Pages, OnError(p)
    PROVE  IInv'
<1>1. /\ stream[p] \in broken
      /\ stream' = [stream EXCEPT ![p] = "none"]
      /\ channel' = [channel EXCEPT ![stream[p]] = <<>>]
      /\ UNCHANGED <<up, messages, requests, broken, fetch, list, sending, answer,
                     shown, owed>>
  BY DEF OnError, daemon
<1>2. /\ stream \in [Pages -> Conns \cup {"none"}] /\ broken \subseteq Conns
      /\ channel \in [Conns -> Seq(Messages)] /\ <<>> \in Seq(Messages)
  BY EmptySeq DEF IInv, TypeOK
<1>3. /\ channel' \in [Conns -> Seq(Messages)]
      /\ stream' \in [Pages -> Conns \cup {"none"}]
      /\ \A q \in Pages : stream'[q] = IF q = p THEN "none" ELSE stream[q]
      /\ \A c \in Conns : c \notin broken => channel'[c] = channel[c]
  BY <1>1, <1>2
<1>4. OwnStream'
  BY <1>3, NamesAssumption DEF IInv, OwnStream
<1>5. NothingMissedWhileConnected'
  BY <1>1, <1>3, NamesAssumption DEF IInv, NothingMissedWhileConnected
<1>6. \A q \in Pages : stream'[q] \in broken \cup Range(requests) \cup {"none"}
  BY <1>3 DEF IInv, TypeOK
<1> QED
  BY <1>1, <1>3, <1>4, <1>5, <1>6 DEF IInv, TypeOK, ShownOnce, ListOnce, NoRepeats,
     OwedWhenRendered

\* The form: the reply to a POST is appended unless the stream brought it.
LEMMA FormKeeps ==
    ASSUME IInv, NEW p \in Pages, Submit(p) \/ Sent(p) \/ SendFails(p)
    PROVE  IInv'
<1>1. UNCHANGED <<up, messages, requests, broken, channel, stream, fetch, list, owed>>
  BY DEF Submit, Sent, SendFails, daemon, wire
<1>2. /\ sending' \in [Pages -> {"no", "posted", "answered"}]
      /\ answer' \in [Pages -> SUBSET Messages]
  BY DEF IInv, TypeOK, Submit, Sent, SendFails
<1>3. /\ shown \in [Pages -> Seq(Messages)] /\ answer \in [Pages -> SUBSET Messages]
      /\ \A q \in Pages : NoRepeats(shown[q])
  BY DEF IInv, TypeOK, ShownOnce, NoRepeats
<1>4. /\ shown' \in [Pages -> Seq(Messages)]
      /\ \A q \in Pages : NoRepeats(shown'[q]) /\ Range(shown[q]) \subseteq Range(shown'[q])
  <2>1. CASE shown' = shown
    BY <1>3, <2>1
  <2>2. CASE shown' # shown
    <3>1. PICK m \in answer[p] : shown' = [shown EXCEPT ![p] = AppendMessage(@, m)]
      BY <2>2 DEF Submit, Sent, SendFails
    <3>2. m \in Messages
      BY <1>3
    <3>3. /\ AppendMessage(shown[p], m) \in Seq(Messages)
          /\ Range(AppendMessage(shown[p], m)) = Range(shown[p]) \cup {m}
          /\ NoRepeats(AppendMessage(shown[p], m))
      BY <1>3, <3>2, AppendMessageIs
    <3> QED
      BY <1>3, <3>1, <3>3
  <2> QED
    BY <2>1, <2>2
<1>5. ShownOnce'
  BY <1>4 DEF ShownOnce, NoRepeats
<1>6. NothingMissedWhileConnected'
  BY <1>1, <1>4 DEF IInv, NothingMissedWhileConnected
<1> QED
  BY <1>1, <1>2, <1>4, <1>5, <1>6 DEF IInv, TypeOK, ListOnce, OwnStream, OwedWhenRendered

\* A page is loaded again with an empty list.
LEMMA ReloadKeeps ==
    ASSUME IInv, NEW p \in Pages, Reload(p)
    PROVE  IInv'
<1>1. /\ stream' = [stream EXCEPT ![p] = "none"]
      /\ broken' = broken \cup (Conns \cap {stream[p]})
      /\ channel' = [c \in Conns |-> IF c = stream[p] THEN <<>> ELSE channel[c]]
      /\ fetch' = [fetch EXCEPT ![p] = "asked"]
      /\ list' = [list EXCEPT ![p] = <<>>]
      /\ shown' = [shown EXCEPT ![p] = <<>>]
      /\ owed' = [owed EXCEPT ![p] = {}]
      /\ UNCHANGED <<up, messages, requests>>
  BY DEF Reload, daemon
<1>2. <<>> \in Seq(Messages) /\ NoRepeats(<<>>)
  BY EmptySeq DEF NoRepeats
<1>3. /\ channel' \in [Conns -> Seq(Messages)] /\ list' \in [Pages -> Seq(Messages)]
      /\ shown' \in [Pages -> Seq(Messages)] /\ owed' \in [Pages -> SUBSET Messages]
      /\ fetch' \in [Pages -> {"asked", "answered", "done"}]
      /\ stream' \in [Pages -> Conns \cup {"none"}]
      /\ broken \subseteq broken' /\ broken' \subseteq Conns
  BY <1>1, <1>2 DEF IInv, TypeOK
<1>4. /\ sending' \in [Pages -> {"no", "posted", "answered"}]
      /\ answer' \in [Pages -> SUBSET Messages]
  BY DEF Reload, IInv, TypeOK
<1>5. \A q \in Pages : /\ stream'[q] = IF q = p THEN "none" ELSE stream[q]
                       /\ owed'[q] = IF q = p THEN {} ELSE owed[q]
                       /\ shown'[q] = IF q = p THEN <<>> ELSE shown[q]
                       /\ list'[q] = IF q = p THEN <<>> ELSE list[q]
                       /\ fetch'[q] = IF q = p THEN "asked" ELSE fetch[q]
  BY <1>1 DEF IInv, TypeOK
<1>6. TypeOK'
  <2>1. \A q \in Pages : stream'[q] \in broken' \cup Range(requests') \cup {"none"}
    BY <1>1, <1>3, <1>5 DEF IInv, TypeOK
  <2> QED
    BY <1>1, <1>3, <1>4, <2>1 DEF IInv, TypeOK
<1>7. ShownOnce' /\ ListOnce'
  <2>1. \A q \in Pages : NoRepeats(shown'[q]) /\ NoRepeats(list'[q])
    BY <1>2, <1>5 DEF IInv, ShownOnce, ListOnce, NoRepeats
  <2> QED
    BY <2>1 DEF ShownOnce, ListOnce, NoRepeats
<1>8. OwnStream' /\ OwedWhenRendered'
  BY <1>5, NamesAssumption DEF IInv, OwnStream, OwedWhenRendered
<1>9. NothingMissedWhileConnected'
  <2> SUFFICES ASSUME NEW q \in Pages, stream'[q] \in Conns \ broken'
               PROVE  owed'[q] \subseteq Range(shown'[q]) \cup Range(channel'[stream'[q]])
    BY DEF NothingMissedWhileConnected
  <2>1. q # p /\ stream[q] \in Conns \ broken /\ stream'[q] = stream[q]
    BY <1>3, <1>5, NamesAssumption
  <2>2. stream[q] # stream[p]
    BY <2>1 DEF IInv, OwnStream
  <2>3. channel'[stream[q]] = channel[stream[q]]
    BY <1>1, <2>1, <2>2
  <2>4. owed[q] \subseteq Range(shown[q]) \cup Range(channel[stream[q]])
    BY <2>1 DEF IInv, NothingMissedWhileConnected
  <2> QED
    BY <1>5, <2>1, <2>3, <2>4
<1> QED
  BY <1>6, <1>7, <1>8, <1>9 DEF IInv

-----------------------------------------------------------------------------
\* The inductive invariant holds in every behaviour.
LEMMA Invariance == Spec => []IInv
<1>1. ASSUME IInv, [Next]_vars PROVE IInv'
  <2>1. CASE UNCHANGED vars
    BY <1>1, <2>1 DEF vars, daemon, wire, page, IInv, TypeOK, ShownOnce, ListOnce,
       NoRepeats, OwnStream, OwedWhenRendered, NothingMissedWhileConnected
  <2>2. CASE \/ \E m \in Messages : Ingest(m) \/ IngestKnown(m)
             \/ \E p \in Pages, m \in Messages : CreateMessage(p, m)
    BY <1>1, <2>2, PublishersKeep
  <2>3. CASE \E p \in Pages, c \in Conns : Subscribe(p, c)
    BY <1>1, <2>3, SubscribeKeeps
  <2>4. CASE \E c \in Conns : HandleClose(c)
    BY <1>1, <2>4, HandleCloseKeeps
  <2>5. CASE (\E c \in Conns : Break(c)) \/ Crash \/ Start
    BY <1>1, <2>5, FaultsKeep
  <2>6. ASSUME NEW p \in Pages,
               \/ GetMessages(p) \/ RenderMessages(p) \/ RefreshFails(p)
               \/ OnMessage(p) \/ OnError(p)
               \/ Submit(p) \/ Sent(p) \/ SendFails(p)
               \/ Reload(p)
        PROVE  IInv'
    BY <1>1, <2>6, GetMessagesKeeps, RenderMessagesKeeps, OnMessageKeeps, OnErrorKeeps,
       FormKeeps, ReloadKeeps
  <2> QED
    BY <1>1, <2>1, <2>2, <2>3, <2>4, <2>5, <2>6 DEF Next
<1> QED
  BY <1>1, InitInvariant, PTL DEF Spec

\* The page, the daemon and the connections keep their types; a page's stream
\* is a request of the daemon until its connection breaks.
THEOREM WebTypeCorrect == Spec => []TypeOK
<1>1. IInv => TypeOK
  BY DEF IInv
<1> QED
  BY <1>1, Invariance, PTL

\* However many pages and connections: no page shows a message twice.
THEOREM ShownOnceHolds == Spec => []ShownOnce
<1>1. IInv => ShownOnce
  BY DEF IInv
<1> QED
  BY <1>1, Invariance, PTL

\* However many pages and connections open, break and are closed late: a page
\* whose connection holds misses nothing that is published after its list.
THEOREM NothingMissedHolds == Spec => []NothingMissedWhileConnected
<1>1. IInv => NothingMissedWhileConnected
  BY DEF IInv
<1> QED
  BY <1>1, Invariance, PTL
=============================================================================
