------------------------------ MODULE MeshChat ------------------------------
(***************************************************************************)
(* The mesh: one les-chatd daemon per node, each with its message store,   *)
(* and the HTTP requests between them.                                     *)
(*                                                                         *)
(* A daemon is one libevent loop, so a handler runs to its end before the  *)
(* next one starts and is one action here.  The exception is the loop of   *)
(* HttpApi::sync_messages over a batch: each of its messages is committed  *)
(* by a transaction of its own, and the process may end between two of     *)
(* them, so the loop is one action per message and the node is busy until  *)
(* it ends.                                                                *)
(*                                                                         *)
(* Each request has a TCP connection of its own: requests overtake each    *)
(* other, and one that fails is never sent again (handle_response and      *)
(* send_response_callback only free the connection).                       *)
(***************************************************************************)
EXTENDS StoreOps, FiniteSets, FiniteSetsExt

CONSTANTS
    Links,          \* <<n, p>>: n can hear the announcements of p
    FairLinks,      \* the links that keep coming back, however often they fail
    BatchLimit,     \* max_sync_batch_messages, 50 in the code
    Bytes,          \* b |-> length of a message in a request, its text escaped
    OriginBytes,    \* length of one origin and its sequence in a summary
    MaxRequestBytes,      \* max_request_bytes, 4096 in the code
    MaxSyncRequestBytes,  \* max_sync_request_bytes, 128 KiB in the code
    StorageFaults,  \* TRUE when SQLite statements may fail
    Authors,        \* bound: the nodes whose users write
    MaxSequence,    \* bound: no node hands out a larger sequence
    MaxCrashes,     \* bound: crashes of all nodes together
    MaxInFlight     \* bound: sync exchanges of a node with one peer at one time

ASSUME LinksAssumption == Links \subseteq {l \in Nodes \X Nodes : l[1] # l[2]}
ASSUME FairLinksAssumption == FairLinks \subseteq Links
ASSUME BatchLimitAssumption == BatchLimit \in Nat \ {0}
ASSUME BytesAssumption == Bytes \in [Bodies -> Nat] /\ OriginBytes \in Nat
ASSUME LimitsAssumption == MaxRequestBytes \in Nat /\ MaxSyncRequestBytes \in Nat
ASSUME MaxSequenceAssumption == MaxSequence \in Nat /\ MaxSequence <= MaxInteger
ASSUME AuthorsAssumption == Authors \subseteq Nodes

VARIABLES
    store,          \* n |-> the database file of n and its messages_
    up,             \* n |-> the daemon of n is running
    nextSequence,   \* n |-> MessageService::next_sequence_
    ingesting,      \* n |-> what sync_messages still has to ingest
    published,      \* n |-> the "message" events n has sent to its browsers
    written,        \* history: the messages that create_local got past add()
    acknowledged,   \* history: the messages that create_local has returned
    replicas,       \* POST /api/v1/replicate in flight
    summaries,      \* POST /api/v1/sync/summary in flight
    responses,      \* replies to them in flight
    batches,        \* POST /api/v1/sync/messages in flight
    misread,        \* history: the nodes whose next_sequence took an SQLite
                    \* error for an origin without a row
    crashes         \* how many crashes so far, for the bound

requests == <<replicas, summaries, responses, batches>>
vars == <<store, up, nextSequence, ingesting, published, written,
          acknowledged, requests, misread, crashes>>

\* A JSON array of messages, by position.
Batch == SUBSET [position : Nat \ {0}, message : Message]

TypeOK ==
    /\ store \in [Nodes -> Store]
    /\ up \in [Nodes -> BOOLEAN]
    /\ nextSequence \in [Nodes -> Nat \ {0}]
    /\ ingesting \in [Nodes -> Batch]
    /\ published \in [Nodes -> Seq(Message)]
    /\ written \subseteq Message
    /\ acknowledged \subseteq written
    /\ replicas \subseteq [source : Nodes, dest : Nodes, message : Message]
    /\ summaries \subseteq [source : Nodes, dest : Nodes, origins : SUBSET Nodes]
    /\ responses \subseteq [source : Nodes, dest : Nodes, origins : [Nodes -> Nat]]
    /\ batches \subseteq [source : Nodes, dest : Nodes, messages : Batch]
    /\ misread \subseteq Nodes
    /\ crashes \in Nat

Init ==
    /\ store = [n \in Nodes |-> EmptyStore]
    /\ up = [n \in Nodes |-> TRUE]
    /\ nextSequence = [n \in Nodes |-> 1]
    /\ ingesting = [n \in Nodes |-> {}]
    /\ published = [n \in Nodes |-> <<>>]
    /\ written = {}
    /\ acknowledged = {}
    /\ replicas = {}
    /\ summaries = {}
    /\ responses = {}
    /\ batches = {}
    /\ misread = {}
    /\ crashes = 0

\* The event loop of n is free to run a callback.
Idle(n) == up[n] /\ ingesting[n] = {}

\* PeerRegistry::active_peers: any of the nodes that n can hear.  A peer that
\* is missing from the registry costs no more than a request that is lost.
ActivePeers(n) == SUBSET {p \in Nodes : <<n, p>> \in Links}

\* read_request_body: a request that is longer than its limit is answered 413
\* and not looked at, a reply to a summary is dropped.  A user's own text is
\* measured before it is escaped for peers.
FitsReplica(r) == Bytes[r.message.body] <= MaxRequestBytes

FitsSummary(r) == Cardinality(r.origins) * OriginBytes <= MaxRequestBytes

FitsResponse(r) ==
    Cardinality({o \in Nodes : r.origins[o] > 0}) * OriginBytes <= MaxSyncRequestBytes

FitsBatch(r) ==
    MapThenSumSet(LAMBDA e : Bytes[e.message.body], r.messages) <= MaxSyncRequestBytes

-----------------------------------------------------------------------------
(* MessageService *)

\* events_.publish("message", ...)
Publish(n, m) == published' = [published EXCEPT ![n] = Append(@, m)]

NewMessage(n, b) == [origin |-> n, sequence |-> nextSequence[n], body |-> b]

\* ReplicationService::broadcast: one POST /api/v1/replicate per active peer.
Broadcast(n, m) ==
    \E peers \in ActivePeers(n) :
        replicas' = replicas \cup
            {[source |-> n, dest |-> p, message |-> m] : p \in peers}

\* POST /api/v1/messages: the result of add is discarded, so the message is
\* published, replicated and returned whether or not a row was inserted.
CreateLocal(n, b) ==
    /\ Idle(n)
    /\ nextSequence[n] <= MaxSequence
    /\ LET m == NewMessage(n, b) IN
          /\ nextSequence' = [nextSequence EXCEPT ![n] = @ + 1]
          /\ store' = [store EXCEPT ![n] = Add(@, m)]
          /\ Publish(n, m)
          /\ Broadcast(n, m)
          /\ written' = written \cup {m}
          /\ acknowledged' = acknowledged \cup {m}
    /\ UNCHANGED <<up, ingesting, summaries, responses, batches, misread, crashes>>

\* Mutant of CreateLocalFails: publishes before it stores.
CreateLocalFailsAfterPublish(n, b) ==
    /\ StorageFaults
    /\ Idle(n)
    /\ nextSequence[n] <= MaxSequence
    /\ nextSequence' = [nextSequence EXCEPT ![n] = @ + 1]
    /\ \E st \in AddErrors(store[n], NewMessage(n, b)) :
          store' = [store EXCEPT ![n] = st]
    /\ Publish(n, NewMessage(n, b))
    /\ UNCHANGED <<up, ingesting, acknowledged, written, requests, misread, crashes>>

\* add throws: the sequence is used up, the client is answered 500.
CreateLocalFails(n, b) ==
    /\ StorageFaults
    /\ Idle(n)
    /\ nextSequence[n] <= MaxSequence
    /\ nextSequence' = [nextSequence EXCEPT ![n] = @ + 1]
    /\ \E st \in AddErrors(store[n], NewMessage(n, b)) :
          store' = [store EXCEPT ![n] = st]
    /\ UNCHANGED <<up, ingesting, published, acknowledged, written, requests,
                   misread, crashes>>

\* contains() takes every answer but a row for "no", an error too.
ContainsAnswers(n, m) ==
    {Contains(store[n], Key(m))} \cup {a \in {FALSE} : StorageFaults}

\* ingest_replica discards the result of add and publishes in any case.
IngestReplica(n, m) ==
    \E found \in ContainsAnswers(n, m) :
        IF found
        THEN UNCHANGED <<store, published>>
        ELSE /\ store' = [store EXCEPT ![n] = Add(@, m)]
             /\ Publish(n, m)

\* POST /api/v1/replicate.
HandleReplicate(r) ==
    /\ Idle(r.dest)
    /\ FitsReplica(r)
    /\ replicas' = replicas \ {r}
    /\ IngestReplica(r.dest, r.message)
    /\ UNCHANGED <<up, nextSequence, ingesting, acknowledged, written,
                   summaries, responses, batches, misread, crashes>>

\* add throws: the sender is answered 500 and does not try again.
HandleReplicateFails(r) ==
    /\ StorageFaults
    /\ Idle(r.dest)
    /\ FitsReplica(r)
    /\ replicas' = replicas \ {r}
    /\ \E st \in AddErrors(store[r.dest], r.message) :
          store' = [store EXCEPT ![r.dest] = st]
    /\ UNCHANGED <<up, nextSequence, ingesting, published, acknowledged, written,
                   summaries, responses, batches, misread, crashes>>

-----------------------------------------------------------------------------
(* SyncService and the two sync handlers of HttpApi *)

Between(r, n, p) == r.source = n /\ r.dest = p

ExchangesWith(n, p) ==
    Cardinality({r \in summaries : Between(r, n, p)})
    + Cardinality({r \in responses : Between(r, p, n)})
    + Cardinality({r \in batches : Between(r, n, p)})

\* The rows of the table "sequences".
KnownOrigins(st) == {o \in Nodes : SequenceSummary(st)[o] > 0}

\* The 5 s timer: a summary request to every active peer.  sync_summary only
\* checks the shape of the origins it is sent; what counts is how many.
SyncTimer(n, peers) ==
    /\ Idle(n)
    /\ peers \in ActivePeers(n)
    /\ \A p \in peers : ExchangesWith(n, p) < MaxInFlight
    /\ summaries' = summaries \cup
          {[source |-> n, dest |-> p, origins |-> KnownOrigins(store[n])] : p \in peers}
    /\ UNCHANGED <<store, up, nextSequence, ingesting, published, acknowledged, written,
                   replicas, responses, batches, misread, crashes>>

\* POST /api/v1/sync/summary: the reply is the receiver's own summary.
HandleSummary(r) ==
    /\ Idle(r.dest)
    /\ FitsSummary(r)
    /\ summaries' = summaries \ {r}
    /\ responses' = responses \cup
          {[source |-> r.dest, dest |-> r.source,
            origins |-> SequenceSummary(store[r.dest])]}
    /\ UNCHANGED <<store, up, nextSequence, ingesting, published, acknowledged, written,
                   replicas, batches, misread, crashes>>

\* Mutant of Missing: the first message the peer lacks is left out.
MissingSkipsNext(st, origins) ==
    {i \in 1..Len(st.messages) :
        st.messages[i].sequence > origins[st.messages[i].origin] + 1}

\* send_missing walks messages_ in storage order and takes the first
\* BatchLimit messages above the peer's last sequence of their origin.
Missing(st, origins) ==
    {i \in 1..Len(st.messages) :
        st.messages[i].sequence > origins[st.messages[i].origin]}

MissingBatch(st, origins) ==
    {[position |-> i, message |-> st.messages[i]] :
        i \in {i \in Missing(st, origins) :
                  Cardinality({j \in Missing(st, origins) : j < i}) < BatchLimit}}

\* summary_response_callback: nothing is sent when the peer lacks nothing.
HandleSummaryResponse(r) ==
    LET missing == MissingBatch(store[r.dest], r.origins)
    IN  /\ Idle(r.dest)
        /\ FitsResponse(r)
        /\ responses' = responses \ {r}
        /\ batches' = batches \cup
              {b \in {[source |-> r.dest, dest |-> r.source, messages |-> missing]} :
                  missing # {}}
        /\ UNCHANGED <<store, up, nextSequence, ingesting, published,
                       acknowledged, written, replicas, summaries, misread, crashes>>

\* POST /api/v1/sync/messages begins.
HandleSyncMessages(r) ==
    /\ Idle(r.dest)
    /\ FitsBatch(r)
    /\ batches' = batches \ {r}
    /\ ingesting' = [ingesting EXCEPT ![r.dest] = r.messages]
    /\ UNCHANGED <<store, up, nextSequence, published, acknowledged, written, replicas,
                   summaries, responses, misread, crashes>>

IsFirst(e, batch) == e \in batch /\ \A f \in batch : e.position <= f.position

\* ingest_sync publishes only what add inserted.
IngestOne(n, m) ==
    /\ store' = [store EXCEPT ![n] = Add(@, m)]
    /\ IF AddReturns(store[n], m) THEN Publish(n, m) ELSE UNCHANGED published

\* One turn of the loop over a batch.
IngestSync(n) ==
    /\ up[n]
    /\ \E e \in ingesting[n] :
          /\ IsFirst(e, ingesting[n])
          /\ ingesting' = [ingesting EXCEPT ![n] = @ \ {e}]
          /\ IngestOne(n, e.message)
    /\ UNCHANGED <<up, nextSequence, acknowledged, written, requests, misread, crashes>>

\* add throws: the rest of the batch is dropped, what was ingested stays.
IngestSyncFails(n) ==
    /\ StorageFaults
    /\ up[n]
    /\ \E e \in ingesting[n] :
          /\ IsFirst(e, ingesting[n])
          /\ \E st \in AddErrors(store[n], e.message) :
                store' = [store EXCEPT ![n] = st]
    /\ ingesting' = [ingesting EXCEPT ![n] = {}]
    /\ UNCHANGED <<up, nextSequence, published, acknowledged, written, requests,
                   misread, crashes>>

-----------------------------------------------------------------------------
(* The radio network and the processes *)

\* A request or a reply that fails, or a request that is answered 413: the
\* sender only frees it, and a sync starts again from the next timer.
LoseReplica(r) ==
    /\ replicas' = replicas \ {r}
    /\ UNCHANGED <<store, up, nextSequence, ingesting, published, acknowledged, written,
                   summaries, responses, batches, misread, crashes>>

LoseSummary(r) ==
    /\ summaries' = summaries \ {r}
    /\ UNCHANGED <<store, up, nextSequence, ingesting, published, acknowledged, written,
                   replicas, responses, batches, misread, crashes>>

LoseResponse(r) ==
    /\ responses' = responses \ {r}
    /\ UNCHANGED <<store, up, nextSequence, ingesting, published, acknowledged, written,
                   replicas, summaries, batches, misread, crashes>>

LoseBatch(r) ==
    /\ batches' = batches \ {r}
    /\ UNCHANGED <<store, up, nextSequence, ingesting, published, acknowledged, written,
                   replicas, summaries, responses, misread, crashes>>

\* The process of n ends, the machine and its file cache do not: the database
\* is opened with synchronous = NORMAL, so a committed transaction outlives the
\* process, and need not outlive a power cut.  Requests already on their way
\* stay; replies to n have nobody to go to.
Down(n) ==
    /\ crashes < MaxCrashes
    /\ crashes' = crashes + 1
    /\ up' = [up EXCEPT ![n] = FALSE]
    /\ ingesting' = [ingesting EXCEPT ![n] = {}]
    /\ summaries' = {r \in summaries : r.source # n}
    /\ responses' = {r \in responses : r.dest # n}

\* Between two handlers, or between two messages of a batch.
Crash(n) ==
    /\ up[n]
    /\ Down(n)
    /\ store' = [store EXCEPT ![n] = Closed(@)]
    /\ UNCHANGED <<nextSequence, published, acknowledged, written, replicas,
                   batches, misread>>

\* Inside add(), or after it and before anyone is told: the transaction is
\* rolled back, a full store is trimmed and nothing more, or m is committed.
CrashInAdd(n, m) ==
    /\ Down(n)
    /\ \E st \in AddErrors(store[n], m) \cup {Add(store[n], m)} :
          store' = [store EXCEPT ![n] = Closed(st)]

\* The user gets no answer, and yet the message may have been written.
CreateLocalCrashes(n, b) ==
    /\ Idle(n)
    /\ nextSequence[n] <= MaxSequence
    /\ CrashInAdd(n, NewMessage(n, b))
    /\ written' = written \cup ({NewMessage(n, b)} \cap Range(store'[n].rows))
    /\ UNCHANGED <<nextSequence, published, acknowledged, replicas, batches, misread>>

HandleReplicateCrashes(r) ==
    /\ Idle(r.dest)
    /\ FitsReplica(r)
    /\ replicas' = replicas \ {r}
    /\ CrashInAdd(r.dest, r.message)
    /\ UNCHANGED <<nextSequence, published, acknowledged, written, batches, misread>>

IngestSyncCrashes(n) ==
    /\ up[n]
    /\ \E e \in ingesting[n] :
          IsFirst(e, ingesting[n]) /\ CrashInAdd(n, e.message)
    /\ UNCHANGED <<nextSequence, published, acknowledged, written, replicas,
                   batches, misread>>

\* Application's constructor: MessageStore loads its table, MessageService
\* asks it for the next sequence of this node.  A SELECT that fails there
\* starts the node at 1 again, below what its table holds.
Start(n) ==
    /\ ~up[n]
    /\ up' = [up EXCEPT ![n] = TRUE]
    /\ store' = [store EXCEPT ![n] = LoadMessages(@)]
    /\ \E s \in NextSequenceAnswers(store[n], n, StorageFaults) :
          /\ nextSequence' = [nextSequence EXCEPT ![n] = s]
          /\ misread' = misread \cup {k \in {n} : s # NextSequence(store[n], n)}
    /\ UNCHANGED <<ingesting, published, acknowledged, written, requests, crashes>>

Next ==
    \/ \E n \in Authors, b \in Bodies :
          CreateLocal(n, b) \/ CreateLocalFails(n, b) \/ CreateLocalCrashes(n, b)
    \/ \E r \in replicas :
          \/ HandleReplicate(r)
          \/ HandleReplicateFails(r)
          \/ HandleReplicateCrashes(r)
          \/ LoseReplica(r)
    \/ \E n \in Nodes : \E peers \in ActivePeers(n) : SyncTimer(n, peers)
    \/ \E r \in summaries : HandleSummary(r) \/ LoseSummary(r)
    \/ \E r \in responses : HandleSummaryResponse(r) \/ LoseResponse(r)
    \/ \E r \in batches : HandleSyncMessages(r) \/ LoseBatch(r)
    \/ \E n \in Nodes :
          \/ IngestSync(n)
          \/ IngestSyncFails(n)
          \/ IngestSyncCrashes(n)
          \/ Crash(n)
          \/ Start(n)

Spec == Init /\ [][Next]_vars

-----------------------------------------------------------------------------
(* The specification with an event that breaks the continuity of a node *)

\* The database file of a stopped node is gone and its node-id is not: a
\* firmware upgrade keeps the files named in keep.d, and the database is not
\* one of them; nor does a changed "database" option move the old file.
LoseDatabase(n) ==
    /\ ~up[n]
    /\ store' = [store EXCEPT ![n] = EmptyStore]
    /\ UNCHANGED <<up, nextSequence, ingesting, published, acknowledged, written,
                   requests, misread, crashes>>

SpecWithDatabaseLoss ==
    Init /\ [][Next \/ \E n \in Nodes : LoseDatabase(n)]_vars

-----------------------------------------------------------------------------
(* Fairness.  The timer of a running node fires every 5 s, and on a link    *)
(* that keeps coming back the peer is in the registry again and again, and   *)
(* requests sent again and again get through again and again, to be handled *)
(* or to be refused for their size.  A callback that has started ends, and   *)
(* procd starts the daemon again.  Users are not fair, and neither is the    *)
(* one attempt to replicate a message.                                       *)
RefuseSummary(r) == Idle(r.dest) /\ ~FitsSummary(r) /\ LoseSummary(r)
RefuseResponse(r) == Idle(r.dest) /\ ~FitsResponse(r) /\ LoseResponse(r)
RefuseBatch(r) == Idle(r.dest) /\ ~FitsBatch(r) /\ LoseBatch(r)

SyncsWith(n, p) == \E peers \in ActivePeers(n) : p \in peers /\ SyncTimer(n, peers)

Fairness ==
    /\ \A n \in Nodes : WF_vars(IngestSync(n)) /\ WF_vars(Start(n))
    /\ \A l \in FairLinks :
          /\ SF_vars(SyncsWith(l[1], l[2]))
          /\ SF_vars(\E r \in summaries :
                        /\ Between(r, l[1], l[2])
                        /\ HandleSummary(r) \/ RefuseSummary(r))
          /\ SF_vars(\E r \in responses :
                        /\ Between(r, l[2], l[1])
                        /\ HandleSummaryResponse(r) \/ RefuseResponse(r))
          /\ SF_vars(\E r \in batches :
                        /\ Between(r, l[1], l[2])
                        /\ HandleSyncMessages(r) \/ RefuseBatch(r))

FairSpec == Spec /\ Fairness

-----------------------------------------------------------------------------
(* Properties *)

\* Every message that exists anywhere: in tables, in memory, shown to
\* browsers, on its way, or acknowledged to the user who wrote it.
HeldBy(n) ==
    Range(store[n].rows) \cup Range(store[n].messages) \cup
    {e.message : e \in ingesting[n]} \cup Range(published[n])

InFlight ==
    {r.message : r \in replicas} \cup
    UNION {{e.message : e \in r.messages} : r \in batches}

Copies == (UNION {HeldBy(n) : n \in Nodes}) \cup InFlight \cup acknowledged

\* An (origin, sequence) pair names one message in the whole mesh, for ever:
\* deduplication by it never drops a message that is not a copy.  The one
\* exception are origins whose next_sequence has answered 1 on an error: they
\* give their sequences to other messages.
Agreement ==
    \A m1, m2 \in Copies :
        Key(m1) = Key(m2) /\ m1.origin \notin misread => m1 = m2

\* Every copy anywhere is one its author's create_local has written: what a
\* failed create_local or a half-done batch leaves behind is on no node.
Provenance == Copies \subseteq written

\* The table "sequences" of an origin is ahead of every message it ever let
\* out, crash or not and misread or not: a restart that reads the row counts on
\* from above all of it, even when an earlier restart had begun at 1 again.
OriginAhead ==
    \A m \in Copies : m.sequence <= store[m.origin].sequences[m.origin]

\* A running node is about to use a sequence its own table has not seen, unless
\* its next_sequence has taken an error for an empty table.
NextIsFresh ==
    \A n \in Nodes : up[n] /\ n \notin misread => store[n].sequences[n] < nextSequence[n]

\* A user is answered 200 only for a message that is in the node's table,
\* under its own (origin, sequence) and with its own text, although the result
\* of add is discarded.  Where next_sequence was misread it is not so: the row
\* of an old message makes INSERT OR IGNORE drop the new one.
StoredBeforeReply ==
    [][\A m \in acknowledged' \ acknowledged :
          m.origin \notin misread => m \in Range(store'[m.origin].rows)]_vars

\* What a user was answered 200 for survives crashes and whatever peers send
\* (as long as nothing is trimmed, and next_sequence was not misread).
AcknowledgedKept ==
    \A m \in acknowledged :
        m.origin \notin misread => m \in Range(store[m.origin].rows)

\* A browser is told of a message at most once, whichever of replication and
\* sync deliver it and however often (while nothing is trimmed).
PublishedOnce ==
    \A n \in Nodes : \A i, j \in DOMAIN published[n] :
        Key(published[n][i]) = Key(published[n][j]) => i = j

\* No step, crash and restart included, takes a high-water mark back: what a
\* node has reported in a summary stays true.
HighWaterKept ==
    [][\A n, o \in Nodes : store[n].sequences[o] <= store'[n].sequences[o]]_vars

\* The stores, requests, crashes and restarts together implement the one log:
\* the messages written are the log and the tables are what nodes hold.  They
\* do so until a next_sequence is misread; the log has no such step.
Log == INSTANCE ChatLog WITH
    Sequences <- 1..MaxSequence,
    log <- written,
    visible <- [n \in Nodes |-> Range(store[n].rows)]

ImplementsLog == Log!LogInit /\ [][misread' = {} => Log!LogNext]_(Log!logVars)

\* Once users stop writing, every node learns the newest sequence of every
\* origin, over relays too, whatever requests are lost and nodes restarted.
NewestReachesEveryone ==
    <>[](\A n, o \in Nodes : store[n].sequences[o] = store[o].sequences[o])

\* A message accepted from a user reaches every node sooner or later.
MissedRangesRecovered ==
    \A o \in Authors, s \in 1..MaxSequence :
        (\E m \in acknowledged : Key(m) = <<o, s>>)
            ~> (\A n \in Nodes : Contains(store[n], <<o, s>>))
=============================================================================
