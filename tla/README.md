# les-mesh-chat in TLA+

A verification development for les-mesh-chat: the daemon `les-chatd`, which runs
on every node of a radio mesh, stores chat messages in SQLite, copies them to
the peers it can hear and recovers what it missed.  The modules are translated
from the C++ sources; `PROJECT.json` names the lines behind every definition.

Paths below are those of the repository; C++ files are in `src/`, headers in
`include/leschat/`.

## 1. Inventory

| Component | State | Operations | Talks to |
|---|---|---|---|
| `MessageStore` | SQLite tables `messages` and `sequences`, the vector `messages_` | `add` (insert, trim and retry), `contains`, `next_sequence`, `sequence_summary`, open, close | the database file |
| `MessageService` | `next_sequence_` | `create_local`, `ingest_replica`, `ingest_sync` | store, events, replication |
| `ReplicationService` | outgoing connections | `broadcast`, `handle_response` | registry, HTTP of the peers |
| `SyncService` | a 5 s timer, a context per request | `synchronize`, `handle_summary_response`, `send_missing`, `send_batch` | registry, store, HTTP of the peers |
| `HttpApi`, `http` | none of its own | routes, size limits, the handlers of `/api/v1/...` | all services |
| `is_valid_utf8`, message codec, `json` | none | validation, JSON out, JSON in | json-c |
| `DiscoveryService` | socket, 5 s timer | `announce`, `receive_announcements`, `synchronize_time` | registry, clock, UDP broadcast |
| `PeerRegistry` | `peers_` with `last_seen_ms` | `update`, `active_peers` | clock |
| `Clock` | system clock, `time_offset_ms` of the process | `current_time_ms`, `set_time_offset_ms` | kernel |
| `EventStream` | the open SSE requests | `subscribe`, `publish`, `handle_close` | browsers |
| `Application` | owns all of the above | construction, event loop | libevent, procd |
| Web client | list of messages, pending send | load, subscribe, send, reload | HTTP, SSE |
| LuCI chat view, rpcd bridge | list of messages, submission, composer | load, send, confirm from the history, poll | ubus, `wget` with a limit of 2 s |
| init and uci-defaults scripts | `/etc/config/les-chat`, `node-id`, `callsign` | first boot, upgrade | files kept by `keep.d` |

What is hard here:

* **Identity of a message.**  `(origin, sequence)` is the only identity.  The
  table deduplicates by it, sync asks for ranges of it, and nothing compares
  texts.  A sequence used twice silently loses a message, so the counter has to
  survive crashes, failing statements and trimming.
* **Two ways of delivery.**  A message is replicated once, best effort, and
  offered again by sync.  They race on the same store, and requests overtake
  each other because each has a connection of its own.
* **Stale summaries.**  A batch is chosen from a summary that was read earlier
  and is applied to a store that has moved on.
* **Partial failure.**  `add` is up to three transactions (insert, delete,
  insert) and a reload of `messages_`; each may throw.  A batch is committed
  message by message.
* **A full database.**  Trimming deletes rows and must leave the high-water
  marks alone.
* **Sizes.**  A posted body grows when it is escaped and wrapped for a peer, and
  a batch is counted in messages while it is limited in bytes.
* **Accepted here, refused there.**  `create_message` and `parse_message` check
  the same message in two places with two lists of conditions; `sync_messages`
  breaks off at the first message it refuses.
* **Answers that come too late.**  The bridge gives up after 2 s, the daemon
  does not; the view has to find out what became of a message.
* **A clock that is stepped** by the same datagrams that fill the registry
  whose ages are measured with it.

What correctness means, component by component: the store keeps one row per
key, trims only the oldest rows, only when it is full, and never forgets a
high-water mark; a message that is answered 200 is in the table; a key names
one message in the whole mesh; every copy was written by its author; the newest
message reaches everyone; a peer that was just heard is listed; a time client
stays close to its authority; what a node stores every peer accepts, unchanged;
a page shows the messages once, in order, and what it calls sent because of a
message it has got is in its list.

`PROJECT.json` lists the hazards one by one, each at the line where it bites.

## 2. Modules

| Module | Contents |
|---|---|
| `StoreOps` | the operations of `MessageStore` as operators on the value of one store |
| `MessageStore` | one store and its file: `AddMessage`, `AddThrows`, `Close`, `Open` |
| `MeshChat` | the whole mesh: a daemon per node (its store, counter, running batch and published events) and the four kinds of HTTP request between them |
| `ChatLog` | the abstract specification: one append-only log, of which each node shows a part |
| `Discovery` | announcements, registry and clocks |
| `WebClient` | the pages of one daemon, its event stream and the connections between them |
| `LuciChat` | one LuCI page, the bridge's calls and the daemon behind them |
| `Requests` | one POST from the client to the store of a peer: routes, checks, UTF-8, JSON |
| `StoreLemmas` | lemmas on the operators of `StoreOps` |
| `MessageStoreProofs`, `MeshChatProofs`, `MeshChatRefinement`, `DiscoveryProofs`, `WebClientProofs`, `LuciChatProofs`, `RequestsProofs` | the theorems about the module of the same name |
| `MCMessageStore`, `MCMeshChat`, `MCDiscovery`, `MCWebClient`, `MCLuciChat`, `MCRequests` | instances for TLC |

`StoreOps` is extended by `MessageStore` and by `MeshChat`, so what is checked
and proved of one store is about the same operators as the mesh.  The operators
whose comment begins with "Mutant" are not part of any specification: each is
a plausible mistake in the definition that follows it, and substituting it makes
the property named in `PROJECT.json` fail.

### The store

A store is the record of `rows` (table `messages` in `storage_id` order),
`sequences` (table `sequences`) and `messages` (the vector).  `Add` follows
`MessageStore::add`: `INSERT OR IGNORE`, on `SQLITE_FULL` a prune and one more
attempt, then `push_back`.  `AddErrors` is what `add` may leave when a statement
throws: nothing changed, or, in a full store, the oldest rows deleted and
`messages_` reloaded as far as the `SELECT` got.  `Storable` is the range check
at the head of `insert_message`: `MaxInteger` stands for the largest int64, a
larger sequence always throws.  `NextSequenceAnswers` is what `next_sequence` may
return: one more than the row of the origin, nothing (it throws) when there is no
such number, and 1 when its `SELECT` fails, because every result but a row is
taken for an origin without one.  `message_id` is made of
`origin`, `":"` and `sequence`, and a node id has no colon, so both `UNIQUE`
columns are the one `Key`.

### The mesh

| Action | Code |
|---|---|
| `CreateLocal`, `CreateLocalFails`, `CreateLocalCrashes` | `HttpApi::create_message`, `MessageService::create_local` |
| `HandleReplicate`, `...Fails`, `...Crashes` | `HttpApi::replicate_message`, `ingest_replica` |
| `SyncTimer` | `SyncService::timer_callback`, `synchronize` |
| `HandleSummary` | `HttpApi::sync_summary` |
| `HandleSummaryResponse` | `summary_response_callback`, `send_missing`, `send_batch` |
| `HandleSyncMessages`, `IngestSync`, `...Fails`, `...Crashes` | `HttpApi::sync_messages`, `ingest_sync` |
| `LoseReplica`, `LoseSummary`, `LoseResponse`, `LoseBatch` | a request or a reply fails; the callbacks only free it |
| `Crash`, `Start` | the process ends; `Application`'s constructor |
| `RefuseSummary`, `RefuseBatch` | the receiver's 413; to the sender a lost request, so they are steps of `LoseSummary` and `LoseBatch`, named for the fairness conditions |
| `RefuseResponse` | a response past the limit that `handle_summary_response` reads; the callback drops it, a step of `LoseResponse` |
| `LoseDatabase` | not in `Spec`: a database lost beside a kept node-id |

A daemon is one libevent loop, so a handler is one action.  The loop over a
batch is one action per message because each message has a transaction of its
own; until it ends the node is busy.  The actions ending in `Crashes` stop the
process inside `add` or between its commit and the first sign of it outside.
`Bytes` gives each text its size in a request, `OriginBytes` the size of an
entry of a summary; `FitsReplica`, `FitsSummary`, `FitsResponse` and `FitsBatch`
are the limits of `read_request_body`, and the handlers are guarded by them.
`written` (messages that were committed by their author, or returned),
`acknowledged` (answered 200) and `misread` are history variables.

`misread` holds the nodes that have once been started while the `SELECT` of
`next_sequence` failed (message_store.cpp:287) and that have counted from 1 over
a table that holds more.  With `StorageFaults` every `Start` may do that.  From
then on such a node gives keys of old messages to new ones: `add` ignores a row
whose key is still there, `create_local` answers 200 all the same, and a key that
was trimmed, or that only peers hold, names two messages.  So `Agreement`,
`NextIsFresh`, `StoredBeforeReply` and `AcknowledgedKept` speak of the messages
of origins that are not in `misread`, and `ImplementsLog` of the behaviour up to
the first misread.  What still holds of all nodes is that every copy is a
message its author made (`Provenance`), that high-water marks never go back
(`HighWaterKept`) and that the author's table is at or above everything it let
out (`OriginAhead`): the first restart whose `SELECT` works counts on from above
the reused range.

`Crash` is the end of the process, not of the machine: the database is opened
with `synchronous=NORMAL` (message_store.cpp:121), under which a power cut may
take the last commits along.  That is not modelled.

### Discovery

Real time, a skew per system clock, the offset of each process, the registry and
the datagrams under way.  `Receive` keeps the order of `receive_announcements`:
own announcements are dropped, an authority's time is applied, and only then is
`last_seen_ms` read.  `clock_settime` may fail or succeed each time.  `Tick`
lets no datagram wait longer than `MaxDelay`.  `Links` says who hears whom; a
node always hears itself.  `heard` and `settled` are history variables: when a
peer was last heard in real time, and which peers were heard since the node's
clock was last stepped.  `ListedIffRecent` is about the latter, in both
directions; for the others the registry compares times of two clocks.

### Pages and the event stream

`requests` is `requests_` of `EventStream`; a connection that breaks is noticed
by the browser (`OnError`) and by the daemon (`HandleClose`) independently, so a
page may have reopened its stream while its old request is still served.
`GetMessages`, `RenderMessages` and `Subscribe` are separate steps, because the
page waits for neither before starting the other.  `owed` is a history variable:
what was published since the page was complete and connected.

### The LuCI page

`call_send` posts and waits; `SendFails` is its `wget` giving up, or the reply
getting lost behind it; a request that the daemon has not read stays in `posted`
until it is read or refused or the daemon ends.  `SendBlank` is a call that
resolves to something that is no object (a ubus status, a text that is no JSON):
`normalizeRpcResult` makes it `{}`, in which `markSent` finds neither an error
nor a message, so the view says "Sent" and adds nothing (chat.js:269).
`ConfirmListed` is the history that `confirmStored` asks for and `Confirmed` or
`CouldNotSend` what the view makes of it.  A poll asks for status and history
separately (`PollStatus`, `PollListed`) and applies both at once (`PollDone`).
A message is its rank in the order of `compareMessages`; `own` and `body` are
what `confirmStored` compares, and `by` is a history variable that tells which
submission made it.

### Requests

A text is a sequence of bytes; a JSON string is a sequence of raw bytes, letter
escapes and `\u` escapes, decoded and encoded as json-c does (modelled as
external from how `json.cpp` calls it).  `Lead` and `Continuation` are one turn
of the loops of `is_valid_utf8`, which runs once for `create_message` and once
for `parse_message`.  `Refusal` is the list of `create_message`'s early
returns in their order, after those of `read_json_object`; `Parses` the
conditions of `parse_message`: all fields there with their types (`typed`), the
sequence, the names, the channel and the size of the body.  A name is its size
and the place of its first zero, where `c_str()` cuts it off in
`message_to_json` (`CStr`); those of the command line have no zero.  The
sequence is cast to int64 and back.  `Relayed` is the node's message after a
peer has parsed it and made JSON of it again.  The peer is also sent messages
that no les-chatd made (`Foreign`), so that each of its refusals happens.
`PeerNeverRefuses` is about the node's own messages, direct and relayed; it is
not claimed of messages of other programs that a peer has accepted: a name with
a zero in it is shorter, perhaps empty, when it is relayed.
`WellFormed` is the reference: a text that can be cut into the rows of
Unicode's table of well-formed byte sequences.

## 3. Abstractions

* Rows count as equally large: `Capacity` is the number of rows that fit
  whichever limit (`max_page_count`, the disk) is met first, and one prune is
  taken to make room for one row.  A `ROLLBACK` that itself fails is left out.
* A message of `MeshChat` is origin, sequence and body, and parses to itself;
  `Requests` is where that comes from.  Sizes are those of the texts, and the
  envelope is part of the limit.
* In `Requests` the two escapes of a surrogate pair are one character, and
  memory does not run out.  The routes are represented by three.
* In `LuciChat` scrolling, badges, the peer count, the hint for a blank text and
  the guard of the input method are left out; no message is trimmed.
* `ActivePeers` of `MeshChat` is any subset of the nodes that can be heard;
  `Discovery` has the registry itself.
* Identical requests in flight are one element of a set.  Handling one twice is
  not a behaviour of the code: HTTP requests are not retried.
* A failing `sequence_summary` on either side of an exchange has the effect of
  a lost summary.
* In `WebClient` a message is its rank in the order of `get_messages`; trimming,
  the panels for status and peers and the guard of the input method are left
  out.
* Socket set-up and the parsing of a datagram are left out of `Discovery`;
  clocks run at the same rate.

## 4. Model checking

| Run | Instance | Question |
|---|---|---|
| `store_faults` | 2 origins, 3 rows, prunes of 2, failing statements, sequences up to one past `MaxInteger` | are keys unique, sequences that are read from the table fresh, `messages_` sound, and exact while nothing fails, and trimming first-in first-out, only when full? |
| `mesh_faults` | 2 nodes, stores of 1 row, failing statements, that of `next_sequence` at the restart included, 2 sequences, 1 request of a kind in flight, 1 crash | the parts of the inductive invariant, what follows from it, and does the mesh implement `ChatLog`? |
| `mesh_converge` | a relay of 3 nodes, batches of 1, 2 crashes, losses, a text too large to replicate | is nothing acknowledged lost, no event published twice, and does the newest sequence reach the node two hops away? |
| `discovery_sync` | authority, client and a node without synchronisation, some out of range, clocks up to 3 ticks apart, delays up to 3 | is a heard peer listed, does the client follow, and is a peer heard since the last step of the clock listed exactly when it was heard within the timeout? |
| `web_page` | 1 page, 3 messages, 2 connections, failures | is a message shown once, and none missed while the connection holds? |
| `luci_view` | 1 page, 2 ranks, 2 submissions of one text, 1 crash, 1 reload | is the list in order, is "Sent" that rests on a message shown with one that is new, is every message listed again and again, does the composer come back? |
| `requests` | every string of up to 3 of 24 boundary characters, and of 4 that may open a four-byte sequence; a body of at most 4 bytes; the sequences 1, `MaxInteger` and one more | does the validator read inside its text and agree with Unicode, and does a peer accept and store exactly what the node stored? |

Five runs show a disagreement between the code and what is said of it:

* `mesh_gaps`: `send_missing` compares with the highest sequence the peer has of
  an origin.  A message whose replica was lost while a later one arrived is
  below that mark and is never offered again, although README.md:16 promises to
  recover missed sequence ranges.
* `database_loss`: `create_local` discards the result of `add`.  A node that
  keeps its node-id and loses its database (only node-id and callsign are in
  `keep.d`) starts at 1 again; when sync has brought back its old messages, a
  new one under a used key is ignored by the table, and still answered 200,
  published and replicated.  The LuCI view says "The daemon stores before
  replying."
* `sync_stall`: a batch holds up to 50 messages whatever they weigh, and the
  receiver takes 128 KiB.  Bodies that json-c escapes (slashes, quotes, control
  characters) grow to between two and six times their size; 50 of them are
  refused with 413, nothing is stored, and the next round builds the same batch.
  README.md:16 again.
* `luci_failure`: the daemon stores the message and answers, the answer is lost
  on its way through the bridge, the confirming call for the history fails too,
  and the view says "Could not send"; the poll that was under way then lists the
  message beside it.  The comment at chat.js:284 says that the confirmation
  avoids this.
* `web_updates`: the page reads the list and opens the event stream side by
  side and reads the list only once.  Even when nothing fails, a message stored
  after the list was answered and before the subscription is not shown until the
  page is reloaded, although README.md:19 speaks of real-time updates.

**Why these bounds.**  Identity can go wrong with two messages of one author
and one node that mixes them up.  One crash is enough to come back from any
state with the counter read from the table, or misread; the liveness run has two, so that the
author and the relay may each fail, and the line of three nodes forces messages
through a relay.  `Capacity` 1 and two sequences make every node trim and be
offered a trimmed key again.  In the store, prunes of 2 from 3 rows
leave a row behind, so that order matters.  Batches of one message need several
rounds for two messages.  The time bound in `Discovery` exceeds
timeout and delay together, and the clocks differ by more than the tolerance.  `mesh_converge` checks `AcknowledgedKept` and
`PublishedOnce` with room to spare and without storage faults on purpose: a full
store does forget, and a failing `contains` does publish twice (the pages drop
the second event by its id: `ShownOnce`).

Two submissions of the same text, and other writers with that text, are what
`confirmStored` could confuse; two ranks put one message before the other.  The
bytes of `requests` are the first and the last of every range in the code or in
the table; a character has at most four bytes, and a turn of the loop depends on
nothing before it, so three or four characters meet every pair of neighbours.
The limits on names are the code's own, `MaxInteger` is small and the sequences
lie at 1 and on both sides of it.

Three messages and two connections let a page reconnect and be told of a message
by list, stream and reply in any order; a connection that lingers in `requests_`
stands for other pages as well.

**Fairness** (`mesh_converge`, `mesh_gaps`, `sync_stall`).  A callback that has begun ends
(weak fairness of `IngestSync`), and procd starts the daemon again (weak fairness
of `Start`).  On each link of `FairLinks` the timer, the summary, its response
and the batch are strongly fair: the timer is persistent and fires every 5 s, so
on a link that comes back again and again an exchange is tried again and again,
and the model asks that it does not fail for ever.  A request that the receiver answers with 413 is answered, so fairness of the
handlers of summaries and batches is stated for handling or refusing.
Replication is not fair, because it is tried once; nor are users.  In `web_updates` the daemon answers,
the browser reads what arrives and renders it, and a page without a stream gets
one (strong fairness, because the daemon may be down in between).  In `luci_view`
calls end because `wget` has a time limit, the poll of LuCI fires every 2 s, the
daemon is started again, and a poll that finds it up happens again and again.

## 5. Proofs

All theorems hold for every value of the constants: any set of nodes, links,
pages, connections, texts, requests and ranks, any capacity, prune limit, batch
limit, timeout, tolerance and bound.  What is assumed of them is named in the
module that declares them:

| Module | Assumptions |
|---|---|
| `StoreOps` | `Nodes` is not empty; `Capacity`, `PruneLimit` and `MaxInteger` are positive |
| `MeshChat` | `MaxSequence` is at most `MaxInteger`; a link joins two different nodes, `FairLinks` are links, `Authors` are nodes; `BatchLimit` is positive; sizes and limits are natural numbers |
| `Discovery` | timeout and delay are natural numbers, the tolerance is positive, modes, links and skews have their types, and (`EpochAssumption`) the clock of an authority reads a time after the epoch, because `synchronize_time` ignores a time that is not positive |
| `WebClient`, `LuciChat` | bounds and ranks are natural numbers; `"none"` is not a connection |
| `Requests` | limits and lengths are natural numbers, sequences and their digits positive (`next_sequence` starts at 1, and wrapping round to 0 takes 2^63 failing posts); (`IdAssumption`) a node id of the longest length, a colon and the digits of the sequence fit a message id, 64 + 1 + 20 <= 160 in the code; (`StringsAssumption`) bodies are sequences of JSON characters |

Each safety theorem has the same shape: an invariant `IInv` holds initially, one
lemma per action (or group of actions that touch the same state) shows that the
action keeps it, and the property follows from `IInv`.  The conjuncts of `IInv`
hold on the instances of section 4 as well.

**One store** (`MessageStoreProofs`).  `TypeOK`, `UniqueKeys` and `CacheSound`
are proved from their conjunction with `AtMostHighWater` (no row ever committed
is above the high-water mark of its origin), which is inductive; the answer of
`next_sequence` is above that mark when its `SELECT` works, which is
`NextSequenceFresh`.  The lemmas of `StoreLemmas` say what `Add` and `AddErrors` do to
rows, keys and high-water marks; the rest is one step per action.  For
`CacheSound` every prune is followed by a reload, whole or half-way, so
`messages_` never outlives the rows it was read from, and a push appends to both.
`TrimsOldestFirst`, `TrimsOnlyWhenFull` and `CacheExact` are action properties:
`DeleteOldestShifts` says by how much a prune moves each row.

**The mesh** (`MeshChatProofs`).  `Agreement` is not inductive: from a state
in which a node's counter lags behind a message it let out, the next
`CreateLocal` breaks it.  The invariant is the conjunction of `TypeOK`, of
`AllTraceable` (every copy, wherever it is, is in `written`), of `TableAhead`
(the author's own table is at or above every written sequence), of
`NextIsFresh` (the counter of a running node that has not misread is above its
own table) and of `UniqueLog` (`written` has one message per key of an origin
that has not misread).  A new message of such a node takes the counter, which is
above the table, which is above everything written, so its key is new; it is
written to the table before it is let out, so a restart that reads the table is
ahead again.  A failed `add` leaves the table where it was.  A restart that
misreads puts the node into `misread`, for good.  `TableAhead` needs no such
restriction: a message with an old key is below the mark already, and `Larger`
keeps the mark.  `Agreement`, `Provenance`, `OriginAhead` and `NextIsFresh` are
consequences.
The size limits are guards and do not enter the argument: nothing is refused
wrongly as far as safety goes.
`HighWaterKept` and `StoredBeforeReply` are action properties proved from the
same invariant; the second needs `NextIsFresh`, because `create_local` discards
the result of `add` and only the fresh key guarantees that a row was inserted.

`AcknowledgedKept` and `PublishedOnce` are not true of every behaviour: a full
store forgets.  They are proved of the behaviours in which no store is full yet
(`[]RoomEverywhere`, true for ever when `Capacity` exceeds what can be written,
as in `mesh_converge`, and until the first trim otherwise).  Then no step takes a
row away (`RowsKept`): add(), thrown or not, deletes from a full store only, and
crash and restart keep the table.  The first theorem needs, beside it, only that
the row was inserted (`StoredBeforeReply`), and holds with failing statements for
nodes that have not misread.  The second is about a store whose statements do
not fail (`~StorageFaults`), since `contains()` takes an error for "no"; its
invariant adds that a node's table has a row for whatever the node has published
(`PublishedStored`), and each of the three handlers publishes only what the table
did not have (`PublishStep`; for `create_local` this is `NextIsFresh` again).

**Refinement** (`MeshChatRefinement`).  With `log` mapped to `written` and
`visible[n]` to the rows of `n`, every step of the mesh is a step of `ChatLog` or
a stutter: local messages accept, replicas and batches learn (they carry only
messages of the log, by `AllTraceable`), trimming forgets, everything else
stutters.  The abstract log has one message per key, so this is so as long as
`misread` is empty.

**Discovery** (`DiscoveryProofs`).  `ClientFollowsAuthority` needs that an
authority's clock is never stepped (`AuthoritySteady`), that a datagram carries
its sender's clock at `sentAt` and is at most `MaxDelay` old (`DatagramsTrue`),
and that a synced node is a client (`SyncedAreClients`); the bound then follows
from one announcement, whichever arrives last.  `ListedIffRecent` needs that the
`last_seen_ms` of a settled peer is the node's present clock less the real time
that has passed (`SettledByClock`).  `HeardIsListed` is the action property that
`last_seen_ms` is read after the clock was stepped, not before.

**Pages** (`WebClientProofs`).  `ShownOnce` needs that the reply of
`get_messages` has no repetition.  `NothingMissedWhileConnected` needs that the
stream of a page is in `requests_` or is known to be broken, that no two pages
share one, and that a page is owed nothing before its list is rendered.
`HandleClose` erases the first entry equal to its own; the lemma on `RemoveAt`
shows that the others stay.

**The LuCI page** (`LuciChatProofs`).  `ListInOrder` rests on `AppendMessageIs`:
appendMessage of a message to an ordered list gives an ordered list with that
message in it, wherever it belongs.  The loop of a poll is a recursive function
and the sorted reply a choice, and both are shown to exist (`ListsExist`,
`OrderExists`), the second by appending the messages of a finite set one by one.
The invariant adds that stored messages have different ranks, that what the
daemon has not read of the submission under way is its text, and that the
daemon's reply to it holds the submission's own message, which is new
(`AnsweredIsNew`).  `SentIsShown` follows from it for a reply, and for a
confirmation from the comparisons of `confirmStored`.  It says nothing of a
blank reply, and it does not say that the confirmed message is the submission's:
an own message of the same text that was stored before the submission and has
not been polled passes those comparisons.

**Requests** (`RequestsProofs`).  `CharacterAtIsWellFormed` is the heart: an
iteration of `is_valid_utf8` accepts precisely the byte sequences of one row of
Unicode's table, shown case by case over the lead bytes from the arithmetic on
`code_point`.  `Behind(text, index)` then says that what is behind the index
divides into characters and that no other division of the text could avoid
this boundary; it is the invariant of the outer loop (`BehindIndex`), and at the
end it gives both halves of `VerdictIsUnicode`.  `MidCharacter` is the invariant
of the inner loop and gives `ReadsInside`.  `RoundTrip` (what json-c writes of a
text it reads back as that text) gives `PeerStoresTheBody`, and with
`AcceptedIsWellFormed`, `IdAssumption` and `SequenceFits` (the store has refused
a sequence past int64) `PeerNeverRefuses`: the second validator sees the bytes
that the first has accepted, and `StoredParses` goes through the conditions of
`parse_message` one by one.  The relayed message equals the direct one.

**Induction.**  The induction theorems of the library take a predicate as a
parameter, which the provers cannot instantiate.  `SetInduction` is stated for a
set of numbers and derived from the least-element theorem for well-founded
relations, so induction over data is possible where the property can be written
as a set; recursive functions are shown to exist with it.

**Only model-checked.**  The liveness properties `NewestReachesEveryone`,
`EveryMessageListed` and `ComposerComesBack`, since liveness under fairness and
`ENABLED` are beyond the prover.  Every invariant and every action property of
the passing runs is also a theorem.

## 6. Known limitations without a run

Read in the code while modelling.  The first two make properties false that one
would want; the properties are restricted accordingly, and say so.

* `next_sequence` takes an SQLite error for an origin without messages
  (message_store.cpp:287) and starts at 1.  The model has this (`misread`,
  section 2): afterwards keys are reused, and messages are answered 200 and not
  stored, as in `database_loss`.
* A failing ubus call makes the LuCI view say "Sent" (chat.js:269), and
  `confirmStored` may take an own older message of the same text, not polled
  yet, for the new one.  The model has both; `SentIsShown` excludes the first and
  does not rule out the second.
* A power cut may take committed messages along (`synchronous=NORMAL`), after
  which the counter goes back to keys that peers already hold.
* A client whose clock is stepped back does not list peers heard before the
  step until they are heard again, because their age is negative
  (peer_registry.cpp:29).  `ListedIffRecent` leaves these out.
* settings.js:123 speaks of accepting the first announced authority, while an
  empty `time_authority_id` follows every authority (discovery_service.cpp:238).
  `Accepts` models what the code does.
* A summary names all origins although the receiver only answers it; with some
  170 of them it exceeds 4096 bytes and is refused.
* A page whose POST loses its reply reports a failure and the user may send the
  text again (app.js:368).  The request carries no id that could tell.

## 7. Not modelled, and the plan

Done: all modules of section 2 and their runs; the theorems of section 5, which
cover every safety property of the passing runs.  What is left:

1. A bound on constants that implies `[]RoomEverywhere` (as many rows as authors
   times sequences), so that `AcknowledgedKept` and `PublishedOnce` can be stated
   without a temporal hypothesis for small meshes.
2. What trimming costs: that a node publishes a message again only after its row
   was trimmed.

Not planned: the init and uci-defaults scripts beyond their effect on identity,
the remaining command-line options, static pages, the panels of both user
interfaces, build, packaging and feed scripts.  They keep no state that the
properties are about.
