--------------------------- MODULE MeshChatProofs ---------------------------
(***************************************************************************)
(* Theorems about MeshChat, for any number of nodes, any store size, batch *)
(* limit, links and bounds, with storage faults, losses and crashes.       *)
(*                                                                         *)
(* The inductive invariant.  Agreement alone is not inductive: a node that *)
(* restarts takes its next sequence from its own table, so one needs that  *)
(* the table is ahead of everything the node ever let out (OriginAhead),   *)
(* that the running process is ahead of its table (NextIsFresh), and that  *)
(* copies come from nowhere but create_local (Provenance).  A restart     *)
(* whose next_sequence fails unnoticed begins at 1: what is said of keys   *)
(* and of the counter is said of the other nodes only (misread), what is   *)
(* said of the tables of all.                                              *)
(***************************************************************************)
EXTENDS MeshChat, StoreLemmas

\* Provenance, spelled out over the places where a message may be.
Traceable(k) ==
    /\ Range(store[k].rows) \subseteq written
    /\ Range(store[k].messages) \subseteq written
    /\ \A e \in ingesting[k] : e.message \in written
    /\ Range(published[k]) \subseteq written

AllTraceable ==
    /\ \A k \in Nodes : Traceable(k)
    /\ \A r \in replicas : r.message \in written
    /\ \A r \in batches : \A e \in r.messages : e.message \in written

\* OriginAhead and Agreement, of the accepted messages alone.
TableAhead ==
    \A m \in written : m.sequence <= store[m.origin].sequences[m.origin]

UniqueLog ==
    \A m1, m2 \in written :
        Key(m1) = Key(m2) /\ m1.origin \notin misread => m1 = m2

IInv == TypeOK /\ AllTraceable /\ TableAhead /\ NextIsFresh /\ UniqueLog

\* What HighWaterKept says of one step.
HighWaterStep ==
    \A n, o \in Nodes : store[n].sequences[o] <= store'[n].sequences[o]

-----------------------------------------------------------------------------
(* Steps of one store, seen from the stores of all nodes *)

\* t is s after a step in which at most the messages of S were added and no
\* high-water mark moved other than up to the sequence of one of them.
StoreStep(s, t, S) ==
    /\ t \in [Nodes -> Store]
    /\ \A k \in Nodes :
          /\ Range(t[k].rows) \subseteq Range(s[k].rows) \cup S
          /\ Range(t[k].messages) \subseteq
                Range(s[k].rows) \cup Range(s[k].messages) \cup S
    /\ \A k, o \in Nodes :
          /\ s[k].sequences[o] <= t[k].sequences[o]
          /\ \/ t[k].sequences[o] = s[k].sequences[o]
             \/ \E m \in S : m.origin = o /\ t[k].sequences[o] = m.sequence

\* An add() at one node.
LEMMA AddStep ==
    ASSUME NEW s \in [Nodes -> Store], NEW n \in Nodes, NEW m \in Message,
           NEW S, m \in S
    PROVE  StoreStep(s, [s EXCEPT ![n] = Add(@, m)], S)
<1> DEFINE t == [s EXCEPT ![n] = Add(@, m)]
<1>1. /\ Add(s[n], m) \in Store
      /\ Range(Add(s[n], m).rows) \subseteq Range(s[n].rows) \cup {m}
      /\ Range(Add(s[n], m).messages) \subseteq
            Range(s[n].rows) \cup Range(s[n].messages) \cup {m}
      /\ \A o \in Nodes : Add(s[n], m).sequences[o] =
            IF o = m.origin /\ AddReturns(s[n], m)
            THEN Larger(s[n].sequences[o], m.sequence)
            ELSE s[n].sequences[o]
  BY AddType
<1>2. t \in [Nodes -> Store] /\ t[n] = Add(s[n], m)
  BY <1>1
<1>3. \A k \in Nodes : k # n => t[k] = s[k]
  OBVIOUS
<1>4. \A k, o \in Nodes : s[k].sequences[o] \in Nat
  BY DEF Store
<1>5. m.sequence \in Nat
  BY DEF Message
<1> HIDE DEF t
<1>6. ASSUME NEW k \in Nodes, NEW o \in Nodes
      PROVE  /\ s[k].sequences[o] <= t[k].sequences[o]
             /\ \/ t[k].sequences[o] = s[k].sequences[o]
                \/ m.origin = o /\ t[k].sequences[o] = m.sequence
  <2>1. CASE k # n
    BY <2>1, <1>3, <1>4
  <2>2. CASE k = n
    BY <2>2, <1>1, <1>2, <1>4, <1>5 DEF Larger
  <2> QED
    BY <2>1, <2>2
<1>7. ASSUME NEW k \in Nodes
      PROVE  /\ Range(t[k].rows) \subseteq Range(s[k].rows) \cup {m}
             /\ Range(t[k].messages) \subseteq
                   Range(s[k].rows) \cup Range(s[k].messages) \cup {m}
  BY <1>1, <1>2, <1>3
<1>8. StoreStep(s, t, S)
  BY <1>2, <1>6, <1>7 DEF StoreStep
<1> QED
  BY <1>8 DEF t

\* A step at one node that adds nothing and moves no high-water mark: an
\* add() that throws, the end of the process, load_messages.
LEMMA NoAddStep ==
    ASSUME NEW s \in [Nodes -> Store], NEW n \in Nodes, NEW st \in Store,
           Range(st.rows) \subseteq Range(s[n].rows),
           Range(st.messages) \subseteq Range(s[n].rows) \cup Range(s[n].messages),
           st.sequences = s[n].sequences,
           NEW S
    PROVE  StoreStep(s, [s EXCEPT ![n] = st], S)
<1> DEFINE t == [s EXCEPT ![n] = st]
<1>1. t \in [Nodes -> Store] /\ t[n] = st
  OBVIOUS
<1>2. \A k \in Nodes : k # n => t[k] = s[k]
  OBVIOUS
<1>3. \A k, o \in Nodes : s[k].sequences[o] \in Nat
  BY DEF Store
<1> HIDE DEF t
<1>4. \A k \in Nodes : t[k].sequences = s[k].sequences
  BY <1>1, <1>2
<1>5. ASSUME NEW k \in Nodes
      PROVE  /\ Range(t[k].rows) \subseteq Range(s[k].rows)
             /\ Range(t[k].messages) \subseteq
                   Range(s[k].rows) \cup Range(s[k].messages)
  BY <1>1, <1>2
<1>6. ASSUME NEW k \in Nodes, NEW o \in Nodes
      PROVE  /\ s[k].sequences[o] <= t[k].sequences[o]
             /\ t[k].sequences[o] = s[k].sequences[o]
  BY <1>3, <1>4
<1>7. StoreStep(s, t, S)
  BY <1>1, <1>5, <1>6 DEF StoreStep
<1> QED
  BY <1>7 DEF t

\* The process ends after such a step: the vector is gone, the file is not.
LEMMA ClosedStep ==
    ASSUME NEW s \in [Nodes -> Store], NEW n \in Nodes, NEW st \in Store, NEW S,
           StoreStep(s, [s EXCEPT ![n] = st], S)
    PROVE  StoreStep(s, [s EXCEPT ![n] = Closed(st)], S)
<1> DEFINE t == [s EXCEPT ![n] = st]
           u == [s EXCEPT ![n] = Closed(st)]
<1>1. <<>> \in Seq(Message) /\ Range(<<>>) = {}
  BY EmptySeq DEF Range
<1>2. /\ Closed(st) \in Store /\ Closed(st).rows = st.rows
      /\ Closed(st).messages = <<>> /\ Closed(st).sequences = st.sequences
  BY <1>1 DEF Closed, Store
<1>3. u \in [Nodes -> Store] /\ u[n] = Closed(st) /\ t[n] = st
  BY <1>2
<1>4. \A k \in Nodes : k # n => u[k] = s[k] /\ t[k] = s[k]
  OBVIOUS
<1>5. StoreStep(s, t, S)
  OBVIOUS
<1> HIDE DEF t, u
<1>6. \A k \in Nodes : u[k].sequences = t[k].sequences /\ u[k].rows = t[k].rows
  BY <1>2, <1>3, <1>4
<1>7. \A k \in Nodes : Range(u[k].messages) \subseteq Range(t[k].messages)
  BY <1>1, <1>2, <1>3, <1>4
<1>8. ASSUME NEW k \in Nodes
      PROVE  /\ Range(u[k].rows) \subseteq Range(s[k].rows) \cup S
             /\ Range(u[k].messages) \subseteq
                   Range(s[k].rows) \cup Range(s[k].messages) \cup S
  <2>1. /\ Range(t[k].rows) \subseteq Range(s[k].rows) \cup S
        /\ Range(t[k].messages) \subseteq
              Range(s[k].rows) \cup Range(s[k].messages) \cup S
    BY <1>5 DEF StoreStep
  <2> QED
    BY <2>1, <1>6, <1>7
<1>9. ASSUME NEW k \in Nodes, NEW o \in Nodes
      PROVE  /\ s[k].sequences[o] <= u[k].sequences[o]
             /\ \/ u[k].sequences[o] = s[k].sequences[o]
                \/ \E m \in S : m.origin = o /\ u[k].sequences[o] = m.sequence
  BY <1>5, <1>6 DEF StoreStep
<1>10. StoreStep(s, u, S)
  BY <1>3, <1>8, <1>9 DEF StoreStep
<1> QED
  BY <1>10 DEF u

\* A step that leaves all stores alone.
LEMMA SameStores ==
    ASSUME NEW s \in [Nodes -> Store], NEW S
    PROVE  StoreStep(s, s, S)
<1>1. \A k, o \in Nodes : s[k].sequences[o] \in Nat
  BY DEF Store
<1> QED
  BY <1>1 DEF StoreStep

-----------------------------------------------------------------------------
(* The inductive invariant *)

\* The invariant implies the properties the runs check.
LEMMA IInvImplies == IInv => Provenance /\ OriginAhead /\ Agreement
<1> SUFFICES ASSUME IInv PROVE Provenance /\ OriginAhead /\ Agreement
  OBVIOUS
<1>1. \A k \in Nodes : HeldBy(k) \subseteq written
  BY DEF IInv, AllTraceable, Traceable, HeldBy
<1>2. InFlight \subseteq written
  BY DEF IInv, AllTraceable, InFlight
<1>3. Copies \subseteq written
  BY <1>1, <1>2 DEF Copies, IInv, TypeOK
<1> QED
  BY <1>3 DEF IInv, Provenance, OriginAhead, Agreement, TableAhead, UniqueLog

\* It holds when the nodes start with empty databases.
LEMMA InitIInv == Init => IInv
<1> SUFFICES ASSUME Init PROVE IInv
  OBVIOUS
<1>1. EmptyStore \in Store /\ Range(EmptyStore.rows) = {} /\ Range(EmptyStore.messages) = {}
  BY EmptyStoreType
<1>2. <<>> \in Seq(Message) /\ Range(<<>>) = {}
  BY EmptySeq DEF Range
<1>3. TypeOK
  BY <1>1, <1>2 DEF Init, TypeOK, Batch
<1>4. AllTraceable
  BY <1>1, <1>2 DEF Init, AllTraceable, Traceable
<1>5. NextIsFresh
  BY DEF Init, NextIsFresh, EmptyStore
<1>6. TableAhead /\ UniqueLog
  BY DEF Init, TableAhead, UniqueLog
<1> QED
  BY <1>3, <1>4, <1>5, <1>6 DEF IInv

\* A step that accepts no new message keeps the invariant, provided that it
\* keeps types and provenance and that next_sequence_ is kept or was just
\* read from the table.
LEMMA QuietStep ==
    ASSUME IInv, TypeOK', AllTraceable', written' = written,
           StoreStep(store, store', written),
           misread \subseteq misread',
           \A k \in Nodes : up'[k] /\ k \notin misread' =>
              \/ up[k] /\ nextSequence'[k] = nextSequence[k]
              \/ nextSequence'[k] = NextSequence(store'[k], k)
    PROVE  IInv' /\ HighWaterStep
<1>1. \A k, o \in Nodes : store[k].sequences[o] \in Nat /\ store'[k].sequences[o] \in Nat
  BY DEF IInv, TypeOK, Store
<1>2. \A m \in written : m.origin \in Nodes /\ m.sequence \in Nat
  BY DEF IInv, TypeOK, Message
<1>3. TableAhead'
  <2> SUFFICES ASSUME NEW m \in written
               PROVE  m.sequence <= store'[m.origin].sequences[m.origin]
    BY DEF TableAhead
  <2>1. m.sequence <= store[m.origin].sequences[m.origin]
    BY DEF IInv, TableAhead
  <2>2. store[m.origin].sequences[m.origin] <= store'[m.origin].sequences[m.origin]
    BY <1>2 DEF StoreStep
  <2> QED
    BY <1>1, <1>2, <2>1, <2>2
<1>4. NextIsFresh'
  <2> SUFFICES ASSUME NEW k \in Nodes, up'[k], k \notin misread'
               PROVE  store'[k].sequences[k] < nextSequence'[k]
    BY DEF NextIsFresh
  <2>1. CASE nextSequence'[k] = NextSequence(store'[k], k)
    BY <1>1, <2>1 DEF NextSequence
  <2>2. CASE up[k] /\ nextSequence'[k] = nextSequence[k]
    <3>1. store[k].sequences[k] < nextSequence[k]
      BY <2>2 DEF IInv, NextIsFresh
    <3>2. CASE store'[k].sequences[k] = store[k].sequences[k]
      BY <3>1, <3>2, <2>2
    <3>3. CASE \E m \in written :
                  m.origin = k /\ store'[k].sequences[k] = m.sequence
      <4>1. PICK m \in written :
                  m.origin = k /\ store'[k].sequences[k] = m.sequence
        BY <3>3
      <4>2. m.sequence <= store[k].sequences[k]
        BY <4>1 DEF IInv, TableAhead
      <4>3. nextSequence[k] \in Nat
        BY DEF IInv, TypeOK
      <4> QED
        BY <1>1, <2>2, <3>1, <4>1, <4>2, <4>3
    <3> QED
      BY <3>2, <3>3 DEF StoreStep
  <2> QED
    BY <2>1, <2>2
<1>5. UniqueLog'
  BY DEF IInv, UniqueLog
<1>6. HighWaterStep
  BY DEF HighWaterStep, StoreStep
<1> QED
  BY <1>3, <1>4, <1>5, <1>6 DEF IInv

-----------------------------------------------------------------------------
(* One lemma per action, or per group of actions that touch the same state *)

\* Losing a request, sending or answering a summary: no message moves.
LEMMA NetworkStep ==
    ASSUME IInv,
           UNCHANGED <<store, up, nextSequence, ingesting, published,
                       acknowledged, written, misread, crashes>>,
           replicas' \subseteq replicas,
           summaries' \subseteq [source : Nodes, dest : Nodes, origins : SUBSET Nodes],
           responses' \subseteq [source : Nodes, dest : Nodes, origins : [Nodes -> Nat]],
           batches' \subseteq batches
    PROVE  IInv' /\ HighWaterStep
<1>1. TypeOK'
  BY DEF IInv, TypeOK
<1>2. AllTraceable'
  BY DEF IInv, AllTraceable, Traceable
<1>3. StoreStep(store, store', written)
  BY SameStores DEF IInv, TypeOK
<1> QED
  BY <1>1, <1>2, <1>3, QuietStep

\* publish keeps the history of events typed and adds one message to it.
LEMMA PublishType ==
    ASSUME NEW n \in Nodes, NEW m \in Message, TypeOK, Publish(n, m)
    PROVE  /\ published' \in [Nodes -> Seq(Message)]
           /\ Range(published'[n]) = Range(published[n]) \cup {m}
           /\ \A k \in Nodes : k # n => published'[k] = published[k]
<1>1. published[n] \in Seq(Message)
  BY DEF TypeOK
<1>2. /\ Append(published[n], m) \in Seq(Message)
      /\ Range(Append(published[n], m)) = Range(published[n]) \cup {m}
  BY <1>1, RangeAppend
<1> QED
  BY <1>2 DEF TypeOK, Publish

\* The tables and vectors hold only what they held and accepted messages.
LEMMA StoresTraceable ==
    ASSUME IInv, StoreStep(store, store', written), NEW k \in Nodes
    PROVE  /\ Range(store'[k].rows) \subseteq written
           /\ Range(store'[k].messages) \subseteq written
<1>1. /\ Range(store[k].rows) \subseteq written
      /\ Range(store[k].messages) \subseteq written
  BY DEF IInv, AllTraceable, Traceable
<1>2. /\ Range(store'[k].rows) \subseteq Range(store[k].rows) \cup written
      /\ Range(store'[k].messages) \subseteq
            Range(store[k].rows) \cup Range(store[k].messages) \cup written
  BY DEF StoreStep
<1> QED
  BY <1>1, <1>2

\* A failed create_local uses up a sequence and accepts nothing.
LEMMA CreateLocalFailsStep ==
    ASSUME IInv, NEW n \in Nodes, NEW b \in Bodies, CreateLocalFails(n, b)
    PROVE  IInv' /\ HighWaterStep
<1> USE DEF IInv
<1>1. NewMessage(n, b) \in Message
  BY DEF NewMessage, Message, TypeOK
<1>2. PICK st \in AddErrors(store[n], NewMessage(n, b)) :
         store' = [store EXCEPT ![n] = st]
  BY DEF CreateLocalFails
<1>3. store \in [Nodes -> Store]
  BY DEF TypeOK
<1>4. /\ st \in Store
      /\ Range(st.rows) \subseteq Range(store[n].rows)
      /\ Range(st.messages) \subseteq Range(store[n].rows) \cup Range(store[n].messages)
      /\ st.sequences = store[n].sequences
  BY <1>1, <1>2, <1>3, AddErrorsType
<1>5. StoreStep(store, store', written)
  BY <1>2, <1>3, <1>4, NoAddStep
<1>6. nextSequence' = [nextSequence EXCEPT ![n] = @ + 1]
  BY DEF CreateLocalFails
<1>7. nextSequence' \in [Nodes -> Nat \ {0}] /\ \A k \in Nodes : nextSequence[k] <= nextSequence'[k]
  BY <1>6 DEF TypeOK
<1>8. TypeOK'
  BY <1>5, <1>7 DEF TypeOK, CreateLocalFails, StoreStep, requests
<1>9. AllTraceable'
  BY <1>5, StoresTraceable DEF AllTraceable, Traceable, CreateLocalFails, requests
<1>10. \A k \in Nodes : store'[k].sequences = store[k].sequences
  BY <1>2, <1>3, <1>4
<1>11. \A k, o \in Nodes : store[k].sequences[o] \in Nat
  BY <1>3 DEF Store
<1>12. TableAhead' /\ UniqueLog'
  <2>1. written' = written /\ misread' = misread
    BY DEF CreateLocalFails
  <2>2. \A m \in written : m.origin \in Nodes
    BY DEF TypeOK, Message
  <2> QED
    BY <1>10, <2>1, <2>2 DEF TableAhead, UniqueLog
<1>13. NextIsFresh'
  <2> SUFFICES ASSUME NEW k \in Nodes, up'[k], k \notin misread'
               PROVE  store'[k].sequences[k] < nextSequence'[k]
    BY DEF NextIsFresh
  <2>1. store[k].sequences[k] < nextSequence[k]
    BY DEF NextIsFresh, CreateLocalFails
  <2>2. nextSequence[k] \in Nat /\ nextSequence'[k] \in Nat
    BY <1>7 DEF TypeOK
  <2> QED
    BY <1>7, <1>10, <1>11, <2>1, <2>2
<1>14. HighWaterStep
  BY <1>5 DEF HighWaterStep, StoreStep
<1> QED
  BY <1>8, <1>9, <1>12, <1>13, <1>14

\* A replica is stored and shown only as the accepted message it carries.
LEMMA HandleReplicateStep ==
    ASSUME IInv, NEW r \in replicas, HandleReplicate(r)
    PROVE  IInv' /\ HighWaterStep
<1> DEFINE n == r.dest
           m == r.message
<1>1. n \in Nodes /\ m \in Message /\ m \in written /\ store \in [Nodes -> Store]
  BY DEF IInv, TypeOK, AllTraceable
<1>2. /\ UNCHANGED <<up, nextSequence, ingesting, acknowledged, written, summaries,
                     responses, batches, misread, crashes>>
      /\ replicas' = replicas \ {r}
  BY DEF HandleReplicate
<1>3. CASE UNCHANGED <<store, published>>
  <2>1. replicas' \subseteq replicas /\ summaries' \subseteq [source : Nodes, dest : Nodes, origins : SUBSET Nodes]
        /\ responses' \subseteq [source : Nodes, dest : Nodes, origins : [Nodes -> Nat]]
        /\ batches' \subseteq batches
    BY <1>2 DEF IInv, TypeOK
  <2> QED
    BY <1>2, <1>3, <2>1, NetworkStep
<1>4. CASE store' = [store EXCEPT ![n] = Add(@, m)] /\ Publish(n, m)
  <2>1. StoreStep(store, store', written)
    BY <1>1, <1>4, AddStep
  <2>2. /\ published' \in [Nodes -> Seq(Message)]
        /\ Range(published'[n]) = Range(published[n]) \cup {m}
        /\ \A k \in Nodes : k # n => published'[k] = published[k]
    BY <1>1, <1>4, PublishType DEF IInv
  <2> HIDE DEF n, m
  <2>3. TypeOK'
    BY <1>2, <2>1, <2>2 DEF IInv, TypeOK, StoreStep
  <2>4. ASSUME NEW k \in Nodes
        PROVE  Range(published'[k]) \subseteq written
    BY <1>1, <2>2 DEF IInv, AllTraceable, Traceable
  <2>5. AllTraceable'
    BY <1>2, <2>1, <2>4, StoresTraceable DEF IInv, AllTraceable, Traceable
  <2> QED
    BY <1>2, <2>1, <2>3, <2>5, QuietStep
<1> QED
  BY <1>3, <1>4 DEF HandleReplicate, IngestReplica

\* An add() that throws in a handler may trim, and adds nothing.
LEMMA AddFailsStep ==
    ASSUME IInv, NEW n \in Nodes, NEW m \in Message,
           NEW st \in AddErrors(store[n], m),
           store' = [store EXCEPT ![n] = st],
           UNCHANGED <<up, nextSequence, published, acknowledged, written, summaries,
                       responses, batches, misread, crashes>>,
           replicas' \subseteq replicas,
           ingesting' \in [Nodes -> Batch],
           \A k \in Nodes : ingesting'[k] \subseteq ingesting[k]
    PROVE  IInv' /\ HighWaterStep
<1>1. store \in [Nodes -> Store]
  BY DEF IInv, TypeOK
<1>2. /\ st \in Store
      /\ Range(st.rows) \subseteq Range(store[n].rows)
      /\ Range(st.messages) \subseteq Range(store[n].rows) \cup Range(store[n].messages)
      /\ st.sequences = store[n].sequences
  BY <1>1, AddErrorsType
<1>3. StoreStep(store, store', written)
  BY <1>1, <1>2, NoAddStep
<1>4. TypeOK'
  BY <1>3 DEF IInv, TypeOK, StoreStep
<1>5. AllTraceable'
  BY <1>3, StoresTraceable DEF IInv, AllTraceable, Traceable
<1> QED
  BY <1>3, <1>4, <1>5, QuietStep

\* One turn of the loop over a batch.
LEMMA IngestSyncStep ==
    ASSUME IInv, NEW n \in Nodes, IngestSync(n)
    PROVE  IInv' /\ HighWaterStep
<1>1. PICK e \in ingesting[n] :
         /\ ingesting' = [ingesting EXCEPT ![n] = @ \ {e}]
         /\ store' = [store EXCEPT ![n] = Add(@, e.message)]
         /\ IF AddReturns(store[n], e.message)
            THEN Publish(n, e.message)
            ELSE UNCHANGED published
  BY DEF IngestSync, IngestOne
<1> DEFINE m == e.message
<1>2. m \in Message /\ m \in written /\ store \in [Nodes -> Store]
  BY DEF IInv, TypeOK, AllTraceable, Traceable, Batch
<1>3. StoreStep(store, store', written)
  BY <1>1, <1>2, AddStep
<1>4. published' \in [Nodes -> Seq(Message)]
      /\ \A k \in Nodes : Range(published'[k]) \subseteq written
  <2>1. CASE UNCHANGED published
    BY <2>1 DEF IInv, TypeOK, AllTraceable, Traceable
  <2>2. CASE Publish(n, m)
    <3>1. /\ published' \in [Nodes -> Seq(Message)]
          /\ Range(published'[n]) = Range(published[n]) \cup {m}
          /\ \A k \in Nodes : k # n => published'[k] = published[k]
      BY <1>2, <2>2, PublishType DEF IInv
    <3> QED
      BY <3>1, <1>2 DEF IInv, AllTraceable, Traceable
  <2> QED
    BY <1>1, <2>1, <2>2
<1>5. ingesting' \in [Nodes -> Batch] /\ \A k \in Nodes : ingesting'[k] \subseteq ingesting[k]
  BY <1>1 DEF IInv, TypeOK, Batch
<1>6. UNCHANGED <<up, nextSequence, acknowledged, written, replicas, summaries,
                  responses, batches, misread, crashes>>
  BY DEF IngestSync, requests
<1>7. TypeOK'
  BY <1>3, <1>4, <1>5, <1>6 DEF IInv, TypeOK, StoreStep
<1>8. AllTraceable'
  BY <1>3, <1>4, <1>5, <1>6, StoresTraceable DEF IInv, AllTraceable, Traceable
<1> QED
  BY <1>3, <1>6, <1>7, <1>8, QuietStep

\* A batch is cut from the vector of a node and holds nothing else.
LEMMA HandleSummaryResponseStep ==
    ASSUME IInv, NEW r \in responses, HandleSummaryResponse(r)
    PROVE  IInv' /\ HighWaterStep
<1> DEFINE missing == MissingBatch(store[r.dest], r.origins)
           request == [source |-> r.dest, dest |-> r.source, messages |-> missing]
<1>1. r.source \in Nodes /\ r.dest \in Nodes /\ store \in [Nodes -> Store]
  BY DEF IInv, TypeOK
<1>2. /\ store[r.dest].messages \in Seq(Message)
      /\ Range(store[r.dest].messages) \subseteq written
  BY <1>1 DEF IInv, AllTraceable, Traceable, Store
<1>3. /\ Len(store[r.dest].messages) \in Nat
      /\ \A i \in 1..Len(store[r.dest].messages) :
            /\ store[r.dest].messages[i] \in Message
            /\ store[r.dest].messages[i] \in written
  BY <1>2, LenProperties, ElementOfSeq, RangeEquality
<1>4. \A x \in missing : \E i \in 1..Len(store[r.dest].messages) :
         x = [position |-> i, message |-> store[r.dest].messages[i]]
  BY DEF MissingBatch, Missing
<1>5. missing \in Batch /\ \A x \in missing : x.message \in written
  BY <1>3, <1>4 DEF Batch
<1>6. /\ UNCHANGED <<store, up, nextSequence, ingesting, published,
                     acknowledged, written, replicas, summaries, misread, crashes>>
      /\ responses' = responses \ {r}
      /\ batches' \subseteq batches \cup {request}
  BY DEF HandleSummaryResponse
<1>7. request \in [source : Nodes, dest : Nodes, messages : Batch]
      /\ \A x \in request.messages : x.message \in written
  BY <1>1, <1>5
<1> HIDE DEF request, missing
<1>8. TypeOK'
  BY <1>6, <1>7 DEF IInv, TypeOK
<1>9. AllTraceable'
  BY <1>6, <1>7 DEF IInv, AllTraceable, Traceable
<1>10. StoreStep(store, store', written)
  BY <1>1, <1>6, SameStores
<1> QED
  BY <1>6, <1>8, <1>9, <1>10, QuietStep

\* A batch arrives.
LEMMA HandleSyncMessagesStep ==
    ASSUME IInv, NEW r \in batches, HandleSyncMessages(r)
    PROVE  IInv' /\ HighWaterStep
<1>1. /\ r.dest \in Nodes /\ r.messages \in Batch
      /\ \A e \in r.messages : e.message \in written
      /\ store \in [Nodes -> Store]
  BY DEF IInv, TypeOK, AllTraceable
<1>2. /\ batches' = batches \ {r}
      /\ ingesting' = [ingesting EXCEPT ![r.dest] = r.messages]
      /\ UNCHANGED <<store, up, nextSequence, published, acknowledged, written, replicas,
                     summaries, responses, misread, crashes>>
  BY DEF HandleSyncMessages
<1>3. TypeOK'
  BY <1>1, <1>2 DEF IInv, TypeOK
<1>4. \A k \in Nodes : ingesting'[k] = IF k = r.dest THEN r.messages ELSE ingesting[k]
  BY <1>2 DEF IInv, TypeOK
<1>5. AllTraceable'
  BY <1>1, <1>2, <1>4 DEF IInv, AllTraceable, Traceable
<1>6. StoreStep(store, store', written)
  BY <1>1, <1>2, SameStores
<1> QED
  BY <1>2, <1>3, <1>5, <1>6, QuietStep

\* What the end of a process does to everything but its store.
LEMMA DownStep ==
    ASSUME IInv, NEW n \in Nodes, Down(n), store' \in [Nodes -> Store],
           replicas' \subseteq replicas, written' = written,
           StoreStep(store, store', written),
           UNCHANGED <<nextSequence, published, acknowledged, batches, misread>>
    PROVE  IInv' /\ HighWaterStep
<1>1. /\ up' = [up EXCEPT ![n] = FALSE]
      /\ crashes' = crashes + 1
      /\ ingesting' = [ingesting EXCEPT ![n] = {}]
      /\ summaries' \subseteq summaries
      /\ responses' \subseteq responses
  BY DEF Down
<1>2. {} \in Batch
  BY DEF Batch
<1>3. TypeOK'
  BY <1>1, <1>2 DEF IInv, TypeOK
<1>4. \A k \in Nodes : ingesting'[k] \subseteq ingesting[k]
  BY <1>1 DEF IInv, TypeOK
<1>5. AllTraceable'
  BY <1>1, <1>4, StoresTraceable DEF IInv, AllTraceable, Traceable
<1>6. \A k \in Nodes : up'[k] => up[k]
  BY <1>1 DEF IInv, TypeOK
<1> QED
  BY <1>3, <1>5, <1>6, QuietStep

\* The process ends between two handlers: the vector and the rest of a batch
\* are gone.
LEMMA CrashStep ==
    ASSUME IInv, NEW n \in Nodes, Crash(n)
    PROVE  IInv' /\ HighWaterStep
<1>1. store \in [Nodes -> Store] /\ store[n] \in Store
  BY DEF IInv, TypeOK
<1>2. StoreStep(store, [store EXCEPT ![n] = store[n]], written)
  BY <1>1, NoAddStep
<1>3. store' = [store EXCEPT ![n] = Closed(store[n])]
  BY DEF Crash
<1>4. StoreStep(store, store', written)
  BY <1>1, <1>2, <1>3, ClosedStep
<1>5. /\ Down(n) /\ written' = written /\ replicas' \subseteq replicas
      /\ UNCHANGED <<nextSequence, published, acknowledged, batches, misread>>
  BY DEF Crash
<1> QED
  BY <1>4, <1>5, DownStep DEF StoreStep

\* What a crash inside add() can leave in the stores.
LEMMA CrashInAddStores ==
    ASSUME IInv, NEW n \in Nodes, NEW m \in Message, CrashInAdd(n, m), NEW S
    PROVE  \/ /\ StoreStep(store, store', S)
              /\ Range(store'[n].rows) \subseteq Range(store[n].rows)
              /\ \A k \in Nodes : k # n => store'[k] = store[k]
           \/ store' = [store EXCEPT ![n] = Closed(Add(store[n], m))]
<1>1. store \in [Nodes -> Store] /\ store[n] \in Store
  BY DEF IInv, TypeOK
<1>2. PICK st \in AddErrors(store[n], m) \cup {Add(store[n], m)} :
         store' = [store EXCEPT ![n] = Closed(st)]
  BY DEF CrashInAdd
<1>3. CASE st \in AddErrors(store[n], m)
  <2>1. /\ st \in Store
        /\ Range(st.rows) \subseteq Range(store[n].rows)
        /\ Range(st.messages) \subseteq Range(store[n].rows) \cup Range(store[n].messages)
        /\ st.sequences = store[n].sequences
    BY <1>1, <1>3, AddErrorsType
  <2>2. StoreStep(store, [store EXCEPT ![n] = st], S)
    BY <1>1, <2>1, NoAddStep
  <2>3. StoreStep(store, store', S)
    BY <1>1, <1>2, <2>1, <2>2, ClosedStep
  <2>4. store'[n] = Closed(st) /\ Closed(st).rows = st.rows
    BY <1>1, <1>2, <2>1 DEF Closed, Store
  <2> QED
    BY <1>1, <1>2, <2>1, <2>3, <2>4
<1>4. CASE st = Add(store[n], m)
  BY <1>2, <1>4
<1> QED
  BY <1>2, <1>3, <1>4

\* The stores after a crash that left m committed.
LEMMA CommittedStep ==
    ASSUME IInv, NEW n \in Nodes, NEW m \in Message, NEW S, m \in S,
           store' = [store EXCEPT ![n] = Closed(Add(store[n], m))]
    PROVE  /\ StoreStep(store, store', S)
           /\ Range(store'[n].rows) \subseteq Range(store[n].rows) \cup {m}
           /\ AddReturns(store[n], m) => m \in Range(store'[n].rows)
           /\ store'[n].sequences = Add(store[n], m).sequences
           /\ \A k \in Nodes : k # n => store'[k] = store[k]
<1>1. store \in [Nodes -> Store] /\ store[n] \in Store
  BY DEF IInv, TypeOK
<1>2. StoreStep(store, [store EXCEPT ![n] = Add(store[n], m)], S)
  BY <1>1, AddStep
<1>3. /\ Add(store[n], m) \in Store
      /\ Range(Add(store[n], m).rows) \subseteq Range(store[n].rows) \cup {m}
      /\ AddReturns(store[n], m) => m \in Range(Add(store[n], m).rows)
  BY <1>1, AddType
<1>4. StoreStep(store, store', S)
  BY <1>1, <1>2, <1>3, ClosedStep
<1> DEFINE st == Add(store[n], m)
<1> HIDE DEF st
<1>5. Closed(st).rows = st.rows /\ Closed(st).sequences = st.sequences
  BY <1>3 DEF Closed, Store, st
<1> QED
  BY <1>1, <1>3, <1>4, <1>5 DEF st

\* A crash inside the add() of a message that was written already.
LEMMA CrashInAddStep ==
    ASSUME IInv, NEW n \in Nodes, NEW m \in Message, m \in written,
           CrashInAdd(n, m), replicas' \subseteq replicas,
           UNCHANGED <<nextSequence, published, acknowledged, written, batches, misread>>
    PROVE  IInv' /\ HighWaterStep
<1>1. StoreStep(store, store', written)
  BY CrashInAddStores, CommittedStep
<1>2. Down(n) /\ store' \in [Nodes -> Store]
  BY <1>1 DEF CrashInAdd, StoreStep
<1> QED
  BY <1>1, <1>2, DownStep

\* The daemon starts and takes its next sequence from its table, or it takes
\* an error for an empty table.
LEMMA StartStep ==
    ASSUME IInv, NEW n \in Nodes, Start(n)
    PROVE  IInv' /\ HighWaterStep
<1> DEFINE st == LoadMessages(store[n])
<1>1. store \in [Nodes -> Store] /\ store[n] \in Store
  BY DEF IInv, TypeOK
<1>2. st \in Store /\ st.rows = store[n].rows /\ st.messages = store[n].rows
      /\ st.sequences = store[n].sequences
  BY <1>1, LoadMessagesType
<1>3. PICK s \in NextSequenceAnswers(store[n], n, StorageFaults) :
         /\ nextSequence' = [nextSequence EXCEPT ![n] = s]
         /\ misread' = misread \cup {k \in {n} : s # NextSequence(store[n], n)}
  BY DEF Start
<1>4. /\ store' = [store EXCEPT ![n] = st]
      /\ up' = [up EXCEPT ![n] = TRUE]
      /\ UNCHANGED <<ingesting, published, acknowledged, written, replicas, summaries,
                     responses, batches, crashes>>
  BY DEF Start, requests
<1> HIDE DEF st
<1>5. StoreStep(store, store', written)
  BY <1>1, <1>2, <1>4, NoAddStep
<1>6. s \in Nat \ {0}
  BY <1>1, <1>3 DEF NextSequenceAnswers, NextSequence, Store
<1>7. misread \subseteq misread' /\ misread' \subseteq Nodes
  BY <1>3 DEF IInv, TypeOK
<1>8. TypeOK'
  BY <1>3, <1>4, <1>5, <1>6, <1>7 DEF IInv, TypeOK, StoreStep
<1>9. AllTraceable'
  BY <1>4, <1>5, StoresTraceable DEF IInv, AllTraceable, Traceable
<1>10. NextSequence(store'[n], n) = NextSequence(store[n], n)
  BY <1>1, <1>2, <1>4 DEF NextSequence
<1>11. ASSUME NEW k \in Nodes, up'[k], k \notin misread'
       PROVE  \/ up[k] /\ nextSequence'[k] = nextSequence[k]
              \/ nextSequence'[k] = NextSequence(store'[k], k)
  <2>1. CASE k = n
    <3>1. s = NextSequence(store[n], n)
      BY <1>3, <1>11, <2>1
    <3> QED
      BY <2>1, <3>1, <1>3, <1>10 DEF IInv, TypeOK
  <2>2. CASE k # n
    BY <2>2, <1>3, <1>4, <1>11 DEF IInv, TypeOK
  <2> QED
    BY <2>1, <2>2
<1> QED
  BY <1>4, <1>5, <1>7, <1>8, <1>9, <1>11, QuietStep

LEMMA NewMessageType ==
    ASSUME IInv, NEW n \in Nodes, NEW b \in Bodies
    PROVE  NewMessage(n, b) \in Message
BY DEF NewMessage, Message, IInv, TypeOK

\* Unless next_sequence was misread, the sequence of a new message is above
\* everything its node has let out, so add() finds no row with its key and
\* inserts it.
LEMMA NewMessageIsNew ==
    ASSUME IInv, NEW n \in Nodes, NEW b \in Bodies, up[n], n \notin misread
    PROVE  /\ NewMessage(n, b) \in Message
           /\ \A x \in written : x.origin = n => x.sequence < nextSequence[n]
           /\ AddReturns(store[n], NewMessage(n, b))
<1>1. NewMessage(n, b) \in Message
  BY NewMessageType
<1>2. ASSUME NEW x \in written, x.origin = n
      PROVE  x.sequence < nextSequence[n]
  <2>1. x.sequence <= store[n].sequences[n]
    BY <1>2 DEF IInv, TableAhead
  <2>2. store[n].sequences[n] < nextSequence[n]
    BY DEF IInv, NextIsFresh
  <2>3. x.sequence \in Nat /\ store[n].sequences[n] \in Nat /\ nextSequence[n] \in Nat
    BY DEF IInv, TypeOK, Message, Store
  <2> QED
    BY <2>1, <2>2, <2>3
<1>3. ~Contains(store[n], Key(NewMessage(n, b)))
  <2> SUFFICES ASSUME NEW x \in Range(store[n].rows), Key(x) = Key(NewMessage(n, b))
               PROVE  FALSE
    BY DEF Contains
  <2>1. x \in written
    BY DEF IInv, AllTraceable, Traceable
  <2>2. x.origin = n /\ x.sequence = nextSequence[n]
    BY DEF Key, NewMessage
  <2>3. nextSequence[n] \in Nat
    BY DEF IInv, TypeOK
  <2> QED
    BY <1>2, <2>1, <2>2, <2>3
<1> QED
  BY <1>1, <1>2, <1>3 DEF AddReturns

\* Writing a message keeps the table of its author ahead of it, inserted or
\* ignored, and the log free of repeated keys where next_sequence was read.
LEMMA WriteStep ==
    ASSUME IInv, NEW n \in Nodes, NEW b \in Bodies, up[n], UNCHANGED misread,
           written' = written \cup {NewMessage(n, b)},
           StoreStep(store, store', written'),
           store'[n].sequences = Add(store[n], NewMessage(n, b)).sequences
    PROVE  TableAhead' /\ UniqueLog' /\ HighWaterStep
<1> DEFINE m == NewMessage(n, b)
<1>1. m \in Message
  BY NewMessageType
<1>2. m.origin = n /\ m.sequence = nextSequence[n]
  BY DEF NewMessage
<1>3. store \in [Nodes -> Store] /\ nextSequence[n] \in Nat \ {0}
  BY DEF IInv, TypeOK
<1>4. written' = written \cup {m} /\ store'[n].sequences = Add(store[n], m).sequences
  OBVIOUS
<1>5. n \notin misread =>
         \A x \in written : x.origin = n => x.sequence < nextSequence[n]
  BY NewMessageIsNew
<1> HIDE DEF m
<1>6. \A k, o \in Nodes : store[k].sequences[o] \in Nat /\ store'[k].sequences[o] \in Nat
  BY <1>3 DEF StoreStep, Store
<1>7. HighWaterStep
  BY DEF HighWaterStep, StoreStep
<1>8. ASSUME NEW x \in written
      PROVE  x.sequence <= store'[x.origin].sequences[x.origin]
  <2>1. x.origin \in Nodes /\ x.sequence \in Nat
    BY DEF IInv, TypeOK, Message
  <2>2. x.sequence <= store[x.origin].sequences[x.origin]
    BY DEF IInv, TableAhead
  <2>3. store[x.origin].sequences[x.origin] <= store'[x.origin].sequences[x.origin]
    BY <2>1, <1>7 DEF HighWaterStep
  <2> QED
    BY <2>1, <2>2, <2>3, <1>6
<1>9. m.sequence <= store'[n].sequences[n]
  <2>1. CASE AddReturns(store[n], m)
    <3>1. store'[n].sequences[n] = Larger(store[n].sequences[n], m.sequence)
      BY <1>1, <1>2, <1>3, <1>4, <2>1, AddType
    <3> QED
      BY <1>2, <1>3, <1>6, <3>1 DEF Larger
  <2>2. CASE ~AddReturns(store[n], m)
    <3>1. PICK x \in Range(store[n].rows) : Key(x) = Key(m)
      BY <2>2 DEF AddReturns, Contains
    <3>2. x \in written
      BY DEF IInv, AllTraceable, Traceable
    <3>3. x.origin = n /\ x.sequence = m.sequence
      BY <3>1, <1>2 DEF Key
    <3> QED
      BY <1>8, <3>2, <3>3
  <2> QED
    BY <2>1, <2>2
<1>10. TableAhead'
  BY <1>2, <1>4, <1>8, <1>9 DEF TableAhead
<1>11. UniqueLog'
  <2> SUFFICES ASSUME NEW x \in written', NEW y \in written', Key(x) = Key(y),
                      x.origin \notin misread
               PROVE  x = y
    BY DEF UniqueLog
  <2>1. x.origin = y.origin /\ x.sequence = y.sequence
    BY DEF Key
  <2>2. ASSUME NEW z \in written, n \notin misread, z.origin = n
        PROVE  z.sequence # m.sequence
    BY <1>2, <1>3, <1>5, <2>2
  <2>3. CASE x = m \/ y = m
    BY <1>2, <1>4, <2>1, <2>2, <2>3
  <2>4. CASE x \in written /\ y \in written
    BY <2>4 DEF IInv, UniqueLog
  <2> QED
    BY <1>4, <2>3, <2>4
<1> QED
  BY <1>7, <1>10, <1>11

\* create_local: the step that writes, publishes and acknowledges a message.
LEMMA CreateLocalStep ==
    ASSUME IInv, NEW n \in Nodes, NEW b \in Bodies, CreateLocal(n, b)
    PROVE  /\ IInv' /\ HighWaterStep
           /\ acknowledged' = acknowledged \cup {NewMessage(n, b)}
           /\ n \notin misread => NewMessage(n, b) \in Range(store'[n].rows)
<1> DEFINE m == NewMessage(n, b)
<1>1. /\ nextSequence' = [nextSequence EXCEPT ![n] = @ + 1]
      /\ store' = [store EXCEPT ![n] = Add(@, m)]
      /\ Publish(n, m)
      /\ written' = written \cup {m}
      /\ acknowledged' = acknowledged \cup {m}
      /\ UNCHANGED <<up, ingesting, summaries, responses, batches, misread, crashes>>
      /\ up[n]
  BY DEF CreateLocal, Idle
<1>2. PICK peers \in ActivePeers(n) : replicas' = replicas \cup
         {[source |-> n, dest |-> p, message |-> m] : p \in peers}
  BY DEF CreateLocal, Broadcast
<1>3. peers \subseteq Nodes
  BY DEF ActivePeers
<1>4. m \in Message /\ (n \notin misread => AddReturns(store[n], m))
  BY <1>1, NewMessageType, NewMessageIsNew
<1>5. m.origin = n /\ m.sequence = nextSequence[n]
  BY DEF NewMessage
<1>6. store \in [Nodes -> Store] /\ nextSequence[n] \in Nat \ {0}
  BY DEF IInv, TypeOK
<1> HIDE DEF m
<1>7. StoreStep(store, store', written')
  BY <1>1, <1>4, <1>6, AddStep
<1>8. /\ published' \in [Nodes -> Seq(Message)]
      /\ Range(published'[n]) = Range(published[n]) \cup {m}
      /\ \A k \in Nodes : k # n => published'[k] = published[k]
  BY <1>1, <1>4, PublishType DEF IInv
<1>9. replicas' \subseteq [source : Nodes, dest : Nodes, message : Message]
      /\ \A r \in replicas' : r \in replicas \/ r.message = m
  BY <1>2, <1>3, <1>4 DEF IInv, TypeOK
<1>10. nextSequence' \in [Nodes -> Nat \ {0}]
  BY <1>1, <1>6 DEF IInv, TypeOK
<1>11. TypeOK'
  BY <1>1, <1>4, <1>7, <1>8, <1>9, <1>10 DEF IInv, TypeOK, StoreStep
<1>12. AllTraceable'
  <2>1. ASSUME NEW k \in Nodes PROVE Traceable(k)'
    <3>1. Traceable(k)
      BY DEF IInv, AllTraceable
    <3>2. /\ Range(store'[k].rows) \subseteq Range(store[k].rows) \cup written'
          /\ Range(store'[k].messages) \subseteq
                Range(store[k].rows) \cup Range(store[k].messages) \cup written'
      BY <1>7 DEF StoreStep
    <3>3. Range(published'[k]) \subseteq Range(published[k]) \cup {m}
      BY <1>8
    <3> QED
      BY <1>1, <3>1, <3>2, <3>3 DEF Traceable
  <2>2. \A r \in replicas' : r.message \in written'
    BY <1>1, <1>9 DEF IInv, AllTraceable
  <2>3. \A r \in batches' : \A e \in r.messages : e.message \in written'
    BY <1>1 DEF IInv, AllTraceable
  <2> QED
    BY <2>1, <2>2, <2>3 DEF AllTraceable
<1>13. /\ store'[n].sequences = Add(store[n], m).sequences
       /\ n \notin misread => m \in Range(store'[n].rows)
       /\ \A k \in Nodes : k # n => store'[k] = store[k]
  BY <1>1, <1>4, <1>6, AddType
<1>14. TableAhead' /\ UniqueLog' /\ HighWaterStep
  BY <1>1, <1>7, <1>13, WriteStep DEF m
<1>15. NextIsFresh'
  <2> SUFFICES ASSUME NEW k \in Nodes, up'[k], k \notin misread'
               PROVE  store'[k].sequences[k] < nextSequence'[k]
    BY DEF NextIsFresh
  <2>1. store[k].sequences[k] < nextSequence[k]
    BY <1>1 DEF IInv, NextIsFresh
  <2>2. CASE k = n
    <3>1. nextSequence'[n] = nextSequence[n] + 1
      BY <1>1 DEF IInv, TypeOK
    <3>2. store'[n].sequences[n] = Larger(store[n].sequences[n], m.sequence)
      BY <1>1, <2>2, <1>4, <1>5, <1>6, <1>13, AddType
    <3>3. store[n].sequences[n] \in Nat
      BY <1>6 DEF Store
    <3> QED
      BY <2>1, <2>2, <3>1, <3>2, <3>3, <1>5, <1>6 DEF Larger
  <2>3. CASE k # n
    <3>1. store'[k] = store[k] /\ nextSequence'[k] = nextSequence[k]
      BY <2>3, <1>1, <1>13 DEF IInv, TypeOK
    <3> QED
      BY <2>1, <3>1
  <2> QED
    BY <2>2, <2>3
<1> QED
  BY <1>1, <1>11, <1>12, <1>13, <1>14, <1>15 DEF IInv, m

\* create_local cut short: the message is in the table and nobody was told,
\* or there is no trace of it.
LEMMA CreateLocalCrashesStep ==
    ASSUME IInv, NEW n \in Nodes, NEW b \in Bodies, CreateLocalCrashes(n, b)
    PROVE  IInv' /\ HighWaterStep
<1> DEFINE m == NewMessage(n, b)
<1>1. /\ CrashInAdd(n, m) /\ Down(n) /\ up[n]
      /\ written' = written \cup ({m} \cap Range(store'[n].rows))
      /\ UNCHANGED <<nextSequence, published, acknowledged, replicas, batches, misread>>
  BY DEF CreateLocalCrashes, CrashInAdd, Idle
<1>2. m \in Message /\ Range(store[n].rows) \subseteq written
  BY NewMessageType DEF IInv, AllTraceable, Traceable
<1> HIDE DEF m
<1>4. CASE StoreStep(store, store', written)
           /\ Range(store'[n].rows) \subseteq Range(store[n].rows)
  <2>1. written' = written /\ store' \in [Nodes -> Store]
    BY <1>1, <1>2, <1>4 DEF StoreStep
  <2> QED
    BY <1>1, <1>4, <2>1, DownStep
<1>3. CASE store' = [store EXCEPT ![n] = Closed(Add(store[n], m))]
           /\ ~AddReturns(store[n], m)
  <2>1. store \in [Nodes -> Store] /\ store[n] \in Store
    BY DEF IInv, TypeOK
  <2>2. Add(store[n], m) = store[n]
    BY <1>3 DEF Add, AddReturns
  <2>3. StoreStep(store, [store EXCEPT ![n] = store[n]], written)
    BY <2>1, NoAddStep
  <2>4. StoreStep(store, store', written)
    BY <1>3, <2>1, <2>2, <2>3, ClosedStep
  <2>5. store'[n].rows = store[n].rows
    BY <1>3, <2>1, <2>2 DEF Closed, Store
  <2> QED
    BY <1>4, <2>4, <2>5
<1>5. CASE store' = [store EXCEPT ![n] = Closed(Add(store[n], m))]
           /\ AddReturns(store[n], m)
  <2>1. m \in Range(store'[n].rows)
    BY <1>2, <1>5, CommittedStep
  <2>2. written' = written \cup {m}
    BY <1>1, <2>1
  <2>3. /\ StoreStep(store, store', written')
        /\ store'[n].sequences = Add(store[n], m).sequences
        /\ \A k \in Nodes : k # n => store'[k] = store[k]
    BY <1>2, <1>5, <2>2, CommittedStep
  <2>4. TableAhead' /\ UniqueLog' /\ HighWaterStep
    BY <1>1, <2>2, <2>3, WriteStep DEF m
  <2>5. /\ up' = [up EXCEPT ![n] = FALSE]
        /\ crashes' = crashes + 1
        /\ ingesting' = [ingesting EXCEPT ![n] = {}]
        /\ summaries' \subseteq summaries
        /\ responses' \subseteq responses
    BY <1>1 DEF Down
  <2>6. {} \in Batch
    BY DEF Batch
  <2>7. TypeOK'
    BY <1>1, <1>2, <2>2, <2>3, <2>5, <2>6 DEF IInv, TypeOK, StoreStep
  <2>8. \A k \in Nodes : ingesting'[k] \subseteq ingesting[k]
    BY <2>5 DEF IInv, TypeOK
  <2>9. ASSUME NEW k \in Nodes PROVE Traceable(k)'
    <3>1. Traceable(k)
      BY DEF IInv, AllTraceable
    <3>2. /\ Range(store'[k].rows) \subseteq Range(store[k].rows) \cup written'
          /\ Range(store'[k].messages) \subseteq
                Range(store[k].rows) \cup Range(store[k].messages) \cup written'
      BY <2>3 DEF StoreStep
    <3> QED
      BY <1>1, <2>2, <2>8, <3>1, <3>2 DEF Traceable
  <2>10. AllTraceable'
    BY <1>1, <2>2, <2>9 DEF IInv, AllTraceable
  <2>11. NextIsFresh'
    BY <1>1, <2>3, <2>5 DEF IInv, TypeOK, NextIsFresh
  <2> QED
    BY <2>4, <2>7, <2>10, <2>11 DEF IInv
<1> QED
  BY <1>1, <1>2, <1>3, <1>4, <1>5, CrashInAddStores

-----------------------------------------------------------------------------
(* Every step *)

\* No step breaks the invariant or takes a high-water mark back, and a step
\* that accepts a message of a node that was not misread has stored it.
LEMMA NextStep ==
    ASSUME IInv, [Next]_vars
    PROVE  /\ IInv' /\ HighWaterStep
           /\ \A m \in acknowledged' \ acknowledged :
                 m.origin \notin misread => m \in Range(store'[m.origin].rows)
<1> DEFINE Stored == \A m \in acknowledged' \ acknowledged :
                 m.origin \notin misread => m \in Range(store'[m.origin].rows)
<1> DEFINE Good == IInv' /\ HighWaterStep /\ Stored
<1>0. acknowledged' = acknowledged => Stored
  OBVIOUS
<1>1. CASE UNCHANGED vars
  <2>1. /\ UNCHANGED <<store, up, nextSequence, ingesting, published,
                       acknowledged, written, misread, crashes>>
        /\ replicas' \subseteq replicas /\ batches' \subseteq batches
        /\ summaries' \subseteq [source : Nodes, dest : Nodes, origins : SUBSET Nodes]
        /\ responses' \subseteq [source : Nodes, dest : Nodes, origins : [Nodes -> Nat]]
    BY <1>1 DEF vars, requests, IInv, TypeOK
  <2> QED
    BY <2>1, <1>0, NetworkStep
<1>2. ASSUME NEW n \in Authors, NEW b \in Bodies, CreateLocal(n, b)
      PROVE  Good
  <2>1. /\ IInv' /\ HighWaterStep
        /\ acknowledged' = acknowledged \cup {NewMessage(n, b)}
        /\ n \notin misread => NewMessage(n, b) \in Range(store'[n].rows)
    BY <1>2, CreateLocalStep, AuthorsAssumption
  <2>2. NewMessage(n, b).origin = n
    BY DEF NewMessage
  <2> QED
    BY <2>1, <2>2
<1>3. ASSUME NEW n \in Authors, NEW b \in Bodies, CreateLocalFails(n, b)
      PROVE  Good
  <2>1. IInv' /\ HighWaterStep
    BY <1>3, CreateLocalFailsStep, AuthorsAssumption
  <2> QED
    BY <2>1, <1>0, <1>3 DEF CreateLocalFails
<1>31. ASSUME NEW n \in Authors, NEW b \in Bodies, CreateLocalCrashes(n, b)
      PROVE  Good
  <2>1. IInv' /\ HighWaterStep
    BY <1>31, CreateLocalCrashesStep, AuthorsAssumption
  <2> QED
    BY <2>1, <1>0, <1>31 DEF CreateLocalCrashes
<1>4. ASSUME NEW r \in replicas,
             \/ HandleReplicate(r) \/ HandleReplicateFails(r)
             \/ HandleReplicateCrashes(r) \/ LoseReplica(r)
      PROVE  Good
  <2>1. acknowledged' = acknowledged
    BY <1>4 DEF HandleReplicate, HandleReplicateFails, HandleReplicateCrashes,
                LoseReplica
  <2>2. CASE HandleReplicate(r)
    BY <2>1, <2>2, <1>0, HandleReplicateStep
  <2>3. CASE HandleReplicateFails(r)
    <3>1. r.dest \in Nodes /\ r.message \in Message
      BY DEF IInv, TypeOK
    <3>2. PICK st \in AddErrors(store[r.dest], r.message) :
             store' = [store EXCEPT ![r.dest] = st]
      BY <2>3 DEF HandleReplicateFails
    <3>3. /\ UNCHANGED <<up, nextSequence, published, acknowledged, written, summaries,
                         responses, batches, misread, crashes>>
          /\ replicas' \subseteq replicas
          /\ ingesting' \in [Nodes -> Batch]
          /\ \A k \in Nodes : ingesting'[k] \subseteq ingesting[k]
      BY <2>3 DEF HandleReplicateFails, IInv, TypeOK
    <3> QED
      BY <2>1, <3>1, <3>2, <3>3, <1>0, AddFailsStep
  <2>4. CASE LoseReplica(r)
    <3>1. /\ UNCHANGED <<store, up, nextSequence, ingesting, published,
                         acknowledged, written, misread, crashes>>
          /\ replicas' \subseteq replicas /\ batches' \subseteq batches
          /\ summaries' \subseteq [source : Nodes, dest : Nodes, origins : SUBSET Nodes]
          /\ responses' \subseteq [source : Nodes, dest : Nodes, origins : [Nodes -> Nat]]
      BY <2>4 DEF LoseReplica, IInv, TypeOK
    <3> QED
      BY <2>1, <3>1, <1>0, NetworkStep
  <2>5. CASE HandleReplicateCrashes(r)
    <3>1. r.dest \in Nodes /\ r.message \in Message /\ r.message \in written
      BY DEF IInv, TypeOK, AllTraceable
    <3>2. /\ CrashInAdd(r.dest, r.message) /\ replicas' \subseteq replicas
          /\ UNCHANGED <<nextSequence, published, acknowledged, written, batches, misread>>
      BY <2>5 DEF HandleReplicateCrashes
    <3> QED
      BY <2>1, <3>1, <3>2, <1>0, CrashInAddStep
  <2> QED
    BY <1>4, <2>2, <2>3, <2>4, <2>5
<1>5. ASSUME NEW n \in Nodes, NEW peers \in ActivePeers(n), SyncTimer(n, peers)
      PROVE  Good
  <2>1. peers \subseteq Nodes
    BY DEF ActivePeers
  <2>2. summaries \cup
           {[source |-> n, dest |-> p, origins |-> KnownOrigins(store[n])] : p \in peers}
           \subseteq [source : Nodes, dest : Nodes, origins : SUBSET Nodes]
    BY <2>1 DEF IInv, TypeOK, KnownOrigins
  <2>3. /\ UNCHANGED <<store, up, nextSequence, ingesting, published,
                       acknowledged, written, misread, crashes>>
        /\ replicas' \subseteq replicas /\ batches' \subseteq batches
        /\ summaries' \subseteq [source : Nodes, dest : Nodes, origins : SUBSET Nodes]
        /\ responses' \subseteq [source : Nodes, dest : Nodes, origins : [Nodes -> Nat]]
    BY <1>5, <2>2 DEF SyncTimer, IInv, TypeOK
  <2> QED
    BY <2>3, <1>0, NetworkStep
<1>6. ASSUME NEW r \in summaries, HandleSummary(r) \/ LoseSummary(r)
      PROVE  Good
  <2>1. r.source \in Nodes /\ r.dest \in Nodes
        /\ SequenceSummary(store[r.dest]) \in [Nodes -> Nat]
    BY DEF IInv, TypeOK, Store, SequenceSummary
  <2>2. /\ UNCHANGED <<store, up, nextSequence, ingesting, published,
                       acknowledged, written, misread, crashes>>
        /\ replicas' \subseteq replicas /\ batches' \subseteq batches
        /\ summaries' \subseteq [source : Nodes, dest : Nodes, origins : SUBSET Nodes]
        /\ responses' \subseteq [source : Nodes, dest : Nodes, origins : [Nodes -> Nat]]
    BY <1>6, <2>1 DEF HandleSummary, LoseSummary, IInv, TypeOK
  <2> QED
    BY <2>2, <1>0, NetworkStep
<1>7. ASSUME NEW r \in responses, HandleSummaryResponse(r) \/ LoseResponse(r)
      PROVE  Good
  <2>1. acknowledged' = acknowledged
    BY <1>7 DEF HandleSummaryResponse, LoseResponse
  <2>2. CASE HandleSummaryResponse(r)
    BY <2>1, <2>2, <1>0, HandleSummaryResponseStep
  <2>3. CASE LoseResponse(r)
    <3>1. /\ UNCHANGED <<store, up, nextSequence, ingesting, published,
                         acknowledged, written, misread, crashes>>
          /\ replicas' \subseteq replicas /\ batches' \subseteq batches
          /\ summaries' \subseteq [source : Nodes, dest : Nodes, origins : SUBSET Nodes]
          /\ responses' \subseteq [source : Nodes, dest : Nodes, origins : [Nodes -> Nat]]
      BY <2>3 DEF LoseResponse, IInv, TypeOK
    <3> QED
      BY <2>1, <3>1, <1>0, NetworkStep
  <2> QED
    BY <1>7, <2>2, <2>3
<1>8. ASSUME NEW r \in batches, HandleSyncMessages(r) \/ LoseBatch(r)
      PROVE  Good
  <2>1. acknowledged' = acknowledged
    BY <1>8 DEF HandleSyncMessages, LoseBatch
  <2>2. CASE HandleSyncMessages(r)
    BY <2>1, <2>2, <1>0, HandleSyncMessagesStep
  <2>3. CASE LoseBatch(r)
    <3>1. /\ UNCHANGED <<store, up, nextSequence, ingesting, published,
                         acknowledged, written, misread, crashes>>
          /\ replicas' \subseteq replicas /\ batches' \subseteq batches
          /\ summaries' \subseteq [source : Nodes, dest : Nodes, origins : SUBSET Nodes]
          /\ responses' \subseteq [source : Nodes, dest : Nodes, origins : [Nodes -> Nat]]
      BY <2>3 DEF LoseBatch, IInv, TypeOK
    <3> QED
      BY <2>1, <3>1, <1>0, NetworkStep
  <2> QED
    BY <1>8, <2>2, <2>3
<1>9. ASSUME NEW n \in Nodes,
             \/ IngestSync(n) \/ IngestSyncFails(n) \/ IngestSyncCrashes(n)
             \/ Crash(n) \/ Start(n)
      PROVE  Good
  <2>1. acknowledged' = acknowledged
    BY <1>9 DEF IngestSync, IngestSyncFails, IngestSyncCrashes, Crash, Start
  <2>2. CASE IngestSync(n)
    BY <2>1, <2>2, <1>0, IngestSyncStep
  <2>3. CASE IngestSyncFails(n)
    <3>1. PICK e \in ingesting[n] : \E st \in AddErrors(store[n], e.message) :
             store' = [store EXCEPT ![n] = st]
      BY <2>3 DEF IngestSyncFails
    <3>2. PICK st \in AddErrors(store[n], e.message) :
             store' = [store EXCEPT ![n] = st]
      BY <3>1
    <3>3. e.message \in Message
      BY DEF IInv, TypeOK, Batch
    <3>4. /\ UNCHANGED <<up, nextSequence, published, acknowledged, written, summaries,
                         responses, batches, misread, crashes>>
          /\ replicas' \subseteq replicas
          /\ ingesting' \in [Nodes -> Batch]
          /\ \A k \in Nodes : ingesting'[k] \subseteq ingesting[k]
      BY <2>3 DEF IngestSyncFails, requests, IInv, TypeOK, Batch
    <3> QED
      BY <2>1, <3>2, <3>3, <3>4, <1>0, AddFailsStep
  <2>4. CASE Crash(n)
    BY <2>1, <2>4, <1>0, CrashStep
  <2>5. CASE Start(n)
    BY <2>1, <2>5, <1>0, StartStep
  <2>6. CASE IngestSyncCrashes(n)
    <3>1. PICK e \in ingesting[n] : CrashInAdd(n, e.message)
      BY <2>6 DEF IngestSyncCrashes
    <3>2. e.message \in Message /\ e.message \in written
      BY DEF IInv, TypeOK, Batch, AllTraceable, Traceable
    <3>3. /\ replicas' \subseteq replicas
          /\ UNCHANGED <<nextSequence, published, acknowledged, written, batches, misread>>
      BY <2>6 DEF IngestSyncCrashes
    <3> QED
      BY <2>1, <3>1, <3>2, <3>3, <1>0, CrashInAddStep
  <2> QED
    BY <1>9, <2>2, <2>3, <2>4, <2>5, <2>6
<1> HIDE DEF Good
<1>10. ASSUME Next PROVE Good
  BY <1>2, <1>3, <1>31, <1>4, <1>5, <1>6, <1>7, <1>8, <1>9, <1>10 DEF Next
<1>11. Good
  BY <1>1, <1>10 DEF Good
<1> QED
  BY <1>11 DEF Good

\* The inductive invariant holds in every behaviour.
LEMMA Invariance == Spec => []IInv
<1>1. Init => IInv
  BY InitIInv
<1>2. IInv /\ [Next]_vars => IInv'
  BY NextStep
<1> QED
  BY <1>1, <1>2, PTL DEF Spec

-----------------------------------------------------------------------------
(* Theorems *)

\* Types, whatever the handlers, failures and restarts do.
THEOREM TypeCorrect == Spec => []TypeOK
<1>1. IInv => TypeOK
  BY DEF IInv
<1> QED
  BY <1>1, Invariance, PTL

\* (origin, sequence) names one message in the whole mesh: the keys that
\* INSERT OR IGNORE and contains() deduplicate by never hide a message that
\* is not a copy, with any losses, storage errors, trimming and restarts, for
\* every origin whose next_sequence has not taken an error for an empty table.
THEOREM AgreementHolds == Spec => []Agreement
<1>1. IInv => Agreement
  BY IInvImplies
<1> QED
  BY <1>1, Invariance, PTL

\* Every copy anywhere is a message that its author's create_local has written.
THEOREM ProvenanceHolds == Spec => []Provenance
<1>1. IInv => Provenance
  BY IInvImplies
<1> QED
  BY <1>1, Invariance, PTL

\* The sequences table of an origin stays ahead of everything that the origin
\* let out, also of what it let out after a misread next_sequence.
THEOREM OriginAheadHolds == Spec => []OriginAhead
<1>1. IInv => OriginAhead
  BY IInvImplies
<1> QED
  BY <1>1, Invariance, PTL

\* next_sequence_ of a running node is above its own table, after a failed add,
\* a crash inside add and a restart too, unless the SELECT of next_sequence
\* failed: only then does the discarded result of add matter.
THEOREM NextIsFreshHolds == Spec => []NextIsFresh
<1>1. IInv => NextIsFresh
  BY DEF IInv
<1> QED
  BY <1>1, Invariance, PTL

\* No step takes a high-water mark back: neither trimming nor a failed add
\* nor a restart touches the table "sequences".
THEOREM HighWaterKeptHolds == Spec => HighWaterKept
<1>1. IInv /\ [Next]_vars =>
         [\A n, o \in Nodes : store[n].sequences[o] <= store'[n].sequences[o]]_vars
  BY NextStep DEF HighWaterStep
<1> QED
  BY <1>1, Invariance, PTL DEF Spec, HighWaterKept

\* The daemon stores before it replies, although create_local discards what
\* add() returns: add() cannot find the key of a new message taken, as long as
\* next_sequence has read the table.
THEOREM StoredBeforeReplyHolds == Spec => StoredBeforeReply
<1>1. IInv /\ [Next]_vars =>
         [\A m \in acknowledged' \ acknowledged :
             m.origin \notin misread => m \in Range(store'[m.origin].rows)]_vars
  BY NextStep
<1> QED
  BY <1>1, Invariance, PTL DEF Spec, StoredBeforeReply

-----------------------------------------------------------------------------
(* While no store has been full, nothing has been trimmed *)

\* The next row still fits every database.
RoomEverywhere == \A n \in Nodes : ~IsFull(store[n])

\* add(), whether it returns or throws, deletes rows of a full store only.
LEMMA AddKeepsRows ==
    ASSUME NEW st \in Store, NEW m \in Message, ~IsFull(st)
    PROVE  /\ Range(st.rows) \subseteq Range(Add(st, m).rows)
           /\ AddErrors(st, m) = {st}
<1>1. AddErrors(st, m) = {st}
  BY DEF AddErrors
<1>2. ASSUME ~Contains(st, Key(m))
      PROVE  Range(st.rows) \subseteq Range(Add(st, m).rows)
  <2>1. Add(st, m) = Push(st, m)
    BY <1>2 DEF Add
  <2>2. Add(st, m).rows = Append(st.rows, m)
    BY <2>1, PushType
  <2>3. Range(Append(st.rows, m)) = Range(st.rows) \cup {m}
    BY RangeAppend DEF Store
  <2> QED
    BY <2>2, <2>3
<1>3. ASSUME Contains(st, Key(m))
      PROVE  Range(st.rows) \subseteq Range(Add(st, m).rows)
  BY <1>3 DEF Add
<1> QED
  BY <1>1, <1>2, <1>3

\* A crash inside add() leaves the rows of a store that has room.
LEMMA CrashInAddKeepsRows ==
    ASSUME IInv, RoomEverywhere, NEW n \in Nodes, NEW m \in Message, CrashInAdd(n, m),
           NEW k \in Nodes
    PROVE  Range(store[k].rows) \subseteq Range(store'[k].rows)
<1>1. PICK st \in AddErrors(store[n], m) \cup {Add(store[n], m)} :
         store' = [store EXCEPT ![n] = Closed(st)]
  BY DEF CrashInAdd
<1>2. store[n] \in Store /\ ~IsFull(store[n]) /\ store \in [Nodes -> Store]
  BY DEF IInv, TypeOK, RoomEverywhere
<1>3. st \in Store /\ Range(store[n].rows) \subseteq Range(st.rows)
  <2>1. /\ Range(store[n].rows) \subseteq Range(Add(store[n], m).rows)
        /\ AddErrors(store[n], m) = {store[n]}
    BY <1>2, AddKeepsRows
  <2>2. Add(store[n], m) \in Store
    BY <1>2, AddType
  <2>3. st = store[n] \/ st = Add(store[n], m)
    BY <1>1, <2>1
  <2> QED
    BY <1>2, <2>1, <2>2, <2>3
<1>4. Closed(st).rows = st.rows
  BY <1>3 DEF Closed, Store
<1> QED
  BY <1>1, <1>2, <1>3, <1>4

\* No step of a mesh whose stores have room takes a row out of a table.
LEMMA RowsKept ==
    ASSUME IInv, RoomEverywhere, [Next]_vars, NEW k \in Nodes
    PROVE  Range(store[k].rows) \subseteq Range(store'[k].rows)
<1> DEFINE Kept == Range(store[k].rows) \subseteq Range(store'[k].rows)
<1>1. store \in [Nodes -> Store] /\ \A n \in Nodes : ~IsFull(store[n])
  BY DEF IInv, TypeOK, RoomEverywhere
<1>2. store' = store => Kept
  OBVIOUS
<1>3. ASSUME NEW n \in Nodes, NEW m \in Message,
             store' = [store EXCEPT ![n] = Add(@, m)]
      PROVE  Kept
  <2>1. Range(store[n].rows) \subseteq Range(Add(store[n], m).rows)
    BY <1>1, AddKeepsRows
  <2> QED
    BY <1>1, <1>3, <2>1
<1>4. ASSUME NEW n \in Nodes, NEW m \in Message,
             NEW st \in AddErrors(store[n], m), store' = [store EXCEPT ![n] = st]
      PROVE  Kept
  <2>1. st = store[n]
    BY <1>1, AddKeepsRows
  <2> QED
    BY <1>1, <1>4, <2>1
<1>5. ASSUME NEW n \in Authors, NEW b \in Bodies,
             CreateLocal(n, b) \/ CreateLocalFails(n, b) \/ CreateLocalCrashes(n, b)
      PROVE  Kept
  <2>1. n \in Nodes /\ up[n]
    BY <1>5, AuthorsAssumption DEF CreateLocal, CreateLocalFails, CreateLocalCrashes, Idle
  <2>2. NewMessage(n, b) \in Message
    BY <2>1, NewMessageType
  <2>3. CASE CreateLocal(n, b)
    BY <1>3, <2>1, <2>2, <2>3 DEF CreateLocal
  <2>4. CASE CreateLocalFails(n, b)
    BY <1>4, <2>1, <2>2, <2>4 DEF CreateLocalFails
  <2>5. CASE CreateLocalCrashes(n, b)
    BY <2>1, <2>2, <2>5, CrashInAddKeepsRows DEF CreateLocalCrashes
  <2> QED
    BY <1>5, <2>3, <2>4, <2>5
<1>6. ASSUME NEW r \in replicas,
             \/ HandleReplicate(r) \/ HandleReplicateFails(r)
             \/ HandleReplicateCrashes(r) \/ LoseReplica(r)
      PROVE  Kept
  <2>1. r.dest \in Nodes /\ r.message \in Message
    BY DEF IInv, TypeOK
  <2>2. CASE HandleReplicate(r)
    BY <1>2, <1>3, <2>1, <2>2 DEF HandleReplicate, IngestReplica
  <2>3. CASE HandleReplicateFails(r)
    BY <1>4, <2>1, <2>3 DEF HandleReplicateFails
  <2>4. CASE HandleReplicateCrashes(r)
    BY <2>1, <2>4, CrashInAddKeepsRows DEF HandleReplicateCrashes
  <2>5. CASE LoseReplica(r)
    BY <1>2, <2>5 DEF LoseReplica
  <2> QED
    BY <1>6, <2>2, <2>3, <2>4, <2>5
<1>7. ASSUME NEW n \in Nodes,
             \/ IngestSync(n) \/ IngestSyncFails(n) \/ IngestSyncCrashes(n)
             \/ Crash(n) \/ Start(n)
      PROVE  Kept
  <2>1. \A e \in ingesting[n] : e.message \in Message
    BY DEF IInv, TypeOK, Batch
  <2>2. CASE IngestSync(n)
    BY <1>3, <2>1, <2>2 DEF IngestSync, IngestOne
  <2>3. CASE IngestSyncFails(n)
    BY <1>4, <2>1, <2>3 DEF IngestSyncFails
  <2>4. CASE IngestSyncCrashes(n)
    BY <2>1, <2>4, CrashInAddKeepsRows DEF IngestSyncCrashes
  <2>5. CASE Crash(n)
    <3>1. Closed(store[n]).rows = store[n].rows
      BY <1>1 DEF Closed, Store
    <3> QED
      BY <1>1, <2>5, <3>1 DEF Crash
  <2>6. CASE Start(n)
    <3>1. LoadMessages(store[n]).rows = store[n].rows
      BY <1>1, LoadMessagesType
    <3> QED
      BY <1>1, <2>6, <3>1 DEF Start
  <2> QED
    BY <1>7, <2>2, <2>3, <2>4, <2>5, <2>6
<1>8. CASE UNCHANGED vars
  BY <1>2, <1>8 DEF vars
<1>9. ASSUME NEW n \in Nodes, NEW peers \in ActivePeers(n), SyncTimer(n, peers)
      PROVE  Kept
  BY <1>2, <1>9 DEF SyncTimer
<1>10. ASSUME NEW r \in summaries \cup responses \cup batches,
                    \/ HandleSummary(r) \/ LoseSummary(r)
                    \/ HandleSummaryResponse(r) \/ LoseResponse(r)
                    \/ HandleSyncMessages(r) \/ LoseBatch(r)
       PROVE  Kept
  BY <1>2, <1>10 DEF HandleSummary, LoseSummary, HandleSummaryResponse, LoseResponse,
                     HandleSyncMessages, LoseBatch
<1> HIDE DEF Kept
<1>11. ASSUME Next PROVE Kept
  BY <1>5, <1>6, <1>7, <1>9, <1>10, <1>11 DEF Next
<1> QED
  BY <1>8, <1>11 DEF Kept

\* A history variable: a node that was misread once counts as misread for
\* ever, and only a failing SELECT makes a node one.
LEMMA MisreadStep ==
    ASSUME [Next]_vars
    PROVE  misread \subseteq misread' /\ (~StorageFaults => misread' = misread)
<1> DEFINE Good == misread \subseteq misread' /\ (~StorageFaults => misread' = misread)
<1>1. ASSUME NEW n \in Nodes, Start(n) PROVE Good
  BY <1>1 DEF Start, NextSequenceAnswers
<1>2. CASE UNCHANGED vars
  BY <1>2 DEF vars
<1>3. ASSUME NEW n \in Authors, NEW b \in Bodies,
             CreateLocal(n, b) \/ CreateLocalFails(n, b) \/ CreateLocalCrashes(n, b)
      PROVE  Good
  BY <1>3 DEF CreateLocal, CreateLocalFails, CreateLocalCrashes
<1>4. ASSUME NEW r \in replicas,
             \/ HandleReplicate(r) \/ HandleReplicateFails(r)
             \/ HandleReplicateCrashes(r) \/ LoseReplica(r)
      PROVE  Good
  BY <1>4 DEF HandleReplicate, HandleReplicateFails, HandleReplicateCrashes, LoseReplica
<1>5. ASSUME NEW n \in Nodes,
             IngestSync(n) \/ IngestSyncFails(n) \/ IngestSyncCrashes(n) \/ Crash(n)
      PROVE  Good
  BY <1>5 DEF IngestSync, IngestSyncFails, IngestSyncCrashes, Crash
<1>6. ASSUME NEW n \in Nodes, NEW peers \in ActivePeers(n), SyncTimer(n, peers)
      PROVE  Good
  BY <1>6 DEF SyncTimer
<1>7. ASSUME NEW r \in summaries \cup responses \cup batches,
                    \/ HandleSummary(r) \/ LoseSummary(r)
                    \/ HandleSummaryResponse(r) \/ LoseResponse(r)
                    \/ HandleSyncMessages(r) \/ LoseBatch(r)
      PROVE  Good
  BY <1>7 DEF HandleSummary, LoseSummary, HandleSummaryResponse, LoseResponse,
              HandleSyncMessages, LoseBatch
<1> HIDE DEF Good
<1>8. ASSUME Next PROVE Good
  BY <1>1, <1>3, <1>4, <1>5, <1>6, <1>7, <1>8 DEF Next
<1> QED
  BY <1>2, <1>8 DEF Good

\* What a user was answered 200 for stays in the node's table until that table
\* is full for the first time: no crash, failed add, restart or message of a
\* peer takes it out or gets it confused with another.  Left out are the nodes
\* whose next_sequence has taken an error for an empty table.
THEOREM AcknowledgedKeptHolds == Spec /\ []RoomEverywhere => []AcknowledgedKept
<1>1. Init => AcknowledgedKept
  BY DEF Init, AcknowledgedKept
<1>2. ASSUME IInv, RoomEverywhere, AcknowledgedKept, [Next]_vars
      PROVE  AcknowledgedKept'
  <2> SUFFICES ASSUME NEW m \in acknowledged', m.origin \notin misread'
               PROVE  m \in Range(store'[m.origin].rows)
    BY DEF AcknowledgedKept
  <2>0. m.origin \notin misread
    BY <1>2, MisreadStep
  <2>1. CASE m \in acknowledged
    <3>1. m \in Range(store[m.origin].rows)
      BY <1>2, <2>0, <2>1 DEF AcknowledgedKept
    <3>2. m.origin \in Nodes
      BY <1>2, <2>1 DEF IInv, TypeOK, Message
    <3> QED
      BY <1>2, <3>1, <3>2, RowsKept
  <2>2. CASE m \notin acknowledged
    BY <1>2, <2>0, <2>2, NextStep
  <2> QED
    BY <2>1, <2>2
<1> QED
  BY <1>1, <1>2, Invariance, PTL DEF Spec

\* Without storage errors, a handler publishes what its node's table had no
\* row for and now has.
LEMMA PublishStep ==
    ASSUME IInv, ~StorageFaults, misread = {}, [Next]_vars
    PROVE  \/ UNCHANGED published
           \/ \E n \in Nodes, m \in Message :
                 /\ Publish(n, m)
                 /\ ~Contains(store[n], Key(m))
                 /\ m \in Range(store'[n].rows)
<1> DEFINE News == \E n \in Nodes, m \in Message :
                 /\ Publish(n, m)
                 /\ ~Contains(store[n], Key(m))
                 /\ m \in Range(store'[n].rows)
<1> DEFINE Good == published' = published \/ News
<1>1. ASSUME NEW n \in Nodes, NEW m \in Message, Publish(n, m),
             AddReturns(store[n], m), store' = [store EXCEPT ![n] = Add(@, m)]
      PROVE  News
  <2>1. store \in [Nodes -> Store] /\ store[n] \in Store
    BY DEF IInv, TypeOK
  <2>2. m \in Range(Add(store[n], m).rows)
    BY <1>1, <2>1, AddType
  <2>3. store'[n] = Add(store[n], m)
    BY <1>1, <2>1
  <2> QED
    BY <1>1, <2>2, <2>3 DEF AddReturns
<1>2. ASSUME NEW n \in Authors, NEW b \in Bodies,
             CreateLocal(n, b) \/ CreateLocalFails(n, b) \/ CreateLocalCrashes(n, b)
      PROVE  Good
  <2>1. CASE CreateLocal(n, b)
    <3>1. n \in Nodes /\ up[n]
      BY <2>1, AuthorsAssumption DEF CreateLocal, Idle
    <3>2. NewMessage(n, b) \in Message /\ AddReturns(store[n], NewMessage(n, b))
      BY <3>1, NewMessageIsNew
    <3>3. Publish(n, NewMessage(n, b))
          /\ store' = [store EXCEPT ![n] = Add(@, NewMessage(n, b))]
      BY <2>1 DEF CreateLocal
    <3> QED
      BY <1>1, <3>1, <3>2, <3>3
  <2>2. CASE CreateLocalFails(n, b) \/ CreateLocalCrashes(n, b)
    BY <2>2 DEF CreateLocalFails, CreateLocalCrashes
  <2> QED
    BY <1>2, <2>1, <2>2
<1>3. ASSUME NEW r \in replicas,
             \/ HandleReplicate(r) \/ HandleReplicateFails(r)
             \/ HandleReplicateCrashes(r) \/ LoseReplica(r)
      PROVE  Good
  <2>1. CASE HandleReplicate(r)
    <3>1. r.dest \in Nodes /\ r.message \in Message
      BY DEF IInv, TypeOK
    <3>2. ContainsAnswers(r.dest, r.message) =
             {Contains(store[r.dest], Key(r.message))}
      BY DEF ContainsAnswers
    <3>3. CASE Contains(store[r.dest], Key(r.message))
      BY <2>1, <3>2, <3>3 DEF HandleReplicate, IngestReplica
    <3>4. CASE ~Contains(store[r.dest], Key(r.message))
      <4>1. /\ Publish(r.dest, r.message)
            /\ store' = [store EXCEPT ![r.dest] = Add(@, r.message)]
        BY <2>1, <3>2, <3>4 DEF HandleReplicate, IngestReplica
      <4>2. AddReturns(store[r.dest], r.message)
        BY <3>4 DEF AddReturns
      <4> QED
        BY <1>1, <3>1, <4>1, <4>2
    <3> QED
      BY <3>3, <3>4
  <2>2. CASE HandleReplicateFails(r) \/ HandleReplicateCrashes(r) \/ LoseReplica(r)
    BY <2>2 DEF HandleReplicateFails, HandleReplicateCrashes, LoseReplica
  <2> QED
    BY <1>3, <2>1, <2>2
<1>4. ASSUME NEW n \in Nodes,
             \/ IngestSync(n) \/ IngestSyncFails(n) \/ IngestSyncCrashes(n)
             \/ Crash(n) \/ Start(n)
      PROVE  Good
  <2>1. CASE IngestSync(n)
    <3>1. PICK e \in ingesting[n] : IngestOne(n, e.message)
      BY <2>1 DEF IngestSync
    <3>2. e.message \in Message
      BY DEF IInv, TypeOK, Batch
    <3> QED
      BY <1>1, <3>1, <3>2 DEF IngestOne
  <2>2. CASE IngestSyncFails(n) \/ IngestSyncCrashes(n) \/ Crash(n) \/ Start(n)
    BY <2>2 DEF IngestSyncFails, IngestSyncCrashes, Crash, Start
  <2> QED
    BY <1>4, <2>1, <2>2
<1>5. CASE UNCHANGED vars
  BY <1>5 DEF vars
<1>6. ASSUME NEW n \in Nodes, NEW peers \in ActivePeers(n), SyncTimer(n, peers)
      PROVE  Good
  BY <1>6 DEF SyncTimer
<1>7. ASSUME NEW r \in summaries \cup responses \cup batches,
                    \/ HandleSummary(r) \/ LoseSummary(r)
                    \/ HandleSummaryResponse(r) \/ LoseResponse(r)
                    \/ HandleSyncMessages(r) \/ LoseBatch(r)
       PROVE  Good
  BY <1>7 DEF HandleSummary, LoseSummary, HandleSummaryResponse, LoseResponse,
                     HandleSyncMessages, LoseBatch
<1> HIDE DEF Good
<1>8. ASSUME Next PROVE Good
  BY <1>2, <1>3, <1>4, <1>6, <1>7, <1>8 DEF Next
<1> QED
  BY <1>5, <1>8 DEF Good

\* The table of a node has a row for everything the node has published.
PublishedStored ==
    \A n \in Nodes : \A i \in DOMAIN published[n] :
        Contains(store[n], Key(published[n][i]))

\* A browser is told of a message at most once until a store is full for the
\* first time, whichever of replication, sync and its own users bring it and
\* whatever crashes, as long as no SQLite statement fails (a contains() that
\* fails answers "no", and ingest_replica publishes a second time).
THEOREM PublishedOnceHolds ==
    ~StorageFaults => (Spec /\ []RoomEverywhere => []PublishedOnce)
<1> SUFFICES ASSUME ~StorageFaults PROVE Spec /\ []RoomEverywhere => []PublishedOnce
  OBVIOUS
<1> DEFINE Once == PublishedOnce /\ PublishedStored /\ misread = {}
<1>1. Init => Once
  BY DEF Init, PublishedOnce, PublishedStored
<1>2. ASSUME IInv, RoomEverywhere, Once, [Next]_vars
      PROVE  Once'
  <2>0. misread' = {}
    BY <1>2, MisreadStep
  <2>1. ASSUME NEW n \in Nodes, NEW k, Contains(store[n], k)
        PROVE  Contains(store'[n], k)
    BY <1>2, <2>1, RowsKept DEF Contains
  <2>2. CASE UNCHANGED published
    BY <1>2, <2>0, <2>1, <2>2 DEF PublishedOnce, PublishedStored
  <2>3. CASE ~UNCHANGED published
    <3>1. PICK n \in Nodes, m \in Message :
                 /\ Publish(n, m)
                 /\ ~Contains(store[n], Key(m))
                 /\ m \in Range(store'[n].rows)
      BY <1>2, <2>3, PublishStep
    <3>2. published \in [Nodes -> Seq(Message)]
      BY <1>2 DEF IInv, TypeOK
    <3> DEFINE old == published[n]
    <3> DEFINE new == Append(old, m)
    <3>3. /\ published'[n] = new
          /\ \A k \in Nodes : k # n => published'[k] = published[k]
      BY <3>1, <3>2 DEF Publish
    <3>4. /\ DOMAIN old = 1..Len(old) /\ Len(old) \in Nat
          /\ DOMAIN new = 1..(Len(old) + 1)
          /\ \A i \in 1..Len(old) : new[i] = old[i]
          /\ new[Len(old) + 1] = m
      BY <3>2, AppendProperties, LenProperties
    <3>5. \A i \in 1..Len(old) : Key(old[i]) # Key(m) /\ Contains(store'[n], Key(old[i]))
      BY <1>2, <2>1, <3>1, <3>4 DEF PublishedStored
    <3>6. Contains(store'[n], Key(m))
      BY <3>1 DEF Contains
    <3>7. \A i, j \in 1..Len(old) : Key(old[i]) = Key(old[j]) => i = j
      BY <1>2, <3>4 DEF PublishedOnce
    <3> HIDE DEF old, new
    <3>8. \A i \in DOMAIN new : i \in 1..Len(old) \/ i = Len(old) + 1
      BY <3>4
    <3>9. \A i, j \in DOMAIN new : Key(new[i]) = Key(new[j]) => i = j
      BY <3>4, <3>5, <3>7, <3>8
    <3>10. \A i \in DOMAIN new : Contains(store'[n], Key(new[i]))
      BY <3>4, <3>5, <3>6, <3>8
    <3>11. PublishedOnce'
      BY <1>2, <3>3, <3>9 DEF PublishedOnce
    <3>12. PublishedStored'
      BY <1>2, <2>1, <3>3, <3>10 DEF PublishedStored
    <3> QED
      BY <2>0, <3>11, <3>12
  <2> QED
    BY <2>2, <2>3
<1> QED
  BY <1>1, <1>2, Invariance, PTL DEF Spec
=============================================================================
