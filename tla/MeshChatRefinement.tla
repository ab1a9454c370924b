------------------------- MODULE MeshChatRefinement -------------------------
(***************************************************************************)
(* The mesh implements the one log of ChatLog.  The mapping: the messages  *)
(* written are the log, and what a node shows is its table.  The steps of  *)
(* a mesh in which a next_sequence was misread are left out: such a node   *)
(* writes under keys it has used, which no step of the log does.           *)
(***************************************************************************)
EXTENDS MeshChatProofs

Visible == [n \in Nodes |-> Range(store[n].rows)]

\* A node's table takes in one message at most and may lose old ones.
LEMMA ShowStep ==
    ASSUME NEW n \in Nodes, NEW m, NEW new,
           \A k \in Nodes : k # n => store'[k].rows = store[k].rows,
           new = {} \/ new = {m},
           new \subseteq Range(store'[n].rows),
           Range(store'[n].rows) \subseteq Range(store[n].rows) \cup new
    PROVE  Log!Show(n, new)
<1> DEFINE kept == Range(store'[n].rows) \cap Range(store[n].rows)
<1>1. kept \cup new = Range(store'[n].rows)
  OBVIOUS
<1>2. Visible' = [Visible EXCEPT ![n] = kept \cup new]
  BY <1>1 DEF Visible
<1>3. kept \in SUBSET Visible[n]
  BY DEF Visible
<1> QED
  BY <1>2, <1>3 DEF Log!Show, Visible

\* A step that adds at most one message of the log is Learn or Forget,
LEMMA LearnsAtMost ==
    ASSUME NEW n \in Nodes, NEW m \in written, written' = written,
           Range(store'[n].rows) \subseteq Range(store[n].rows) \cup {m},
           \A k \in Nodes : k # n => store'[k].rows = store[k].rows
    PROVE  Log!LogNext
<1>1. CASE m \in Range(store'[n].rows)
  <2>1. Log!Show(n, {m})
    BY <1>1, ShowStep
  <2> QED
    BY <2>1 DEF Log!LogNext, Log!Learn
<1>2. CASE m \notin Range(store'[n].rows)
  <2>1. Log!Show(n, {})
    BY <1>2, ShowStep
  <2> QED
    BY <2>1 DEF Log!LogNext, Log!Forget
<1> QED
  BY <1>1, <1>2

\* ... as add() is,
LEMMA AddLearns ==
    ASSUME IInv, NEW n \in Nodes, NEW m \in written,
           store' = [store EXCEPT ![n] = Add(@, m)],
           written' = written
    PROVE  Log!LogNext
<1>1. store \in [Nodes -> Store] /\ m \in Message
  BY DEF IInv, TypeOK
<1>2. Range(store'[n].rows) \subseteq Range(store[n].rows) \cup {m}
  BY <1>1, AddType, ZenonT(40)
<1>3. \A k \in Nodes : k # n => store'[k].rows = store[k].rows
  BY <1>1
<1> QED
  BY <1>2, <1>3, LearnsAtMost

\* ... and a crash inside it.
LEMMA CrashLearns ==
    ASSUME IInv, NEW n \in Nodes, NEW m \in written, CrashInAdd(n, m),
           written' = written
    PROVE  Log!LogNext
<1>1. m \in Message
  BY DEF IInv, TypeOK
<1>2. /\ Range(store'[n].rows) \subseteq Range(store[n].rows) \cup {m}
      /\ \A k \in Nodes : k # n => store'[k] = store[k]
  BY <1>1, CrashInAddStores, CommittedStep
<1> QED
  BY <1>2, LearnsAtMost

\* An add() that throws forgets at most.
LEMMA AddFailsForgets ==
    ASSUME IInv, NEW n \in Nodes, NEW m \in Message,
           NEW st \in AddErrors(store[n], m),
           store' = [store EXCEPT ![n] = st],
           written' = written
    PROVE  Log!LogNext
<1>1. store \in [Nodes -> Store]
  BY DEF IInv, TypeOK
<1>2. Range(store'[n].rows) \subseteq Range(store[n].rows)
  BY <1>1, AddErrorsType
<1>3. \A k \in Nodes : k # n => store'[k].rows = store[k].rows
  BY <1>1
<1>4. Log!Show(n, {})
  BY <1>2, <1>3, ShowStep
<1> QED
  BY <1>4 DEF Log!LogNext, Log!Forget

\* Writing a new message is Accept.
LEMMA WriteAccepts ==
    ASSUME IInv, NEW n \in Nodes, NEW b \in Bodies,
           up[n], n \notin misread, nextSequence[n] <= MaxSequence,
           written' = written \cup {NewMessage(n, b)},
           NewMessage(n, b) \in Range(store'[n].rows),
           Range(store'[n].rows) \subseteq Range(store[n].rows) \cup {NewMessage(n, b)},
           \A k \in Nodes : k # n => store'[k].rows = store[k].rows
    PROVE  Log!LogNext
<1> DEFINE m == NewMessage(n, b)
<1>1. nextSequence[n] \in Nat \ {0}
  BY DEF IInv, TypeOK
<1>2. \A x \in written : x.origin = n => x.sequence < nextSequence[n]
  BY NewMessageIsNew
<1>3. m.origin = n /\ m.sequence = nextSequence[n] /\ m.body = b
      /\ m = [origin |-> n, sequence |-> nextSequence[n], body |-> b]
  BY DEF NewMessage
<1>4. m \in [origin : Nodes, sequence : 1..MaxSequence, body : Bodies]
  BY <1>1, <1>3, MaxSequenceAssumption
<1>5. Log!Show(n, {m})
  BY ShowStep
<1>6. Log!Accept(n, m)
  BY <1>2, <1>3, <1>5 DEF Log!Accept
<1> QED
  BY <1>4, <1>6 DEF Log!LogNext, Log!LogMessage

\* create_local writes, ...
LEMMA CreateLocalAccepts ==
    ASSUME IInv, NEW n \in Nodes, NEW b \in Bodies, CreateLocal(n, b),
           n \notin misread
    PROVE  Log!LogNext
<1> DEFINE m == NewMessage(n, b)
<1>1. /\ store' = [store EXCEPT ![n] = Add(@, m)]
      /\ written' = written \cup {m}
      /\ up[n] /\ nextSequence[n] <= MaxSequence
  BY DEF CreateLocal, Idle
<1>2. store \in [Nodes -> Store]
  BY DEF IInv, TypeOK
<1>3. m \in Message /\ AddReturns(store[n], m)
  BY <1>1, NewMessageIsNew
<1> HIDE DEF m
<1>4. /\ m \in Range(store'[n].rows)
      /\ Range(store'[n].rows) \subseteq Range(store[n].rows) \cup {m}
      /\ \A k \in Nodes : k # n => store'[k].rows = store[k].rows
  BY <1>1, <1>2, <1>3, AddType
<1> QED
  BY <1>1, <1>4, WriteAccepts DEF m

\* ... and so does one that is cut short after its commit.
LEMMA CreateLocalCrashesMaps ==
    ASSUME IInv, NEW n \in Nodes, NEW b \in Bodies, CreateLocalCrashes(n, b),
           n \notin misread
    PROVE  Log!LogNext
<1> DEFINE m == NewMessage(n, b)
<1>1. /\ CrashInAdd(n, m) /\ up[n] /\ nextSequence[n] <= MaxSequence
      /\ written' = written \cup ({m} \cap Range(store'[n].rows))
  BY DEF CreateLocalCrashes, Idle
<1>2. m \in Message /\ AddReturns(store[n], m)
  BY <1>1, NewMessageIsNew
<1>3. m \notin Range(store[n].rows)
  BY <1>2 DEF AddReturns, Contains
<1> HIDE DEF m
<1>4. CASE /\ Range(store'[n].rows) \subseteq Range(store[n].rows)
           /\ \A k \in Nodes : k # n => store'[k] = store[k]
  <2>1. written' = written
    BY <1>1, <1>3, <1>4
  <2>2. Log!Show(n, {})
    BY <1>4, ShowStep
  <2> QED
    BY <2>1, <2>2 DEF Log!LogNext, Log!Forget
<1>5. CASE store' = [store EXCEPT ![n] = Closed(Add(store[n], m))]
  <2>1. /\ m \in Range(store'[n].rows)
        /\ Range(store'[n].rows) \subseteq Range(store[n].rows) \cup {m}
        /\ \A k \in Nodes : k # n => store'[k] = store[k]
    BY <1>2, <1>5, CommittedStep
  <2>2. written' = written \cup {m}
    BY <1>1, <2>1
  <2> QED
    BY <1>1, <2>1, <2>2, WriteAccepts DEF m
<1> QED
  BY <1>1, <1>2, <1>4, <1>5, CrashInAddStores

\* Steps that touch no table are invisible.
LEMMA InvisibleStep ==
    ASSUME written' = written,
           \A k \in Nodes : store'[k].rows = store[k].rows
    PROVE  UNCHANGED Log!logVars
BY DEF Log!logVars

\* Every step of a mesh without misread counters is a step of the log or
\* invisible.
LEMMA LogStep ==
    ASSUME IInv, [Next]_vars, misread = {}
    PROVE  Log!LogNext \/ UNCHANGED Log!logVars
<1> DEFINE Maps == Log!LogNext \/ UNCHANGED Log!logVars
<1>1. CASE store' = store /\ written' = written
  BY <1>1, InvisibleStep
<1>2. ASSUME NEW n \in Authors, NEW b \in Bodies,
             CreateLocal(n, b) \/ CreateLocalFails(n, b) \/ CreateLocalCrashes(n, b)
      PROVE  Maps
  <2>1. n \in Nodes
    BY AuthorsAssumption
  <2>2. CASE CreateLocal(n, b)
    BY <2>1, <2>2, CreateLocalAccepts
  <2>3. CASE CreateLocalFails(n, b)
    <3>1. NewMessage(n, b) \in Message
      BY <2>1 DEF NewMessage, Message, IInv, TypeOK
    <3>2. PICK st \in AddErrors(store[n], NewMessage(n, b)) :
             store' = [store EXCEPT ![n] = st]
      BY <2>3 DEF CreateLocalFails
    <3>3. written' = written
      BY <2>3 DEF CreateLocalFails
    <3> QED
      BY <2>1, <3>1, <3>2, <3>3, AddFailsForgets
  <2>4. CASE CreateLocalCrashes(n, b)
    BY <2>1, <2>4, CreateLocalCrashesMaps
  <2> QED
    BY <1>2, <2>2, <2>3, <2>4
<1>3. ASSUME NEW r \in replicas,
             \/ HandleReplicate(r) \/ HandleReplicateFails(r)
             \/ HandleReplicateCrashes(r) \/ LoseReplica(r)
      PROVE  Maps
  <2>1. /\ r.dest \in Nodes /\ r.message \in Message /\ r.message \in written
        /\ written' = written
    BY <1>3 DEF IInv, TypeOK, AllTraceable, HandleReplicate,
                HandleReplicateFails, HandleReplicateCrashes, LoseReplica
  <2>2. CASE HandleReplicate(r)
    <3>1. CASE store' = store
      BY <3>1, <2>1, <1>1
    <3>2. CASE store' = [store EXCEPT ![r.dest] = Add(@, r.message)]
      BY <3>2, <2>1, AddLearns
    <3> QED
      BY <2>2, <3>1, <3>2 DEF HandleReplicate, IngestReplica
  <2>3. CASE HandleReplicateFails(r)
    <3>1. PICK st \in AddErrors(store[r.dest], r.message) :
             store' = [store EXCEPT ![r.dest] = st]
      BY <2>3 DEF HandleReplicateFails
    <3> QED
      BY <2>1, <3>1, AddFailsForgets
  <2>4. CASE LoseReplica(r)
    BY <2>1, <2>4, <1>1 DEF LoseReplica
  <2>5. CASE HandleReplicateCrashes(r)
    BY <2>1, <2>5, CrashLearns DEF HandleReplicateCrashes
  <2> QED
    BY <1>3, <2>2, <2>3, <2>4, <2>5
<1>4. ASSUME NEW n \in Nodes, NEW peers \in ActivePeers(n), SyncTimer(n, peers)
      PROVE  Maps
  BY <1>1, <1>4 DEF SyncTimer
<1>5. ASSUME NEW r \in summaries, HandleSummary(r) \/ LoseSummary(r)
      PROVE  Maps
  BY <1>1, <1>5 DEF HandleSummary, LoseSummary
<1>6. ASSUME NEW r \in responses, HandleSummaryResponse(r) \/ LoseResponse(r)
      PROVE  Maps
  BY <1>1, <1>6 DEF HandleSummaryResponse, LoseResponse
<1>7. ASSUME NEW r \in batches, HandleSyncMessages(r) \/ LoseBatch(r)
      PROVE  Maps
  BY <1>1, <1>7 DEF HandleSyncMessages, LoseBatch
<1>8. ASSUME NEW n \in Nodes,
             IngestSync(n) \/ IngestSyncFails(n) \/ IngestSyncCrashes(n)
      PROVE  Maps
  <2>1. written' = written
    BY <1>8 DEF IngestSync, IngestSyncFails, IngestSyncCrashes
  <2>2. \A e \in ingesting[n] : e.message \in Message /\ e.message \in written
    BY DEF IInv, TypeOK, AllTraceable, Traceable, Batch
  <2>3. CASE IngestSync(n)
    <3>1. PICK e \in ingesting[n] :
             store' = [store EXCEPT ![n] = Add(@, e.message)]
      BY <2>3 DEF IngestSync, IngestOne
    <3> QED
      BY <2>1, <2>2, <3>1, AddLearns
  <2>4. CASE IngestSyncFails(n)
    <3>1. PICK e \in ingesting[n] : \E st \in AddErrors(store[n], e.message) :
             store' = [store EXCEPT ![n] = st]
      BY <2>4 DEF IngestSyncFails
    <3>2. PICK st \in AddErrors(store[n], e.message) :
             store' = [store EXCEPT ![n] = st]
      BY <3>1
    <3> QED
      BY <2>1, <2>2, <3>2, AddFailsForgets
  <2>5. CASE IngestSyncCrashes(n)
    <3>1. PICK e \in ingesting[n] : CrashInAdd(n, e.message)
      BY <2>5 DEF IngestSyncCrashes
    <3> QED
      BY <2>1, <2>2, <3>1, CrashLearns
  <2> QED
    BY <1>8, <2>3, <2>4, <2>5
<1>9. ASSUME NEW n \in Nodes, Crash(n) \/ Start(n)
      PROVE  Maps
  <2>1. store \in [Nodes -> Store] /\ written' = written
    BY <1>9 DEF IInv, TypeOK, Crash, Start
  <2>2. CASE Crash(n)
    <3>1. \A k \in Nodes : store'[k].rows = store[k].rows
      BY <2>1, <2>2 DEF Crash, Closed, Store
    <3> QED
      BY <2>1, <3>1, InvisibleStep
  <2>3. CASE Start(n)
    <3>1. LoadMessages(store[n]).rows = store[n].rows
      BY <2>1, LoadMessagesType
    <3>2. \A k \in Nodes : store'[k].rows = store[k].rows
      BY <2>1, <2>3, <3>1 DEF Start
    <3> QED
      BY <2>1, <3>2, InvisibleStep
  <2> QED
    BY <1>9, <2>2, <2>3
<1>10. CASE UNCHANGED vars
  BY <1>1, <1>10 DEF vars
<1> HIDE DEF Maps
<1>11. ASSUME Next PROVE Maps
  BY <1>2, <1>3, <1>4, <1>5, <1>6, <1>7, <1>8, <1>9, <1>11 DEF Next
<1> QED
  BY <1>10, <1>11 DEF Maps

\* The stores, the two ways a message travels, the failures and the restarts
\* together implement one log per mesh, written only by the authors, until the
\* first next_sequence that takes an error for an empty table.
THEOREM MeshImplementsLog == Spec => ImplementsLog
<1>1. Init => Log!LogInit
  <2> SUFFICES ASSUME Init PROVE Log!LogInit
    OBVIOUS
  <2>1. Range(EmptyStore.rows) = {}
    BY EmptyStoreType
  <2> QED
    BY <2>1 DEF Init, Log!LogInit
<1>2. IInv /\ [Next]_vars => [misread' = {} => Log!LogNext]_(Log!logVars)
  BY LogStep, MisreadStep
<1> QED
  BY <1>1, <1>2, Invariance, PTL DEF Spec, ImplementsLog
=============================================================================
