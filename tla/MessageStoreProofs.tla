------------------------- MODULE MessageStoreProofs -------------------------
(***************************************************************************)
(* Theorems about one MessageStore, for every capacity, prune limit and    *)
(* sequence of calls, failing or not.  TypeOK, UniqueKeys and CacheSound   *)
(* are inductive as they stand; NextSequenceFresh, which says nothing of a *)
(* table at its largest sequence, follows from AtMostHighWater.            *)
(***************************************************************************)
EXTENDS MessageStore, StoreLemmas

KeysUnique(rows) == \A i, j \in DOMAIN rows : Key(rows[i]) = Key(rows[j]) => i = j

InTableOrder(st) ==
    \A i, j \in DOMAIN st.messages : \E p, q \in DOMAIN st.rows :
        /\ st.rows[p] = st.messages[i]
        /\ st.rows[q] = st.messages[j]
        /\ i < j => p < q

\* Every row ever committed is at or below the high-water mark of its origin.
AtMostHighWater == \A k \in inserted : k[2] <= store.sequences[k[1]]

IInv == TypeOK /\ UniqueKeys /\ AtMostHighWater /\ CacheSound

\* Cutting off the old end of a table keeps its keys unique.
LEMMA DeleteOldestUnique ==
    ASSUME NEW st \in Store, KeysUnique(st.rows)
    PROVE  KeysUnique(DeleteOldest(st).rows)
<1> DEFINE first == Smaller(PruneLimit, Len(st.rows)) + 1
           cut == SubSeq(st.rows, first, Len(st.rows))
<1>1. st.rows \in Seq(Message) /\ Len(st.rows) \in Nat /\ DOMAIN st.rows = 1..Len(st.rows)
  BY LenProperties DEF Store
<1>2. first \in Nat \ {0} /\ Len(st.rows) \in 0..Len(st.rows)
  BY <1>1, PruneLimitAssumption DEF Smaller
<1>3. DeleteOldest(st).rows = cut
  BY DEF DeleteOldest, Store
<1> HIDE DEF first
<1>4. /\ cut \in Seq(Message)
      /\ Len(cut) = IF first <= Len(st.rows) THEN Len(st.rows) - first + 1 ELSE 0
      /\ \A k \in 1..(Len(st.rows) - first + 1) : cut[k] = st.rows[first + k - 1]
  BY <1>1, <1>2, RangeSubSeq
<1>5. DOMAIN cut = 1..Len(cut)
  BY <1>4, LenProperties
<1> HIDE DEF cut
<1>6. ASSUME NEW i \in DOMAIN cut, NEW j \in DOMAIN cut, Key(cut[i]) = Key(cut[j])
      PROVE  i = j
  <2>1. /\ i \in 1..(Len(st.rows) - first + 1) /\ j \in 1..(Len(st.rows) - first + 1)
        /\ first + i - 1 \in DOMAIN st.rows /\ first + j - 1 \in DOMAIN st.rows
    BY <1>1, <1>2, <1>4, <1>5, SMTT(40)
  <2>2. first + i - 1 = first + j - 1
    BY <1>4, <1>6, <2>1 DEF KeysUnique
  <2> QED
    BY <1>2, <2>1, <2>2
<1> QED
  BY <1>3, <1>6 DEF KeysUnique

\* Adding a message whose key no row has keeps the keys unique.
LEMMA PushUnique ==
    ASSUME NEW st \in Store, NEW m \in Message, KeysUnique(st.rows),
           ~Contains(st, Key(m))
    PROVE  KeysUnique(Push(st, m).rows)
<1>1. Push(st, m).rows = Append(st.rows, m) /\ st.rows \in Seq(Message)
  BY PushType DEF Store
<1>2. /\ Append(st.rows, m) \in Seq(Message)
      /\ Len(Append(st.rows, m)) = Len(st.rows) + 1
      /\ \A i \in 1..Len(st.rows) : Append(st.rows, m)[i] = st.rows[i]
      /\ Append(st.rows, m)[Len(st.rows) + 1] = m
  BY <1>1, AppendProperties
<1>3. /\ Len(st.rows) \in Nat /\ DOMAIN st.rows = 1..Len(st.rows)
      /\ DOMAIN Append(st.rows, m) = 1..(Len(st.rows) + 1)
  BY <1>1, <1>2, LenProperties
<1>4. \A i \in 1..Len(st.rows) : Key(st.rows[i]) # Key(m)
  BY <1>3 DEF Contains, Range
<1> DEFINE rows == Append(st.rows, m)
<1>5. ASSUME NEW i \in DOMAIN rows, NEW j \in DOMAIN rows, Key(rows[i]) = Key(rows[j])
      PROVE  i = j
  <2>1. CASE i \in 1..Len(st.rows) /\ j \in 1..Len(st.rows)
    BY <2>1, <1>2, <1>3, <1>5 DEF KeysUnique
  <2>2. CASE i = Len(st.rows) + 1 /\ j = Len(st.rows) + 1
    BY <2>2
  <2>3. CASE i \in 1..Len(st.rows) /\ j = Len(st.rows) + 1
    BY <2>3, <1>2, <1>4, <1>5
  <2>4. CASE i = Len(st.rows) + 1 /\ j \in 1..Len(st.rows)
    BY <2>4, <1>2, <1>4, <1>5
  <2> QED
    BY <1>3, <2>1, <2>2, <2>3, <2>4
<1> QED
  BY <1>1, <1>5 DEF KeysUnique

\* A key that is not in a table is not in it after trimming either.
LEMMA DeleteKeepsAbsent ==
    ASSUME NEW st \in Store, NEW k, ~Contains(st, k)
    PROVE  ~Contains(PruneOldestMessages(st), k)
BY DeleteOldestType, LoadMessagesType DEF PruneOldestMessages, Contains

\* add() leaves a table with unique keys.
LEMMA AddKeeps ==
    ASSUME NEW st \in Store, NEW m \in Message, KeysUnique(st.rows)
    PROVE  KeysUnique(Add(st, m).rows)
<1>1. CASE Contains(st, Key(m))
  BY <1>1 DEF Add
<1>2. CASE ~Contains(st, Key(m)) /\ ~IsFull(st)
  BY <1>2, PushUnique DEF Add
<1>3. CASE ~Contains(st, Key(m)) /\ IsFull(st)
  <2> DEFINE pruned == PruneOldestMessages(st)
  <2>1. Add(st, m) = Push(pruned, m)
    BY <1>3 DEF Add
  <2>2. pruned \in Store /\ pruned.rows = DeleteOldest(st).rows
    BY DeleteOldestType, LoadMessagesType DEF PruneOldestMessages
  <2>3. ~Contains(pruned, Key(m))
    BY <1>3, DeleteKeepsAbsent
  <2> HIDE DEF pruned
  <2>4. KeysUnique(pruned.rows)
    BY <2>2, DeleteOldestUnique
  <2> QED
    BY <2>1, <2>2, <2>3, <2>4, PushUnique
<1> QED
  BY <1>1, <1>2, <1>3

\* So does an add() that throws.
LEMMA AddErrorsKeeps ==
    ASSUME NEW st \in Store, NEW m \in Message, NEW e \in AddErrors(st, m),
           KeysUnique(st.rows)
    PROVE  KeysUnique(e.rows)
<1>1. CASE e = st
  BY <1>1
<1>2. CASE e # st
  <2>1. PICK n \in 0..Len(DeleteOldest(st).rows) : e = LoadPrefix(DeleteOldest(st), n)
    BY <1>2 DEF AddErrors
  <2>2. e.rows = DeleteOldest(st).rows
    BY <2>1, DeleteOldestType DEF LoadPrefix, Store
  <2> QED
    BY <2>2, DeleteOldestUnique
<1> QED
  BY <1>1, <1>2

-----------------------------------------------------------------------------
\* What has been read of the table from its old end, up to all of it, is in
\* table order.
LEMMA PrefixInOrder ==
    ASSUME NEW st \in Store, NEW n \in 0..Len(st.rows),
           \/ st.messages = SubSeq(st.rows, 1, n)
           \/ st.messages = st.rows
    PROVE  InTableOrder(st)
<1>1. /\ st.rows \in Seq(Message) /\ st.messages \in Seq(Message)
      /\ Len(st.rows) \in Nat /\ DOMAIN st.rows = 1..Len(st.rows)
      /\ Len(st.messages) \in Nat /\ DOMAIN st.messages = 1..Len(st.messages)
  BY LenProperties DEF Store
<1>2. CASE st.messages = st.rows
  BY <1>2 DEF InTableOrder
<1>3. CASE st.messages = SubSeq(st.rows, 1, n)
  <2>1. /\ Len(st.messages) = IF 1 <= n THEN n - 1 + 1 ELSE 0
        /\ \A k \in 1..(n - 1 + 1) : st.messages[k] = st.rows[1 + k - 1]
    BY <1>1, <1>3, RangeSubSeq
  <2>2. \A i \in DOMAIN st.messages : i \in DOMAIN st.rows /\ st.rows[i] = st.messages[i]
    BY <1>1, <2>1
  <2> QED
    BY <2>2 DEF InTableOrder
<1> QED
  BY <1>2, <1>3

\* push_back after the commit puts the message at the end of both.
LEMMA PushInOrder ==
    ASSUME NEW st \in Store, NEW m \in Message, InTableOrder(st)
    PROVE  InTableOrder(Push(st, m))
<1> DEFINE rows == Append(st.rows, m)
           messages == Append(st.messages, m)
<1>1. /\ st.rows \in Seq(Message) /\ st.messages \in Seq(Message)
      /\ Len(st.rows) \in Nat /\ DOMAIN st.rows = 1..Len(st.rows)
      /\ Len(st.messages) \in Nat /\ DOMAIN st.messages = 1..Len(st.messages)
  BY LenProperties DEF Store
<1>2. Push(st, m).rows = rows /\ Push(st, m).messages = messages
  BY PushType
<1>3. /\ DOMAIN rows = 1..(Len(st.rows) + 1)
      /\ \A i \in 1..Len(st.rows) : rows[i] = st.rows[i]
      /\ rows[Len(st.rows) + 1] = m
  BY <1>1, AppendProperties, LenProperties
<1>4. /\ DOMAIN messages = 1..(Len(st.messages) + 1)
      /\ \A i \in 1..Len(st.messages) : messages[i] = st.messages[i]
      /\ messages[Len(st.messages) + 1] = m
  BY <1>1, AppendProperties, LenProperties
<1> HIDE DEF rows, messages
<1>5. ASSUME NEW i \in DOMAIN messages, NEW j \in DOMAIN messages
      PROVE  \E p, q \in DOMAIN rows :
                /\ rows[p] = messages[i] /\ rows[q] = messages[j] /\ (i < j => p < q)
  <2> DEFINE last == Len(st.rows) + 1
  <2>1. last \in DOMAIN rows /\ rows[last] = m
    BY <1>1, <1>3
  <2>2. \A p \in DOMAIN st.rows : p \in DOMAIN rows /\ rows[p] = st.rows[p] /\ p < last
    BY <1>1, <1>3
  <2>3. CASE i \in DOMAIN st.messages /\ j \in DOMAIN st.messages
    <3>1. PICK p, q \in DOMAIN st.rows :
             st.rows[p] = st.messages[i] /\ st.rows[q] = st.messages[j] /\ (i < j => p < q)
      BY <2>3 DEF InTableOrder
    <3> QED
      BY <1>1, <1>4, <2>2, <2>3, <3>1
  <2>4. CASE i \in DOMAIN st.messages /\ j = Len(st.messages) + 1
    <3>1. PICK p \in DOMAIN st.rows : st.rows[p] = st.messages[i]
      BY <2>4 DEF InTableOrder
    <3> HIDE DEF last
    <3>2. /\ p \in DOMAIN rows /\ rows[p] = messages[i] /\ p < last
          /\ rows[last] = messages[j]
      BY <1>1, <1>4, <2>1, <2>2, <2>4, <3>1
    <3> QED
      BY <2>1, <3>2
  <2>5. CASE i = Len(st.messages) + 1
    <3>1. ~(i < j)
      BY <1>1, <1>4, <2>5
    <3>2. \E q \in DOMAIN rows : rows[q] = messages[j]
      <4>1. CASE j \in DOMAIN st.messages
        BY <1>1, <1>4, <2>2, <4>1 DEF InTableOrder
      <4>2. CASE j = Len(st.messages) + 1
        BY <1>4, <2>1, <4>2
      <4> QED
        BY <1>1, <1>4, <4>1, <4>2
    <3> QED
      BY <1>4, <2>1, <2>5, <3>1, <3>2
  <2> QED
    BY <1>1, <1>4, <2>3, <2>4, <2>5
<1> QED
  BY <1>2, <1>5 DEF InTableOrder

\* Whatever add() does or fails to do, messages_ stays in table order.
LEMMA AddInOrder ==
    ASSUME NEW st \in Store, NEW m \in Message, InTableOrder(st)
    PROVE  InTableOrder(Add(st, m)) /\ \A e \in AddErrors(st, m) : InTableOrder(e)
<1>1. /\ DeleteOldest(st) \in Store /\ PruneOldestMessages(st) \in Store
      /\ PruneOldestMessages(st).messages = PruneOldestMessages(st).rows
  BY DeleteOldestType, LoadMessagesType DEF PruneOldestMessages
<1>2. InTableOrder(PruneOldestMessages(st))
  BY <1>1 DEF InTableOrder
<1>3. InTableOrder(Add(st, m))
  BY <1>1, <1>2, PushInOrder DEF Add
<1>4. ASSUME NEW e \in AddErrors(st, m) PROVE InTableOrder(e)
  <2>1. CASE e = st
    BY <2>1
  <2>2. CASE e # st
    <3>1. PICK n \in 0..Len(DeleteOldest(st).rows) : e = LoadPrefix(DeleteOldest(st), n)
      BY <2>2 DEF AddErrors
    <3>2. e \in Store
      BY AddErrorsType
    <3>3. /\ e.rows = DeleteOldest(st).rows
          /\ e.messages = SubSeq(DeleteOldest(st).rows, 1, n)
      BY <1>1, <3>1 DEF LoadPrefix, Store
    <3> QED
      BY <3>2, <3>3, PrefixInOrder
  <2> QED
    BY <2>1, <2>2
<1> QED
  BY <1>3, <1>4

-----------------------------------------------------------------------------
\* The inductive invariant holds in every behaviour.
LEMMA Invariance == Spec => []IInv
<1> USE DEF IInv
<1>1. Init => IInv
  <2> SUFFICES ASSUME Init PROVE IInv
    OBVIOUS
  <2>1. EmptyStore \in Store /\ EmptyStore.rows = <<>> /\ EmptyStore.messages = <<>>
    BY EmptyStoreType DEF EmptyStore
  <2>2. Len(<<>>) = 0 /\ DOMAIN <<>> = {}
    OBVIOUS
  <2> QED
    BY <2>1, <2>2 DEF Init, TypeOK, UniqueKeys, AtMostHighWater, CacheSound
<1>2. ASSUME IInv, [Next]_vars PROVE IInv'
  <2>1. /\ KeysUnique(store.rows) /\ store \in Store
        /\ InTableOrder(store)
    BY <1>2 DEF KeysUnique, UniqueKeys, TypeOK, CacheSound, InTableOrder
  <2>2. ASSUME store' \in Store, KeysUnique(store'.rows),
               store'.sequences = store.sequences, UNCHANGED inserted,
               InTableOrder(store'), open' \in BOOLEAN
        PROVE  IInv'
    BY <1>2, <2>2 DEF TypeOK, UniqueKeys, KeysUnique, AtMostHighWater,
       CacheSound, InTableOrder
  <2>3. ASSUME NEW m \in Candidates, AddMessage(m) PROVE IInv'
    <3>1. m \in Message
      BY MaxSequenceAssumption DEF Candidates, Message
    <3>2. store' = Add(store, m) /\ open' \in BOOLEAN
      BY <1>2, <2>3 DEF AddMessage, TypeOK
    <3>3. /\ store' \in Store /\ KeysUnique(store'.rows)
          /\ InTableOrder(store')
      BY <2>1, <3>1, <3>2, AddType, AddKeeps, AddInOrder
    <3>4. \A o \in Nodes : store'.sequences[o] =
             IF o = m.origin /\ AddReturns(store, m)
             THEN Larger(store.sequences[o], m.sequence)
             ELSE store.sequences[o]
      BY <2>1, <3>1, <3>2, AddType
    <3>5. m.origin \in Nodes /\ m.sequence \in Nat \ {0}
          /\ \A o \in Nodes : store.sequences[o] \in Nat
      BY <2>1, <3>1 DEF Message, Store
    <3>6. inserted' \subseteq Nodes \X (Nat \ {0})
          /\ \A k \in inserted' : k \in inserted \/ (AddReturns(store, m) /\ k = Key(m))
      BY <1>2, <2>3, <3>5 DEF AddMessage, TypeOK, Key
    <3>7. AtMostHighWater'
      <4> SUFFICES ASSUME NEW k \in inserted'
                   PROVE  k[2] <= store'.sequences[k[1]]
        BY DEF AtMostHighWater
      <4>1. CASE k \in inserted
        <5>1. k[2] <= store.sequences[k[1]]
          BY <1>2, <4>1 DEF AtMostHighWater
        <5>2. k[1] \in Nodes /\ k[2] \in Nat
          BY <1>2, <4>1 DEF TypeOK
        <5> QED
          BY <5>1, <5>2, <3>4, <3>5 DEF Larger
      <4>2. CASE AddReturns(store, m) /\ k = Key(m)
        <5>1. k[1] = m.origin /\ k[2] = m.sequence
          BY <4>2 DEF Key
        <5> QED
          BY <5>1, <4>2, <3>4, <3>5 DEF Larger
      <4> QED
        BY <3>6, <4>1, <4>2
    <3> QED
      BY <3>2, <3>3, <3>6, <3>7 DEF TypeOK, UniqueKeys, KeysUnique, CacheSound,
         InTableOrder
  <2>4. ASSUME NEW m \in Candidates, AddThrows(m) PROVE IInv'
    <3>1. m \in Message
      BY MaxSequenceAssumption DEF Candidates, Message
    <3>2. store' \in AddErrors(store, m) /\ open' \in BOOLEAN /\ UNCHANGED inserted
      BY <1>2, <2>4 DEF AddThrows, TypeOK
    <3> QED
      BY <2>1, <2>2, <3>1, <3>2, AddErrorsType, AddErrorsKeeps, AddInOrder
  <2>5. CASE Close
    <3>1. <<>> \in Seq(Message)
      BY EmptySeq
    <3>2. /\ store' \in Store /\ store'.rows = store.rows
          /\ store'.sequences = store.sequences /\ store'.messages = <<>>
      BY <2>1, <2>5, <3>1 DEF Close, Closed, Store
    <3>3. InTableOrder(store')
      BY <3>2 DEF InTableOrder
    <3> QED
      BY <2>1, <2>2, <2>5, <3>2, <3>3 DEF Close
  <2>6. CASE Open
    <3>1. /\ store' \in Store /\ store'.rows = store.rows
          /\ store'.sequences = store.sequences /\ store'.messages = store'.rows
      BY <2>1, <2>6, LoadMessagesType DEF Open
    <3>2. InTableOrder(store')
      BY <3>1 DEF InTableOrder
    <3> QED
      BY <2>1, <2>2, <2>6, <3>1, <3>2 DEF Open
  <2>7. CASE UNCHANGED vars
    BY <1>2, <2>7 DEF vars, TypeOK, UniqueKeys, AtMostHighWater, CacheSound
  <2> QED
    BY <1>2, <2>3, <2>4, <2>5, <2>6, <2>7 DEF Next
<1> QED
  BY <1>1, <1>2, PTL DEF Spec

\* Rows, high-water marks and messages_ keep their types through add(), a prune
\* whose reload fails half-way, and reopening the file.
THEOREM StoreTypeCorrect == Spec => []TypeOK
<1>1. IInv => TypeOK
  BY DEF IInv
<1> QED
  BY <1>1, Invariance, PTL

\* Deduplication: no two rows share (origin, sequence), so no two message_id.
THEOREM UniqueKeysHolds == Spec => []UniqueKeys
<1>1. IInv => UniqueKeys
  BY DEF IInv
<1> QED
  BY <1>1, Invariance, PTL

\* While its SELECT works, next_sequence answers above every row that was ever
\* committed, or throws when there is no larger sequence.
THEOREM NextSequenceFreshHolds == Spec => []NextSequenceFresh
<1>1. IInv => NextSequenceFresh
  <2> SUFFICES ASSUME IInv, NEW k \in inserted,
                      NEW s \in NextSequenceAnswers(store, k[1], FALSE)
               PROVE  k[2] < s
    BY DEF NextSequenceFresh
  <2>1. s = store.sequences[k[1]] + 1
    BY DEF NextSequenceAnswers, NextSequence
  <2>2. k[2] \in Nat /\ store.sequences[k[1]] \in Nat /\ k[2] <= store.sequences[k[1]]
    BY DEF IInv, TypeOK, Store, AtMostHighWater
  <2> QED
    BY <2>1, <2>2
<1> QED
  BY <1>1, Invariance, PTL

\* messages_ serves only rows of the table, in its order, even when the reload
\* after a prune stopped half-way and messages were added after it.
THEOREM CacheSoundHolds == Spec => []CacheSound
<1>1. IInv => CacheSound
  BY DEF IInv
<1> QED
  BY <1>1, Invariance, PTL

-----------------------------------------------------------------------------
\* What a step can do to the table: nothing, or, when it is full, trim it, and
\* then or without it append one row.
LEMMA RowsStep ==
    ASSUME IInv, [Next]_vars
    PROVE  \/ store'.rows = store.rows
           \/ ~IsFull(store) /\ \E m \in Message : store'.rows = Append(store.rows, m)
           \/ IsFull(store) /\ store'.rows = DeleteOldest(store).rows
           \/ /\ IsFull(store)
              /\ \E m \in Message : store'.rows = Append(DeleteOldest(store).rows, m)
<1>1. store \in Store
  BY DEF IInv, TypeOK
<1>2. /\ DeleteOldest(store) \in Store /\ PruneOldestMessages(store) \in Store
      /\ PruneOldestMessages(store).rows = DeleteOldest(store).rows
  BY <1>1, DeleteOldestType, LoadMessagesType DEF PruneOldestMessages
<1>3. Candidates \subseteq Message
  BY MaxSequenceAssumption DEF Candidates, Message
<1>4. ASSUME NEW m \in Candidates, AddMessage(m)
      PROVE  \/ store'.rows = store.rows
             \/ ~IsFull(store) /\ store'.rows = Append(store.rows, m)
             \/ IsFull(store) /\ store'.rows = Append(DeleteOldest(store).rows, m)
  <2>1. store' = Add(store, m) /\ m \in Message
    BY <1>3, <1>4 DEF AddMessage
  <2>2. /\ Push(store, m).rows = Append(store.rows, m)
        /\ Push(PruneOldestMessages(store), m).rows = Append(DeleteOldest(store).rows, m)
    BY <1>1, <1>2, <2>1, PushType
  <2> QED
    BY <2>1, <2>2 DEF Add
<1>5. ASSUME NEW m \in Candidates, AddThrows(m)
      PROVE  \/ store'.rows = store.rows
             \/ IsFull(store) /\ store'.rows = DeleteOldest(store).rows
  <2>1. CASE store' = store
    BY <2>1
  <2>2. CASE store' # store
    <3>1. /\ IsFull(store)
          /\ \E n \in 0..Len(DeleteOldest(store).rows) : store' = LoadPrefix(DeleteOldest(store), n)
      BY <1>5, <2>2 DEF AddThrows, AddErrors
    <3> QED
      BY <1>2, <3>1 DEF LoadPrefix, Store
  <2> QED
    BY <2>1, <2>2
<1>6. Close \/ Open \/ UNCHANGED vars => store'.rows = store.rows
  BY <1>1, LoadMessagesType DEF Close, Closed, Open, vars, Store
<1> QED
  BY <1>3, <1>4, <1>5, <1>6 DEF Next

\* For every limit and prune size: a step cuts rows off the old end only, at
\* most PruneLimit of them, keeps the others in order and adds one at most.
THEOREM TrimsOldestFirstHolds == Spec => TrimsOldestFirst
<1> DEFINE Trims(d, a) ==
        /\ d <= Len(store.rows)
        /\ Len(store'.rows) = Len(store.rows) - d + a
        /\ \A i \in 1..(Len(store.rows) - d) : store'.rows[i] = store.rows[i + d]
<1>1. ASSUME IInv, [Next]_vars
      PROVE  \E d \in 0..PruneLimit, a \in 0..1 : Trims(d, a)
  <2> DEFINE cut == DeleteOldest(store).rows
             gone == Smaller(PruneLimit, Len(store.rows))
  <2>1. /\ store \in Store /\ store.rows \in Seq(Message) /\ Len(store.rows) \in Nat
        /\ cut \in Seq(Message)
    BY <1>1, DeleteOldestType, LenProperties DEF IInv, TypeOK, Store
  <2>2. /\ gone \in 0..PruneLimit /\ gone <= Len(store.rows)
        /\ Len(cut) = Len(store.rows) - gone
        /\ \A i \in 1..(Len(store.rows) - gone) : cut[i] = store.rows[i + gone]
    BY <2>1, DeleteOldestShifts
  <2> HIDE DEF gone, cut
  <2>3. 0 \in 0..PruneLimit /\ 0 \in 0..1 /\ 1 \in 0..1
    BY PruneLimitAssumption
  <2>4. CASE store'.rows = store.rows
    <3>1. Trims(0, 0)
      BY <2>1, <2>4
    <3> QED
      BY <2>3, <3>1
  <2>5. CASE \E m \in Message : store'.rows = Append(store.rows, m)
    <3>1. PICK m \in Message : store'.rows = Append(store.rows, m)
      BY <2>5
    <3>2. /\ Len(store'.rows) = Len(store.rows) + 1
          /\ \A i \in 1..Len(store.rows) : store'.rows[i] = store.rows[i]
      BY <2>1, <3>1, AppendProperties
    <3>3. Trims(0, 1)
      BY <2>1, <3>2
    <3> QED
      BY <2>3, <3>3
  <2>6. CASE store'.rows = cut
    <3>1. Trims(gone, 0)
      BY <2>1, <2>2, <2>6
    <3> QED
      BY <2>2, <2>3, <3>1
  <2>7. CASE \E m \in Message : store'.rows = Append(cut, m)
    <3>1. PICK m \in Message : store'.rows = Append(cut, m)
      BY <2>7
    <3>2. /\ Len(store'.rows) = Len(cut) + 1
          /\ \A i \in 1..Len(cut) : store'.rows[i] = cut[i]
      BY <2>1, <3>1, AppendProperties
    <3>3. Trims(gone, 1)
      BY <2>1, <2>2, <3>2
    <3> QED
      BY <2>2, <2>3, <3>3
  <2> QED
    BY <1>1, <2>4, <2>5, <2>6, <2>7, RowsStep DEF cut
<1> QED
  BY <1>1, Invariance, PTL DEF Spec, TrimsOldestFirst

\* A store below its limit loses nothing, whatever throws or restarts.
THEOREM TrimsOnlyWhenFullHolds == Spec => TrimsOnlyWhenFull
<1>1. ASSUME IInv, [Next]_vars, Len(store.rows) < Capacity
      PROVE  \A i \in 1..Len(store.rows) : store'.rows[i] = store.rows[i]
  <2>1. store.rows \in Seq(Message) /\ Len(store.rows) \in Nat
    BY <1>1, LenProperties DEF IInv, TypeOK, Store
  <2>2. ~IsFull(store)
    BY <1>1, <2>1, CapacityAssumption DEF IsFull
  <2>3. \/ store'.rows = store.rows
        \/ \E m \in Message : store'.rows = Append(store.rows, m)
    BY <1>1, <2>2, RowsStep
  <2> QED
    BY <2>1, <2>3, AppendProperties
<1> QED
  BY <1>1, Invariance, PTL DEF Spec, TrimsOnlyWhenFull

\* messages_ that equals the table equals it after every add() that inserts,
\* pruned or not, and every opening of the file makes the two equal.
THEOREM CacheExactHolds == Spec => CacheExact
<1> DEFINE Exact ==
        /\ inserted' # inserted /\ store.messages = store.rows
              => store'.messages = store'.rows
        /\ ~open /\ open' => store'.messages = store'.rows
<1>1. ASSUME IInv, [Next]_vars PROVE Exact
  <2>1. store \in Store
    BY <1>1 DEF IInv, TypeOK
  <2>2. ASSUME NEW m \in Candidates, AddMessage(m) PROVE Exact
    <3>1. m \in Message
      BY MaxSequenceAssumption DEF Candidates, Message
    <3>2. /\ PruneOldestMessages(store) \in Store
          /\ PruneOldestMessages(store).messages = PruneOldestMessages(store).rows
      BY <2>1, DeleteOldestType, LoadMessagesType DEF PruneOldestMessages
    <3>3. ASSUME NEW st \in Store, st.messages = st.rows
          PROVE  Push(st, m).messages = Push(st, m).rows
      <4>1. /\ Push(st, m).rows = Append(st.rows, m)
            /\ Push(st, m).messages = Append(st.messages, m)
        BY <3>1, PushType
      <4> QED
        BY <3>3, <4>1
    <3>4. store.messages = store.rows => Add(store, m).messages = Add(store, m).rows
      BY <2>1, <3>2, <3>3 DEF Add
    <3> QED
      BY <2>2, <3>4 DEF AddMessage
  <2>3. ASSUME NEW m \in Candidates, AddThrows(m) PROVE Exact
    BY <2>3 DEF AddThrows
  <2>4. CASE Close
    BY <2>4 DEF Close
  <2>5. CASE Open
    BY <2>1, <2>5, LoadMessagesType DEF Open
  <2>6. CASE UNCHANGED vars
    BY <2>6 DEF vars
  <2> QED
    BY <1>1, <2>2, <2>3, <2>4, <2>5, <2>6 DEF Next
<1> QED
  BY <1>1, Invariance, PTL DEF Spec, CacheExact
=============================================================================
