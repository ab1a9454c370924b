----------------------------- MODULE StoreLemmas ----------------------------
(***************************************************************************)
(* What the operations of StoreOps return and preserve, for every store.   *)
(***************************************************************************)
EXTENDS StoreOps, SequenceTheorems, TLAPS

\* Appending adds exactly one message to those a vector or a table holds.
LEMMA RangeAppend ==
    ASSUME NEW S, NEW s \in Seq(S), NEW e \in S
    PROVE  /\ Append(s, e) \in Seq(S)
           /\ Range(Append(s, e)) = Range(s) \cup {e}
<1>1. /\ Append(s, e) \in Seq(S)
      /\ Len(Append(s, e)) = Len(s) + 1
      /\ \A i \in 1..Len(s) : Append(s, e)[i] = s[i]
      /\ Append(s, e)[Len(s) + 1] = e
  BY AppendProperties
<1>2. Range(s) = {s[i] : i \in 1..Len(s)}
  BY RangeEquality
<1>3. Range(Append(s, e)) = {Append(s, e)[i] : i \in 1..Len(Append(s, e))}
  BY <1>1, RangeEquality
<1>4. Len(s) \in Nat
  BY LenProperties
<1>5. 1..(Len(s) + 1) = (1..Len(s)) \cup {Len(s) + 1}
  BY <1>4
<1> QED
  BY <1>1, <1>2, <1>3, <1>5

\* What is left of a table after its old end is cut off, and what a failed
\* SELECT has read of it, is part of it.
LEMMA RangeSubSeq ==
    ASSUME NEW S, NEW s \in Seq(S), NEW i \in Nat \ {0}, NEW j \in 0..Len(s)
    PROVE  /\ SubSeq(s, i, j) \in Seq(S)
           /\ Range(SubSeq(s, i, j)) \subseteq Range(s)
           /\ Len(SubSeq(s, i, j)) = IF i <= j THEN j - i + 1 ELSE 0
           /\ \A k \in 1..(j - i + 1) : SubSeq(s, i, j)[k] = s[i + k - 1]
<1>1. Len(s) \in Nat /\ \A k \in 1..Len(s) : s[k] \in S
  BY LenProperties, ElementOfSeq
<1>2. \A k \in i..j : s[k] \in S
  BY <1>1
<1>3. /\ SubSeq(s, i, j) \in Seq(S)
      /\ Len(SubSeq(s, i, j)) = IF i <= j THEN j - i + 1 ELSE 0
      /\ \A k \in 1..(j - i + 1) : SubSeq(s, i, j)[k] = s[i + k - 1]
  BY <1>1, <1>2, SubSeqProperties
<1>4. /\ Range(s) = {s[k] : k \in 1..Len(s)}
      /\ Range(SubSeq(s, i, j)) = {SubSeq(s, i, j)[k] : k \in 1..Len(SubSeq(s, i, j))}
  BY <1>3, RangeEquality
<1>5. ASSUME NEW k \in 1..Len(SubSeq(s, i, j))
      PROVE  SubSeq(s, i, j)[k] \in Range(s)
  <2>1. k \in 1..(j - i + 1) /\ i + k - 1 \in 1..Len(s)
    BY <1>1, <1>3
  <2> QED
    BY <2>1, <1>3, <1>4
<1> QED
  BY <1>3, <1>4, <1>5

-----------------------------------------------------------------------------
\* A new database is a store that holds nothing.
LEMMA EmptyStoreType ==
    /\ EmptyStore \in Store
    /\ Range(EmptyStore.rows) = {}
    /\ Range(EmptyStore.messages) = {}
<1>1. <<>> \in Seq(Message) /\ Range(<<>>) = {}
  BY EmptySeq DEF Range
<1> QED
  BY <1>1 DEF EmptyStore, Store

\* load_messages makes the vector equal to the table.
LEMMA LoadMessagesType ==
    ASSUME NEW st \in Store
    PROVE  /\ LoadMessages(st) \in Store
           /\ LoadMessages(st).rows = st.rows
           /\ LoadMessages(st).messages = st.rows
           /\ LoadMessages(st).sequences = st.sequences
BY DEF LoadMessages, Store

\* Trimming deletes rows, at least one of a store that has any, and leaves
\* the high-water marks and the vector alone.
LEMMA DeleteOldestType ==
    ASSUME NEW st \in Store
    PROVE  /\ DeleteOldest(st) \in Store
           /\ Range(DeleteOldest(st).rows) \subseteq Range(st.rows)
           /\ DeleteOldest(st).messages = st.messages
           /\ DeleteOldest(st).sequences = st.sequences
           /\ Len(st.rows) # 0 => Len(DeleteOldest(st).rows) < Len(st.rows)
           /\ Len(DeleteOldest(st).rows) <= Len(st.rows)
<1> DEFINE first == Smaller(PruneLimit, Len(st.rows)) + 1
<1>1. st.rows \in Seq(Message) /\ Len(st.rows) \in Nat
  BY LenProperties DEF Store
<1>2. first \in Nat \ {0} /\ Len(st.rows) \in 0..Len(st.rows)
  BY <1>1, PruneLimitAssumption DEF Smaller
<1>3. /\ SubSeq(st.rows, first, Len(st.rows)) \in Seq(Message)
      /\ Range(SubSeq(st.rows, first, Len(st.rows))) \subseteq Range(st.rows)
      /\ Len(SubSeq(st.rows, first, Len(st.rows))) =
            IF first <= Len(st.rows) THEN Len(st.rows) - first + 1 ELSE 0
  BY <1>1, <1>2, RangeSubSeq
<1>4. /\ DeleteOldest(st).rows = SubSeq(st.rows, first, Len(st.rows))
      /\ DeleteOldest(st).messages = st.messages
      /\ DeleteOldest(st).sequences = st.sequences
      /\ DeleteOldest(st) \in Store
  BY <1>3 DEF DeleteOldest, Store
<1>5. Len(st.rows) # 0 => first >= 2
  BY <1>1, PruneLimitAssumption DEF Smaller
<1> HIDE DEF first
<1> QED
  BY <1>1, <1>2, <1>3, <1>4, <1>5

\* Which rows a prune leaves, and where: the PruneLimit oldest are gone, or all
\* of them, and the others have moved up.
LEMMA DeleteOldestShifts ==
    ASSUME NEW st \in Store
    PROVE  LET d == Smaller(PruneLimit, Len(st.rows)) IN
           /\ d \in 0..PruneLimit /\ d <= Len(st.rows)
           /\ Len(DeleteOldest(st).rows) = Len(st.rows) - d
           /\ \A i \in 1..(Len(st.rows) - d) : DeleteOldest(st).rows[i] = st.rows[i + d]
<1> DEFINE d == Smaller(PruneLimit, Len(st.rows))
<1>1. st.rows \in Seq(Message) /\ Len(st.rows) \in Nat
  BY LenProperties DEF Store
<1>2. d \in 0..PruneLimit /\ d <= Len(st.rows) /\ d + 1 \in Nat \ {0}
      /\ Len(st.rows) \in 0..Len(st.rows)
  BY <1>1, PruneLimitAssumption DEF Smaller
<1>3. DeleteOldest(st).rows = SubSeq(st.rows, d + 1, Len(st.rows))
  BY DEF DeleteOldest, Store
<1> HIDE DEF d
<1>4. /\ Len(SubSeq(st.rows, d + 1, Len(st.rows))) =
            IF d + 1 <= Len(st.rows) THEN Len(st.rows) - (d + 1) + 1 ELSE 0
      /\ \A k \in 1..(Len(st.rows) - (d + 1) + 1) :
            SubSeq(st.rows, d + 1, Len(st.rows))[k] = st.rows[d + 1 + k - 1]
  BY <1>1, <1>2, RangeSubSeq
<1>5. Len(DeleteOldest(st).rows) = Len(st.rows) - d
  BY <1>1, <1>2, <1>3, <1>4
<1>6. ASSUME NEW i \in 1..(Len(st.rows) - d)
      PROVE  DeleteOldest(st).rows[i] = st.rows[i + d]
  <2>1. i \in 1..(Len(st.rows) - (d + 1) + 1) /\ d + 1 + i - 1 = i + d
    BY <1>1, <1>2
  <2> QED
    BY <1>3, <1>4, <2>1
<1> QED
  BY <1>2, <1>5, <1>6 DEF d

\* A committed insert and the push_back after it: one more row, one more
\* element, and a high-water mark that moves up to the message, never down.
LEMMA PushType ==
    ASSUME NEW st \in Store, NEW m \in Message
    PROVE  /\ Push(st, m) \in Store
           /\ Push(st, m).rows = Append(st.rows, m)
           /\ Push(st, m).messages = Append(st.messages, m)
           /\ \A o \in Nodes : Push(st, m).sequences[o] =
                 IF o = m.origin THEN Larger(st.sequences[o], m.sequence)
                                 ELSE st.sequences[o]
<1>1. /\ st.rows \in Seq(Message) /\ st.messages \in Seq(Message)
      /\ st.sequences \in [Nodes -> Nat]
  BY DEF Store
<1>2. Append(st.rows, m) \in Seq(Message) /\ Append(st.messages, m) \in Seq(Message)
  BY <1>1, RangeAppend
<1>3. m.origin \in Nodes /\ m.sequence \in Nat
  BY DEF Message
<1>4. [st.sequences EXCEPT ![m.origin] = Larger(@, m.sequence)] \in [Nodes -> Nat]
  BY <1>1, <1>3 DEF Larger
<1>5. /\ InsertMessage(st, m) \in Store
      /\ InsertMessage(st, m).rows = Append(st.rows, m)
      /\ InsertMessage(st, m).messages = st.messages
      /\ InsertMessage(st, m).sequences =
            [st.sequences EXCEPT ![m.origin] = Larger(@, m.sequence)]
  BY <1>1, <1>2, <1>3, <1>4 DEF InsertMessage, Store
<1>6. /\ Push(st, m) \in Store
      /\ Push(st, m).rows = InsertMessage(st, m).rows
      /\ Push(st, m).messages = Append(st.messages, m)
      /\ Push(st, m).sequences = InsertMessage(st, m).sequences
  BY <1>2, <1>5 DEF Push, Store
<1> QED
  BY <1>1, <1>3, <1>5, <1>6

\* add(): the store holds nothing but what it held and the message; the
\* message is in the table afterwards unless its key was there before; and
\* only the high-water mark of its origin moves, up to its sequence.
LEMMA AddType ==
    ASSUME NEW st \in Store, NEW m \in Message
    PROVE  /\ Add(st, m) \in Store
           /\ Range(Add(st, m).rows) \subseteq Range(st.rows) \cup {m}
           /\ Range(Add(st, m).messages) \subseteq
                 Range(st.rows) \cup Range(st.messages) \cup {m}
           /\ AddReturns(st, m) => m \in Range(Add(st, m).rows)
           /\ \A o \in Nodes : Add(st, m).sequences[o] =
                 IF o = m.origin /\ AddReturns(st, m)
                 THEN Larger(st.sequences[o], m.sequence)
                 ELSE st.sequences[o]
<1>1. CASE Contains(st, Key(m))
  BY <1>1 DEF Add, AddReturns
<1>2. CASE ~Contains(st, Key(m)) /\ ~IsFull(st)
  <2>1. Add(st, m) = Push(st, m) /\ AddReturns(st, m)
    BY <1>2 DEF Add, AddReturns
  <2>2. /\ Range(Append(st.rows, m)) = Range(st.rows) \cup {m}
        /\ Range(Append(st.messages, m)) = Range(st.messages) \cup {m}
    BY RangeAppend DEF Store
  <2>3. /\ Push(st, m) \in Store
        /\ Push(st, m).rows = Append(st.rows, m)
        /\ Push(st, m).messages = Append(st.messages, m)
        /\ \A o \in Nodes : Push(st, m).sequences[o] =
              IF o = m.origin THEN Larger(st.sequences[o], m.sequence)
                              ELSE st.sequences[o]
    BY PushType
  <2> QED
    BY <2>1, <2>2, <2>3
<1>3. CASE ~Contains(st, Key(m)) /\ IsFull(st)
  <2> DEFINE pruned == PruneOldestMessages(st)
  <2>1. Add(st, m) = Push(pruned, m) /\ AddReturns(st, m)
    BY <1>3 DEF Add, AddReturns
  <2>2. /\ pruned \in Store
        /\ Range(pruned.rows) \subseteq Range(st.rows)
        /\ pruned.messages = pruned.rows
        /\ pruned.sequences = st.sequences
    BY DeleteOldestType, LoadMessagesType DEF PruneOldestMessages
  <2> HIDE DEF pruned
  <2>3. /\ Range(Append(pruned.rows, m)) = Range(pruned.rows) \cup {m}
        /\ Range(Append(pruned.messages, m)) = Range(pruned.messages) \cup {m}
    BY <2>2, RangeAppend DEF Store
  <2>4. /\ Push(pruned, m) \in Store
        /\ Push(pruned, m).rows = Append(pruned.rows, m)
        /\ Push(pruned, m).messages = Append(pruned.messages, m)
        /\ \A o \in Nodes : Push(pruned, m).sequences[o] =
              IF o = m.origin THEN Larger(pruned.sequences[o], m.sequence)
                              ELSE pruned.sequences[o]
    BY <2>2, PushType
  <2> QED
    BY <2>1, <2>2, <2>3, <2>4
<1> QED
  BY <1>1, <1>2, <1>3

\* add() that throws: at most rows are gone, and the vector holds a part of
\* what the table or the vector held.
LEMMA AddErrorsType ==
    ASSUME NEW st \in Store, NEW m \in Message, NEW e \in AddErrors(st, m)
    PROVE  /\ e \in Store
           /\ Range(e.rows) \subseteq Range(st.rows)
           /\ Range(e.messages) \subseteq Range(st.rows) \cup Range(st.messages)
           /\ e.sequences = st.sequences
<1>1. CASE e = st
  BY <1>1
<1>2. CASE e # st
  <2> DEFINE cut == DeleteOldest(st)
  <2>1. PICK n \in 0..Len(cut.rows) : e = LoadPrefix(cut, n)
    BY <1>2 DEF AddErrors
  <2>2. /\ cut \in Store /\ Range(cut.rows) \subseteq Range(st.rows)
        /\ cut.sequences = st.sequences
    BY DeleteOldestType
  <2> HIDE DEF cut
  <2>3. /\ SubSeq(cut.rows, 1, n) \in Seq(Message)
        /\ Range(SubSeq(cut.rows, 1, n)) \subseteq Range(cut.rows)
    BY <2>2, RangeSubSeq DEF Store
  <2>4. /\ e.rows = cut.rows /\ e.messages = SubSeq(cut.rows, 1, n)
        /\ e.sequences = cut.sequences
        /\ e \in Store
    BY <2>1, <2>2, <2>3 DEF LoadPrefix, Store
  <2> QED
    BY <2>2, <2>3, <2>4
<1> QED
  BY <1>1, <1>2
=============================================================================
