--------------------------- MODULE LuciChatProofs ---------------------------
(***************************************************************************)
(* Theorems about the chat view of LuCI, for any number of messages,       *)
(* submissions, reloads and crashes.                                       *)
(*                                                                         *)
(* The list stays in order because appendMessage inserts into an ordered   *)
(* list, whatever the order in which messages come, and because the ranks  *)
(* of stored messages differ (RanksUnique).  "Sent" rests on the daemon's  *)
(* reply, whose message was stored after the submission had noted what was *)
(* known (AnsweredIsNew), or on a message that confirmStored has compared  *)
(* with what was known.                                                    *)
(***************************************************************************)
EXTENDS LuciChat, SequenceTheorems, FiniteSetTheorems, WellFoundedInduction, TLAPS

\* compareMessages tells any two stored messages apart.
RanksUnique == \A m1, m2 \in history : m1.rank = m2.rank => m1 = m2

\* What the daemon has not read yet of the submission under way is its text.
OwnText == phase = "posting" /\ sends \in DOMAIN posted => posted[sends] = typed

\* The reply of create_message holds the submission's own, new message.
AnsweredIsNew ==
    phase = "answered" =>
       \E m \in history : /\ reply = {m}
                          /\ m.body = typed /\ m.own /\ m.by = sends
                          /\ m \notin before

\* A reply that is no object holds no message.
BlankIsEmpty == phase = "blank" => reply = {}

IInv ==
    /\ TypeOK
    /\ IsFiniteSet(history)
    /\ RanksUnique
    /\ ListInOrder
    /\ OwnText
    /\ AnsweredIsNew
    /\ BlankIsEmpty

-----------------------------------------------------------------------------
(* Natural numbers *)

\* The least-element principle.
LEMMA LeastElement ==
    ASSUME NEW S \in SUBSET Nat, S # {}
    PROVE  Min(S) \in S /\ \A y \in S : Min(S) <= y
<1> DEFINE R == OpToRel(<, Nat)
<1>1. IsWellFoundedOn(R, Nat)
  BY NatLessThanWellFounded
<1> HIDE DEF R
<1>2. PICK x \in S : \A y \in S : ~(<<y, x>> \in R)
  BY <1>1, WFMin
<1>3. ASSUME NEW y \in S PROVE x <= y
  <2>1. x \in Nat /\ y \in Nat
    OBVIOUS
  <2>2. y < x => <<y, x>> \in R
    BY <2>1 DEF R, OpToRel
  <2> QED
    BY <1>2, <2>1, <2>2
<1> QED
  BY <1>2, <1>3 DEF Min

\* Induction, for a set instead of a predicate.
LEMMA SetInduction ==
    ASSUME NEW S \in SUBSET Nat, 0 \in S, \A n \in S : n + 1 \in S
    PROVE  S = Nat
<1> SUFFICES ASSUME Nat \ S # {} PROVE FALSE
  OBVIOUS
<1> DEFINE x == Min(Nat \ S)
<1>1. x \in Nat \ S /\ \A y \in Nat \ S : x <= y
  <2>1. Nat \ S \in SUBSET Nat
    OBVIOUS
  <2> QED
    BY <2>1, LeastElement
<1> HIDE DEF x
<1>2. x - 1 \in Nat /\ ~(x <= x - 1) /\ (x - 1) + 1 = x
  BY <1>1
<1>3. x - 1 \in S
  BY <1>1, <1>2
<1> QED
  BY <1>1, <1>2, <1>3

-----------------------------------------------------------------------------
(* Lists *)

Ordered(list) == \A i, j \in DOMAIN list : i < j => list[i].rank < list[j].rank

\* Any set of messages that compareMessages tells apart.
Comparable(S) ==
    /\ S \subseteq Message
    /\ \A m1, m2 \in S : m1.rank = m2.rank => m1 = m2

\* The elements of a sequence.
LEMMA RangeIs ==
    ASSUME NEW S, NEW s \in Seq(S)
    PROVE  /\ Len(s) \in Nat /\ DOMAIN s = 1..Len(s)
           /\ \A i \in 1..Len(s) : s[i] \in S
           /\ Range(s) = {s[i] : i \in 1..Len(s)}
           /\ Range(s) \subseteq S
<1>1. Len(s) \in Nat /\ DOMAIN s = 1..Len(s) /\ \A i \in 1..Len(s) : s[i] \in S
  BY LenProperties, ElementOfSeq
<1> QED
  BY <1>1 DEF Range

\* insertBefore: what stood at i and after moves up by one.
LEMMA InsertAtIs ==
    ASSUME NEW S, NEW s \in Seq(S), NEW i \in 1..Len(s), NEW e \in S
    PROVE  /\ InsertAt(s, i, e) \in Seq(S)
           /\ Len(InsertAt(s, i, e)) = Len(s) + 1
           /\ \A k \in 1..(Len(s) + 1) :
                 InsertAt(s, i, e)[k] =
                    IF k < i THEN s[k] ELSE IF k = i THEN e ELSE s[k - 1]
<1> DEFINE low == SubSeq(s, 1, i - 1)
           high == SubSeq(s, i, Len(s))
           one == <<e>>
<1>1. /\ Len(s) \in Nat /\ i \in Nat /\ 1 <= i /\ i <= Len(s)
      /\ \A k \in 1..Len(s) : s[k] \in S
  BY RangeIs
<1>2. /\ low \in Seq(S) /\ Len(low) = i - 1
      /\ \A k \in 1..(i - 1) : low[k] = s[k]
  <2>1. /\ low \in Seq(S) /\ Len(low) = IF 1 <= i - 1 THEN i - 1 - 1 + 1 ELSE 0
        /\ \A k \in 1..(i - 1 - 1 + 1) : low[k] = s[1 + k - 1]
    BY <1>1, SubSeqProperties
  <2> HIDE DEF low
  <2> QED
    BY <1>1, <2>1
<1>3. /\ high \in Seq(S) /\ Len(high) = Len(s) - i + 1
      /\ \A k \in 1..(Len(s) - i + 1) : high[k] = s[i + k - 1]
  BY <1>1, SubSeqProperties
<1>4. one \in Seq(S) /\ Len(one) = 1 /\ one[1] = e
  OBVIOUS
<1>5. InsertAt(s, i, e) = low \o one \o high
  BY DEF InsertAt
<1> HIDE DEF low, high, one
<1>6. /\ low \o one \in Seq(S) /\ Len(low \o one) = i
      /\ \A k \in 1..(i - 1) : (low \o one)[k] = low[k]
      /\ (low \o one)[i] = e
  <2>1. /\ low \o one \in Seq(S) /\ Len(low \o one) = Len(low) + Len(one)
        /\ \A k \in 1..(Len(low) + Len(one)) :
              (low \o one)[k] = IF k <= Len(low) THEN low[k] ELSE one[k - Len(low)]
    BY <1>2, <1>4, ConcatProperties
  <2>2. Len(low) + Len(one) = i /\ i - Len(low) = 1
    BY <1>1, <1>2, <1>4
  <2>3. i \in 1..i /\ ~(i <= Len(low)) /\ \A k \in 1..(i - 1) : k \in 1..i /\ k <= Len(low)
    BY <1>1, <1>2
  <2> QED
    BY <1>4, <2>1, <2>2, <2>3
<1> DEFINE front == low \o one
<1> HIDE DEF front
<1>7. /\ front \o high \in Seq(S) /\ Len(front \o high) = Len(s) + 1
      /\ \A k \in 1..(Len(s) + 1) :
            (front \o high)[k] = IF k <= i THEN front[k] ELSE high[k - i]
  <2>1. /\ front \o high \in Seq(S) /\ Len(front \o high) = Len(front) + Len(high)
        /\ \A k \in 1..(Len(front) + Len(high)) :
              (front \o high)[k] = IF k <= Len(front) THEN front[k] ELSE high[k - Len(front)]
    <3>1. front \in Seq(S)
      BY <1>6 DEF front
    <3> QED
      BY <1>3, <3>1, ConcatProperties
  <2>2. Len(front) = i /\ Len(front) + Len(high) = Len(s) + 1
    BY <1>1, <1>3, <1>6 DEF front
  <2> QED
    BY <2>1, <2>2
<1>8. ASSUME NEW k \in 1..(Len(s) + 1)
      PROVE  (front \o high)[k] = IF k < i THEN s[k] ELSE IF k = i THEN e ELSE s[k - 1]
  <2>1. CASE k < i
    BY <1>1, <1>2, <1>6, <1>7, <2>1 DEF front
  <2>2. CASE k = i
    <3>1. (front \o high)[k] = front[i] /\ front[i] = e
      BY <1>1, <1>6, <1>7, <2>2 DEF front
    <3> QED
      BY <1>1, <2>2, <3>1
  <2>3. CASE k > i
    <3>1. k - i \in 1..(Len(s) - i + 1) /\ i + (k - i) - 1 = k - 1
      BY <1>1, <2>3
    <3>2. high[k - i] = s[k - 1]
      BY <1>3, <3>1
    <3> QED
      BY <1>1, <1>7, <2>3, <3>2
  <2>4. k < i \/ k = i \/ k > i
    BY <1>1
  <2> QED
    BY <2>1, <2>2, <2>3, <2>4
<1> QED
  BY <1>5, <1>7, <1>8 DEF front

\* appendMessage keeps an ordered list ordered and adds the message to it,
\* wherever in the order that is.
LEMMA AppendMessageIs ==
    ASSUME NEW S, Comparable(S), NEW list \in Seq(S), Ordered(list), NEW m \in S
    PROVE  /\ AppendMessage(list, m) \in Seq(S)
           /\ Ordered(AppendMessage(list, m))
           /\ Range(AppendMessage(list, m)) = Range(list) \cup {m}
           /\ m \notin Range(list) => Len(AppendMessage(list, m)) = Len(list) + 1
<1> DEFINE new == AppendMessage(list, m)
           greater == {i \in DOMAIN list : m.rank < list[i].rank}
<1>1. /\ Len(list) \in Nat /\ DOMAIN list = 1..Len(list)
      /\ \A i \in 1..Len(list) : list[i] \in S /\ list[i].rank \in Nat
      /\ Range(list) = {list[i] : i \in 1..Len(list)}
      /\ m.rank \in Nat
  <2>1. /\ Len(list) \in Nat /\ DOMAIN list = 1..Len(list)
        /\ \A i \in 1..Len(list) : list[i] \in S
        /\ Range(list) = {list[i] : i \in 1..Len(list)}
    BY RangeIs
  <2>2. \A x \in S : x.rank \in Nat
    BY RanksAssumption DEF Comparable, Message
  <2> QED
    BY <2>1, <2>2
<1>2. \A i, j \in 1..Len(list) : i < j => list[i].rank < list[j].rank
  BY <1>1 DEF Ordered
<1>3. CASE m \in Range(list)
  BY <1>3 DEF AppendMessage
<1>4. ASSUME m \notin Range(list), NEW i \in 1..Len(list)
      PROVE  list[i].rank # m.rank
  BY <1>1, <1>4 DEF Comparable
<1>5. CASE m \notin Range(list) /\ greater = {}
  <2>1. new = Append(list, m)
    BY <1>5 DEF AppendMessage
  <2>2. /\ new \in Seq(S) /\ Len(new) = Len(list) + 1
        /\ \A i \in 1..Len(list) : new[i] = list[i]
        /\ new[Len(list) + 1] = m
    BY <2>1, AppendProperties
  <2> HIDE DEF new
  <2>3. \A i \in 1..Len(list) : list[i].rank < m.rank
    BY <1>1, <1>4, <1>5
  <2>4. DOMAIN new = 1..(Len(list) + 1) /\ Range(new) = {new[i] : i \in 1..(Len(list) + 1)}
    BY <2>2, RangeIs
  <2>5. \A i \in 1..(Len(list) + 1) : i \in 1..Len(list) \/ i = Len(list) + 1
    BY <1>1
  <2>6. Ordered(new)
    <3> SUFFICES ASSUME NEW i \in 1..(Len(list) + 1), NEW j \in 1..(Len(list) + 1), i < j
                 PROVE  new[i].rank < new[j].rank
      BY <2>4 DEF Ordered
    <3>1. i \in 1..Len(list)
      BY <1>1
    <3> QED
      BY <1>2, <2>2, <2>3, <2>5, <3>1
  <2>7. Range(new) = Range(list) \cup {m}
    <3>1. ASSUME NEW x \in Range(new) PROVE x \in Range(list) \cup {m}
      BY <1>1, <2>2, <2>4, <2>5
    <3>2. ASSUME NEW x \in Range(list) PROVE x \in Range(new)
      <4>1. PICK i \in 1..Len(list) : x = list[i]
        BY <1>1
      <4>2. i \in 1..(Len(list) + 1)
        BY <1>1
      <4> QED
        BY <2>2, <2>4, <4>1, <4>2
    <3>3. m \in Range(new)
      <4>1. Len(list) + 1 \in 1..(Len(list) + 1)
        BY <1>1
      <4> QED
        BY <2>2, <2>4, <4>1
    <3> QED
      BY <3>1, <3>2, <3>3
  <2> QED
    BY <2>2, <2>6, <2>7 DEF new
<1>6. CASE m \notin Range(list) /\ greater # {}
  <2> DEFINE p == Min(greater)
  <2>1. p \in greater /\ \A y \in greater : p <= y
    <3>1. greater \in SUBSET Nat
      BY <1>1
    <3> HIDE DEF greater
    <3> QED
      BY <1>6, <3>1, LeastElement
  <2>2. new = InsertAt(list, p, m)
    BY <1>6 DEF AppendMessage
  <2> HIDE DEF p
  <2>3. p \in 1..Len(list) /\ m.rank < list[p].rank
    BY <1>1, <2>1
  <2>4. \A i \in 1..Len(list) : i < p => list[i].rank < m.rank
    <3> SUFFICES ASSUME NEW i \in 1..Len(list), i < p PROVE list[i].rank < m.rank
      OBVIOUS
    <3>1. i \notin greater
      BY <2>1, <2>3
    <3> QED
      BY <1>1, <1>4, <1>6, <3>1
  <2>5. \A i \in 1..Len(list) : p <= i => m.rank < list[i].rank
    <3> SUFFICES ASSUME NEW i \in 1..Len(list), p <= i PROVE m.rank < list[i].rank
      OBVIOUS
    <3>1. i = p \/ list[p].rank < list[i].rank
      BY <1>1, <1>2, <2>3
    <3> QED
      BY <1>1, <2>3, <3>1
  <2> HIDE DEF greater
  <2>6. /\ new \in Seq(S) /\ Len(new) = Len(list) + 1
        /\ \A k \in 1..(Len(list) + 1) :
              new[k] = IF k < p THEN list[k] ELSE IF k = p THEN m ELSE list[k - 1]
    <3> DEFINE inserted == InsertAt(list, p, m)
    <3>1. /\ inserted \in Seq(S) /\ Len(inserted) = Len(list) + 1
          /\ \A k \in 1..(Len(list) + 1) :
                inserted[k] = IF k < p THEN list[k] ELSE IF k = p THEN m ELSE list[k - 1]
      BY <2>3, InsertAtIs
    <3> HIDE DEF inserted, new
    <3> QED
      BY <2>2, <3>1 DEF inserted
  <2> HIDE DEF new
  <2>7. DOMAIN new = 1..(Len(list) + 1) /\ Range(new) = {new[i] : i \in 1..(Len(list) + 1)}
    BY <2>6, RangeIs
  <2>8. Ordered(new)
    <3> SUFFICES ASSUME NEW i \in 1..(Len(list) + 1), NEW j \in 1..(Len(list) + 1), i < j
                 PROVE  new[i].rank < new[j].rank
      BY <2>7 DEF Ordered
    <3>1. CASE i < p /\ j < p
      <4>1. i \in 1..Len(list) /\ j \in 1..Len(list)
        BY <1>1, <2>3, <3>1
      <4> QED
        BY <1>2, <2>6, <3>1, <4>1
    <3>2. CASE i < p /\ j = p
      <4>1. i \in 1..Len(list)
        BY <1>1, <2>3, <3>2
      <4>2. new[i] = list[i] /\ new[j] = m
        BY <2>3, <2>6, <3>2
      <4> QED
        BY <2>4, <3>2, <4>1, <4>2
    <3>3. CASE i < p /\ j > p
      <4>1. i \in 1..Len(list) /\ j - 1 \in 1..Len(list) /\ i < j - 1
        BY <1>1, <2>3, <3>3
      <4>2. new[i] = list[i] /\ new[j] = list[j - 1]
        BY <2>3, <2>6, <3>3
      <4> QED
        BY <1>2, <4>1, <4>2
    <3>4. CASE i = p
      <4>1. j - 1 \in 1..Len(list) /\ p <= j - 1
        BY <1>1, <2>3, <3>4
      <4>2. new[i] = m /\ new[j] = list[j - 1]
        BY <2>3, <2>6, <3>4
      <4> QED
        BY <2>5, <4>1, <4>2
    <3>5. CASE i > p
      <4>1. i - 1 \in 1..Len(list) /\ j - 1 \in 1..Len(list) /\ i - 1 < j - 1
        BY <1>1, <2>3, <3>5
      <4>2. new[i] = list[i - 1] /\ new[j] = list[j - 1]
        BY <2>3, <2>6, <3>5
      <4> QED
        BY <1>2, <4>1, <4>2
    <3>6. i \in Int /\ j \in Int /\ p \in Int
      BY <2>3
    <3> QED
      BY <3>1, <3>2, <3>3, <3>4, <3>5, <3>6
  <2>9. Range(new) = Range(list) \cup {m}
    <3>1. ASSUME NEW k \in 1..(Len(list) + 1) PROVE new[k] \in Range(list) \cup {m}
      <4>1. k < p => k \in 1..Len(list)
        BY <1>1, <2>3
      <4>2. k > p => k - 1 \in 1..Len(list)
        BY <1>1, <2>3
      <4>3. k < p \/ k = p \/ k > p
        BY <2>3
      <4> QED
        BY <1>1, <2>3, <2>6, <4>1, <4>2, <4>3
    <3>2. ASSUME NEW k \in 1..Len(list) PROVE list[k] \in Range(new)
      <4>1. CASE k < p
        <5>1. k \in 1..(Len(list) + 1) /\ new[k] = list[k]
          BY <1>1, <2>6, <4>1
        <5> QED
          BY <2>7, <5>1
      <4>2. CASE k >= p
        <5>1. k + 1 \in 1..(Len(list) + 1) /\ (k + 1) - 1 = k /\ ~(k + 1 < p) /\ k + 1 # p
          BY <1>1, <2>3, <4>2
        <5>2. new[k + 1] = list[k]
          BY <2>6, <5>1
        <5> QED
          BY <2>7, <5>1, <5>2
      <4> QED
        BY <2>3, <4>1, <4>2
    <3>3. m \in Range(new)
      <4>1. p \in 1..(Len(list) + 1) /\ ~(p < p)
        BY <1>1, <2>3
      <4> QED
        BY <2>6, <2>7, <4>1
    <3> QED
      BY <1>1, <2>7, <3>1, <3>2, <3>3
  <2> QED
    BY <2>6, <2>8, <2>9 DEF new
<1> QED
  BY <1>3, <1>5, <1>6

\* There is an order to put a set of comparable messages in.
LEMMA OrderExists ==
    ASSUME NEW M, IsFiniteSet(M), Comparable(M)
    PROVE  \E s \in [1..Cardinality(M) -> M] : Ordered(s)
<1> DEFINE Sorts(T, s) == s \in Seq(T) /\ Ordered(s) /\ Range(s) = T /\ Len(s) = Cardinality(T)
<1> DEFINE S == {n \in Nat : \A T \in SUBSET M :
                    IsFiniteSet(T) /\ Cardinality(T) = n => \E s : Sorts(T, s)}
<1>1. 0 \in S
  <2> SUFFICES ASSUME NEW T \in SUBSET M, IsFiniteSet(T), Cardinality(T) = 0
               PROVE  \E s : Sorts(T, s)
    OBVIOUS
  <2>1. T = {}
    BY FS_EmptySet
  <2>2. <<>> \in Seq(T) /\ Ordered(<<>>) /\ Range(<<>>) = {} /\ Len(<<>>) = 0
    BY EmptySeq DEF Ordered, Range
  <2> QED
    BY <2>1, <2>2
<1>2. ASSUME NEW n \in S PROVE n + 1 \in S
  <2> SUFFICES ASSUME NEW T \in SUBSET M, IsFiniteSet(T), Cardinality(T) = n + 1
               PROVE  \E s : Sorts(T, s)
    OBVIOUS
  <2>1. n \in Nat /\ T # {}
    BY FS_EmptySet
  <2>2. PICK m \in T : TRUE
    BY <2>1
  <2>3. IsFiniteSet(T \ {m}) /\ Cardinality(T \ {m}) = n
    BY <2>1, <2>2, FS_RemoveElement
  <2>4. PICK s : Sorts(T \ {m}, s)
    BY <2>3
  <2>5. s \in Seq(T) /\ Ordered(s) /\ m \notin Range(s) /\ Comparable(T)
    BY <2>4 DEF Comparable
  <2>6. /\ AppendMessage(s, m) \in Seq(T) /\ Ordered(AppendMessage(s, m))
        /\ Range(AppendMessage(s, m)) = Range(s) \cup {m}
        /\ Len(AppendMessage(s, m)) = Len(s) + 1
    <3> HIDE DEF S
    <3> QED
      BY ONLY <2>2, <2>5, AppendMessageIs
  <2>7. Sorts(T, AppendMessage(s, m))
    BY <2>2, <2>3, <2>4, <2>6
  <2> QED
    BY <2>7
<1>3. S = Nat
  <2> HIDE DEF S
  <2>1. S \in SUBSET Nat
    BY DEF S
  <2> QED
    BY <1>1, <1>2, <2>1, SetInduction
<1>4. Cardinality(M) \in Nat
  BY FS_CardinalityType
<1>5. PICK s : Sorts(M, s)
  BY <1>3, <1>4
<1>6. s \in [1..Cardinality(M) -> M]
  BY <1>5
<1> QED
  BY <1>5, <1>6

\* The reply of get_messages is ordered, and so is what fillMessages lists.
LEMMA ByRankIs ==
    ASSUME NEW S, NEW M \in SUBSET S, IsFiniteSet(M), Comparable(M)
    PROVE  ByRank(M) \in Seq(S) /\ Ordered(ByRank(M))
<1>1. \E s \in [1..Cardinality(M) -> M] : \A i, j \in DOMAIN s : i < j => s[i].rank < s[j].rank
  BY OrderExists DEF Ordered
<1>2. ByRank(M) \in [1..Cardinality(M) -> M] /\ Ordered(ByRank(M))
  BY <1>1 DEF ByRank, Ordered
<1>3. Cardinality(M) \in Nat
  BY FS_CardinalityType
<1>4. ByRank(M) \in Seq(M)
  BY <1>2, <1>3, IsASeq
<1> QED
  BY <1>2, <1>4

\* The recursion over the first n messages of a reply defines a function.
Lists(f, N, list, incoming) ==
    f = [n \in 0..N |-> IF n = 0 THEN list ELSE AppendMessage(f[n - 1], incoming[n])]

\* By induction over N.
LEMMA ListsExist ==
    ASSUME NEW list, NEW incoming, NEW N \in Nat
    PROVE  \E f : Lists(f, N, list, incoming)
<1> DEFINE S == {n \in Nat : \E f : Lists(f, n, list, incoming)}
<1>1. 0 \in S
  <2> DEFINE f == [n \in 0..0 |-> list]
  <2>1. Lists(f, 0, list, incoming)
    BY DEF Lists
  <2> QED
    BY <2>1
<1>2. ASSUME NEW n \in S PROVE n + 1 \in S
  <2>1. PICK f : Lists(f, n, list, incoming)
    BY <1>2
  <2> DEFINE g == [k \in 0..(n + 1) |->
                     IF k = n + 1 THEN AppendMessage(f[n], incoming[n + 1]) ELSE f[k]]
             h == [k \in 0..(n + 1) |->
                     IF k = 0 THEN list ELSE AppendMessage(g[k - 1], incoming[k])]
  <2>2. \A k \in 0..n : f[k] = IF k = 0 THEN list ELSE AppendMessage(f[k - 1], incoming[k])
    BY <2>1 DEF Lists
  <2>3. n \in Nat /\ \A k \in 0..n : g[k] = f[k]
    <3>1. n \in Nat
      OBVIOUS
    <3>2. \A k \in 0..n : k \in 0..(n + 1) /\ k # n + 1
      BY <3>1
    <3> QED
      BY <3>1, <3>2
  <2>4. ASSUME NEW k \in 0..(n + 1) PROVE g[k] = h[k]
    <3>1. CASE k = n + 1
      <4>1. k - 1 = n /\ k # 0 /\ n \in 0..n
        BY <2>3, <3>1
      <4> QED
        BY <2>3, <3>1, <4>1
    <3>2. CASE k # n + 1 /\ k # 0
      <4>1. k \in 0..n /\ k - 1 \in 0..n
        BY <2>3, <3>2
      <4> QED
        BY <2>2, <2>3, <3>2, <4>1
    <3>3. CASE k = 0
      BY <2>2, <2>3, <3>3
    <3> QED
      BY <3>1, <3>2, <3>3
  <2>5. g = h
    BY <2>4
  <2> HIDE DEF g
  <2>6. Lists(g, n + 1, list, incoming)
    BY <2>5 DEF Lists
  <2> QED
    BY <2>3, <2>6
<1>3. S = Nat
  <2> HIDE DEF S
  <2>1. S \in SUBSET Nat
    BY DEF S
  <2> QED
    BY <1>1, <1>2, <2>1, SetInduction
<1> QED
  BY <1>3

\* incoming.forEach keeps an ordered list ordered, whatever comes.
LEMMA AppendMessagesIs ==
    ASSUME NEW S, Comparable(S), NEW list \in Seq(S), Ordered(list),
           NEW incoming \in Seq(S)
    PROVE  /\ AppendMessages(list, incoming) \in Seq(S)
           /\ Ordered(AppendMessages(list, incoming))
<1> DEFINE N == Len(incoming)
           f == CHOOSE f : Lists(f, N, list, incoming)
<1>1. N \in Nat /\ \A i \in 1..N : incoming[i] \in S
  BY RangeIs
<1>2. AppendMessages(list, incoming) = f[N]
  BY DEF AppendMessages, Lists
<1>3. Lists(f, N, list, incoming)
  <2> HIDE DEF N
  <2> QED
    BY <1>1, ListsExist
<1> HIDE DEF N, f
<1>4. \A k \in 0..N : f[k] = IF k = 0 THEN list ELSE AppendMessage(f[k - 1], incoming[k])
  BY <1>3 DEF Lists
<1> DEFINE T == {n \in Nat : n <= N => f[n] \in Seq(S) /\ Ordered(f[n])}
<1>5. 0 \in T
  BY <1>1, <1>4
<1>6. ASSUME NEW n \in T PROVE n + 1 \in T
  <2> SUFFICES ASSUME n + 1 <= N PROVE f[n + 1] \in Seq(S) /\ Ordered(f[n + 1])
    OBVIOUS
  <2>1. n \in Nat /\ n + 1 \in 0..N /\ n + 1 \in 1..N /\ (n + 1) - 1 = n /\ n <= N /\ n + 1 # 0
    BY <1>1
  <2>2. f[n + 1] = AppendMessage(f[n], incoming[n + 1])
    BY <1>4, <2>1
  <2>3. f[n] \in Seq(S) /\ Ordered(f[n])
    BY <2>1
  <2>4. incoming[n + 1] \in S
    BY <1>1, <2>1
  <2> DEFINE last == f[n]
             next == incoming[n + 1]
  <2>5. last \in Seq(S) /\ Ordered(last) /\ next \in S
    BY <2>3, <2>4
  <2> HIDE DEF last, next
  <2>6. AppendMessage(last, next) \in Seq(S) /\ Ordered(AppendMessage(last, next))
    BY <2>5, AppendMessageIs
  <2> QED
    BY <2>2, <2>6 DEF last, next
<1>7. T = Nat
  <2> HIDE DEF T
  <2>1. T \in SUBSET Nat
    BY DEF T
  <2> QED
    BY <1>5, <1>6, <2>1, SetInduction
<1>8. f[N] \in Seq(S) /\ Ordered(f[N])
  BY <1>1, <1>7
<1> QED
  BY <1>2, <1>8

-----------------------------------------------------------------------------
(* The steps *)

\* A poll has no reply yet, or one.
LEMMA AtMostOne ==
    ASSUME NEW L, NEW M, L = {} \/ L = {M}
    PROVE  Cardinality(L) <= 1
<1>1. CASE L = {}
  <2>1. Cardinality(L) = 0
    BY <1>1, FS_EmptySet, Zenon
  <2> QED
    BY <2>1
<1>2. CASE L = {M}
  <2>1. Cardinality(L) = 1
    BY <1>2, FS_Singleton, Zenon
  <2> QED
    BY <2>1
<1> QED
  BY <1>1, <1>2

\* A page that was opened on an empty history.
LEMMA InitIInv == Init => IInv
<1> SUFFICES ASSUME Init PROVE IInv
  OBVIOUS
<1>1. IsFiniteSet({}) /\ Cardinality({}) = 0
  BY FS_EmptySet
<1>2. 0 \in 0..MaxSends /\ 0 \in 0..MaxReloads /\ 0 \in 0..MaxCrashes
  BY SendsAssumption, BoundsAssumption
<1>3. shown \in Seq(history) /\ DOMAIN shown = {} /\ DOMAIN posted = {}
  <2>1. shown = <<>> /\ posted = <<>>
    BY DEF Init
  <2>2. <<>> \in Seq(history) /\ DOMAIN <<>> = {}
    OBVIOUS
  <2> QED
    BY <2>1, <2>2, Zenon
<1>4. Cardinality(listing) <= 1
  BY AtMostOne DEF Init
<1>5. TypeOK
  BY <1>2, <1>3, <1>4 DEF Init, TypeOK
<1> QED
  BY <1>1, <1>3, <1>5 DEF Init, IInv, RanksUnique, ListInOrder, OwnText, AnsweredIsNew, BlankIsEmpty

\* Everything but the daemon's history, the list, the submission and the poll
\* may change as long as it is typed.
LEMMA HistoryKept ==
    ASSUME IInv, TypeOK', UNCHANGED <<history, shown>>, OwnText', AnsweredIsNew',
           BlankIsEmpty'
    PROVE  IInv'
BY DEF IInv, RanksUnique, ListInOrder

\* A message is stored: its rank is one that no stored message has.
LEMMA HistoryGrows ==
    ASSUME IInv, NEW m \in Message, m.rank \in Unused, history' = history \cup {m},
           UNCHANGED shown
    PROVE  /\ m \notin history
           /\ history' \subseteq Message /\ IsFiniteSet(history')
           /\ RanksUnique' /\ ListInOrder'
           /\ shown' \in Seq(history')
           /\ before \subseteq history' /\ reply \subseteq history'
           /\ listing \subseteq SUBSET history'
<1>1. m \notin history /\ \A x \in history : x.rank # m.rank
  BY DEF Unused
<1>2. history' \subseteq Message /\ IsFiniteSet(history')
  BY FS_AddElement DEF IInv, TypeOK
<1>3. RanksUnique'
  BY <1>1 DEF IInv, RanksUnique
<1>4. shown' \in Seq(history')
  <2>1. shown \in Seq(history) /\ history \subseteq history'
    BY DEF IInv, TypeOK
  <2> QED
    BY <2>1
<1> QED
  BY <1>1, <1>2, <1>3, <1>4 DEF IInv, TypeOK, ListInOrder

\* Someone else writes: the submission under way does not notice.
LEMMA OtherWriterStep ==
    ASSUME IInv, NEW r \in Ranks, NEW own \in BOOLEAN, NEW b \in Bodies,
           OtherWriter(r, own, b)
    PROVE  IInv'
<1> DEFINE m == [rank |-> r, own |-> own, body |-> b, by |-> 0]
<1>1. m \in Message /\ m.rank \in Unused /\ history' = history \cup {m}
  BY SendsAssumption DEF OtherWriter, Message
<1>2. UNCHANGED <<up, crashes, posted, shown, phase, typed, before, reply, sends, hint,
                  disabled, live, nodeKnown, status, listing, reloads>>
  BY DEF OtherWriter, submission, poll
<1> HIDE DEF m
<1>3. /\ history' \subseteq Message /\ IsFiniteSet(history')
      /\ RanksUnique' /\ ListInOrder'
      /\ shown' \in Seq(history')
      /\ before \subseteq history' /\ reply \subseteq history'
      /\ listing \subseteq SUBSET history'
  BY <1>1, <1>2, HistoryGrows
<1>4. TypeOK'
  BY <1>2, <1>3, ZenonT(40) DEF IInv, TypeOK
<1>5. OwnText'
  BY <1>2 DEF IInv, OwnText
<1>6. AnsweredIsNew' /\ BlankIsEmpty'
  BY <1>1, <1>2 DEF IInv, AnsweredIsNew, BlankIsEmpty
<1> QED
  BY <1>3, <1>4, <1>5, <1>6 DEF IInv

\* A request that was read is taken out and the others stay.
LEMMA ForgetIs ==
    ASSUME IInv, NEW n
    PROVE  /\ DOMAIN Forget(n) \subseteq DOMAIN posted
           /\ \A k \in DOMAIN Forget(n) : Forget(n)[k] = posted[k]
BY DEF Forget

\* The daemon stores a submission, be it the one under way or an old one.
LEMMA HandlePostStep ==
    ASSUME IInv, NEW n \in DOMAIN posted, NEW r \in Ranks, HandlePost(n, r)
    PROVE  IInv'
<1> DEFINE m == [rank |-> r, own |-> TRUE, body |-> posted[n], by |-> n]
<1>1. n \in 0..MaxSends /\ posted[n] \in Bodies
  <2>1. n \in 1..sends /\ sends \in 0..MaxSends /\ posted[n] \in Bodies
    BY DEF IInv, TypeOK
  <2> QED
    BY <2>1, SendsAssumption
<1>2. m \in Message /\ m.rank \in Unused /\ history' = history \cup {m}
  BY <1>1 DEF HandlePost, Message
<1>3. UNCHANGED <<up, crashes, shown, typed, before, sends, hint, disabled, live,
                  nodeKnown, status, listing, reloads>>
  BY DEF HandlePost, poll
<1>4. posted' = Forget(n) /\ IF phase = "posting" /\ n = sends
                             THEN phase' = "answered" /\ reply' = {m}
                             ELSE phase' = phase /\ reply' = reply
  BY DEF HandlePost
<1>5. m.body = posted[n] /\ m.own /\ m.by = n
  OBVIOUS
<1> HIDE DEF m
<1>6. /\ m \notin history
      /\ history' \subseteq Message /\ IsFiniteSet(history')
      /\ RanksUnique' /\ ListInOrder'
      /\ shown' \in Seq(history')
      /\ before \subseteq history' /\ reply \subseteq history'
      /\ listing \subseteq SUBSET history'
  BY <1>2, <1>3, HistoryGrows
<1>7. /\ DOMAIN posted' \subseteq DOMAIN posted
      /\ \A k \in DOMAIN posted' : posted'[k] = posted[k]
  BY <1>4, ForgetIs
<1>8. reply' \subseteq history' /\ (phase' = phase \/ (phase' = "answered" /\ disabled))
  BY <1>2, <1>4, <1>6 DEF IInv, TypeOK
<1>9. TypeOK'
  BY <1>3, <1>6, <1>7, <1>8, ZenonT(40) DEF IInv, TypeOK
<1>10. OwnText'
  BY <1>3, <1>4, <1>7 DEF IInv, OwnText
<1>11. AnsweredIsNew' /\ BlankIsEmpty'
  <2>1. CASE phase = "posting" /\ n = sends
    <3>1. posted[n] = typed /\ m \notin before
      BY <1>6, <2>1 DEF IInv, TypeOK, OwnText
    <3> QED
      BY <1>2, <1>3, <1>4, <1>5, <2>1, <3>1 DEF AnsweredIsNew, BlankIsEmpty
  <2>2. CASE ~(phase = "posting" /\ n = sends)
    BY <1>2, <1>3, <1>4, <2>2 DEF IInv, AnsweredIsNew, BlankIsEmpty
  <2> QED
    BY <2>1, <2>2
<1> QED
  BY <1>6, <1>9, <1>10, <1>11 DEF IInv

\* The daemon refuses a submission: it will be looked up.
LEMMA RefusePostStep ==
    ASSUME IInv, NEW n \in DOMAIN posted, RefusePost(n)
    PROVE  IInv'
<1>1. UNCHANGED <<up, crashes, history, shown, typed, before, reply, sends, hint, disabled,
                  live, nodeKnown, status, listing, reloads>>
  BY DEF RefusePost, poll
<1>2. /\ DOMAIN posted' \subseteq DOMAIN posted
      /\ \A k \in DOMAIN posted' : posted'[k] = posted[k]
  BY ForgetIs DEF RefusePost
<1>3. phase' = phase \/ (phase' = "confirming" /\ phase = "posting")
  BY DEF RefusePost
<1>4. TypeOK'
  BY <1>1, <1>2, <1>3, ZenonT(40) DEF IInv, TypeOK
<1>5. OwnText' /\ AnsweredIsNew' /\ BlankIsEmpty'
  BY <1>1, <1>2, <1>3 DEF IInv, OwnText, AnsweredIsNew, BlankIsEmpty
<1> QED
  BY <1>1, <1>4, <1>5, HistoryKept

\* The daemon stops and starts.
LEMMA ProcessStep ==
    ASSUME IInv, Crash \/ Start
    PROVE  IInv'
<1>1. UNCHANGED <<history, shown, phase, typed, before, reply, sends, hint, disabled,
                  live, nodeKnown, status, listing, reloads>>
  BY DEF Crash, Start, submission, poll
<1>2. /\ up' \in BOOLEAN /\ crashes' \in 0..MaxCrashes
      /\ DOMAIN posted' \subseteq DOMAIN posted
      /\ \A k \in DOMAIN posted' : posted'[k] = posted[k]
  <2>1. up' \in BOOLEAN
    BY DEF Crash, Start
  <2>2. crashes \in 0..MaxCrashes
    BY DEF IInv, TypeOK
  <2>3. crashes' = crashes \/ (crashes < MaxCrashes /\ crashes' = crashes + 1)
    BY DEF Crash, Start
  <2>4. posted' = posted \/ DOMAIN posted' = {}
    BY DEF Crash, Start
  <2> QED
    BY <2>1, <2>2, <2>3, <2>4, BoundsAssumption
<1>3. TypeOK'
  BY <1>1, <1>2 DEF IInv, TypeOK
<1>4. OwnText' /\ AnsweredIsNew' /\ BlankIsEmpty'
  BY <1>1, <1>2 DEF IInv, OwnText, AnsweredIsNew, BlankIsEmpty
<1> QED
  BY <1>1, <1>3, <1>4, HistoryKept

\* The handler of the form notes knownIds before anything else can happen.
LEMMA SubmitStep ==
    ASSUME IInv, NEW b \in Bodies, Submit(b)
    PROVE  IInv'
<1>1. UNCHANGED <<up, crashes, history, shown, reply, live, nodeKnown, status, listing,
                  reloads>>
  BY DEF Submit, poll
<1>2. /\ phase' = "posting" /\ typed' = b /\ before' = Range(shown) /\ disabled' = TRUE
      /\ hint' = "sending" /\ sends' = sends + 1 /\ sends < MaxSends
      /\ posted' = IF up THEN Connect(sends + 1, b) ELSE posted
  BY DEF Submit, KnownIds
<1>3. Range(shown) \subseteq history
  BY RangeIs DEF IInv, TypeOK
<1>10. /\ sends \in 0..MaxSends /\ DOMAIN posted \subseteq 1..sends
       /\ \A k \in DOMAIN posted : posted[k] \in Bodies
  BY DEF IInv, TypeOK
<1>4. sends' \in 0..MaxSends /\ sends \in Nat
  BY <1>2, <1>10, SendsAssumption
<1>5. sends + 1 \notin DOMAIN posted
  BY <1>4, <1>10
<1>6. /\ DOMAIN posted' \subseteq DOMAIN posted \cup {sends + 1}
      /\ \A k \in DOMAIN posted : posted'[k] = posted[k]
      /\ sends + 1 \in DOMAIN posted' => posted'[sends + 1] = b
  <2> DEFINE s == sends + 1
  <2>1. /\ s \notin DOMAIN posted
        /\ posted' = posted \/ posted' = Connect(s, b)
    BY <1>2, <1>5
  <2> HIDE DEF s
  <2>2. /\ DOMAIN posted' \subseteq DOMAIN posted \cup {s}
        /\ \A k \in DOMAIN posted : posted'[k] = posted[k]
        /\ s \in DOMAIN posted' => posted'[s] = b
    BY <2>1 DEF Connect
  <2> QED
    BY <2>2 DEF s
<1>7. /\ DOMAIN posted' \subseteq 1..sends'
      /\ \A k \in DOMAIN posted' : posted'[k] \in Bodies
  BY <1>2, <1>4, <1>6, <1>10
<1>8. TypeOK'
  BY <1>1, <1>2, <1>3, <1>4, <1>7 DEF IInv, TypeOK
<1>9. OwnText' /\ AnsweredIsNew' /\ BlankIsEmpty'
  BY <1>2, <1>6 DEF OwnText, AnsweredIsNew, BlankIsEmpty
<1> QED
  BY <1>1, <1>8, <1>9, HistoryKept

\* Replies to the submission and to confirmStored come or do not come.
LEMMA RepliesStep ==
    ASSUME IInv, SendFails \/ SendBlank \/ ConfirmListed \/ ConfirmFails
    PROVE  IInv'
<1>1. UNCHANGED <<up, history, posted, crashes, shown, typed, before, sends, hint,
                  disabled, live, nodeKnown, status, listing, reloads>>
  BY DEF SendFails, SendBlank, ConfirmListed, ConfirmFails, daemon, poll
<1>2. /\ phase' \in {"blank", "confirming", "listed"} /\ phase # "idle"
      /\ reply' \subseteq history /\ (phase' = "blank" => reply' = {})
  BY DEF SendFails, SendBlank, ConfirmListed, ConfirmFails
<1>3. TypeOK'
  BY <1>1, <1>2 DEF IInv, TypeOK
<1>4. OwnText' /\ AnsweredIsNew' /\ BlankIsEmpty'
  BY <1>2 DEF OwnText, AnsweredIsNew, BlankIsEmpty
<1> QED
  BY <1>1, <1>3, <1>4, HistoryKept

\* Any set of stored messages can be compared.
LEMMA StoredAreComparable ==
    ASSUME IInv, NEW M \in SUBSET history
    PROVE  Comparable(M) /\ IsFiniteSet(M) /\ Ordered(shown)
BY FS_Subset DEF IInv, TypeOK, RanksUnique, Comparable, ListInOrder, Ordered

\* The finally clause, with the list completed or not.
LEMMA FinishStep ==
    ASSUME IInv, Finish, hint' \in {"sent", "failed"},
           shown' \in Seq(history), Ordered(shown')
    PROVE  IInv'
<1>1. /\ UNCHANGED <<up, history, posted, crashes, sends, live, nodeKnown, status, listing,
                     reloads>>
      /\ phase' = "idle" /\ reply' = {} /\ before' = {} /\ typed' = NoText
      /\ disabled' = ~live
  BY DEF Finish, daemon, poll
<1>2. disabled' \in BOOLEAN
  BY <1>1
<1>3. TypeOK'
  BY <1>1, <1>2 DEF IInv, TypeOK
<1>4. OwnText' /\ AnsweredIsNew' /\ BlankIsEmpty'
  BY <1>1 DEF OwnText, AnsweredIsNew, BlankIsEmpty
<1> QED
  BY <1>1, <1>3, <1>4 DEF IInv, RanksUnique, ListInOrder, Ordered

\* markSent of a reply without a message leaves the list as it is.
LEMMA MarkBlankStep ==
    ASSUME IInv, MarkSent({})
    PROVE  IInv'
<1>1. UNCHANGED shown /\ hint' = "sent" /\ Finish
  BY DEF MarkSent
<1>2. Ordered(shown) /\ shown \in Seq(history)
  BY StoredAreComparable DEF IInv, TypeOK
<1> QED
  BY <1>1, <1>2, FinishStep

\* markSent of a stored message puts it into the list.
LEMMA MarkSentStep ==
    ASSUME IInv, NEW m \in history, MarkSent({m})
    PROVE  IInv' /\ m \in Range(shown')
<1>1. shown' = AppendMessage(shown, m) /\ hint' = "sent" /\ Finish
  BY DEF MarkSent
<1>2. m \in history /\ shown \in Seq(history)
  BY DEF IInv, TypeOK
<1>3. Comparable(history) /\ Ordered(shown)
  BY StoredAreComparable
<1>4. /\ AppendMessage(shown, m) \in Seq(history) /\ Ordered(AppendMessage(shown, m))
      /\ Range(AppendMessage(shown, m)) = Range(shown) \cup {m}
  BY <1>2, <1>3, AppendMessageIs
<1> QED
  BY <1>1, <1>4, FinishStep

\* The list stays when nothing was found.
LEMMA CouldNotSendStep ==
    ASSUME IInv, CouldNotSend
    PROVE  IInv'
<1>1. Ordered(shown) /\ shown \in Seq(history)
  BY StoredAreComparable DEF IInv, TypeOK
<1> QED
  BY <1>1, FinishStep DEF CouldNotSend

\* A poll starts and is answered.
LEMMA PollingStep ==
    ASSUME IInv,
           \/ Poll \/ \E answer \in Answers : PollStatus(answer)
           \/ \E messages \in {history, {}} : PollListed(messages)
    PROVE  IInv'
<1>1. UNCHANGED <<up, history, posted, crashes, shown, phase, typed, before, reply, sends,
                  hint, disabled, live, nodeKnown, reloads>>
  BY DEF Poll, PollStatus, PollListed, daemon, submission
<1>2. status' \in {"none", "asked", "ok", "down"}
  BY DEF Poll, PollStatus, PollListed, Answers, IInv, TypeOK
<1>3. \/ listing' = listing
      \/ listing' = {}
      \/ \E messages \in {history, {}} : listing' = {messages}
  BY DEF Poll, PollStatus, PollListed
<1>4. listing' \subseteq SUBSET history /\ Cardinality(listing') <= 1
  <2>1. listing \subseteq SUBSET history /\ Cardinality(listing) <= 1
    BY DEF IInv, TypeOK
  <2>2. CASE listing' = listing
    BY <2>1, <2>2
  <2>3. CASE listing' = {}
    BY <2>3, AtMostOne
  <2>4. ASSUME NEW messages \in {history, {}}, listing' = {messages}
        PROVE  listing' \subseteq SUBSET history /\ Cardinality(listing') <= 1
    BY <2>4, AtMostOne
  <2> QED
    BY <1>3, <2>2, <2>3, <2>4
<1>5. TypeOK'
  BY <1>1, <1>2, <1>4 DEF IInv, TypeOK
<1>6. OwnText' /\ AnsweredIsNew' /\ BlankIsEmpty'
  BY <1>1 DEF IInv, OwnText, AnsweredIsNew, BlankIsEmpty
<1> QED
  BY <1>1, <1>5, <1>6, HistoryKept

\* The list is completed by a reply that may be older than the list.
LEMMA PollDoneStep ==
    ASSUME IInv, PollDone
    PROVE  IInv'
<1>1. PICK M \in listing : shown' = AppendMessages(shown, ByRank(M))
  BY DEF PollDone, PollDoneSwitches
<1>2. M \in SUBSET history /\ shown \in Seq(history)
  BY DEF IInv, TypeOK
<1>3. Comparable(M) /\ IsFiniteSet(M) /\ Comparable(history) /\ Ordered(shown)
  BY <1>2, StoredAreComparable
<1>4. ByRank(M) \in Seq(history)
  BY <1>2, <1>3, ByRankIs
<1>5. shown' \in Seq(history) /\ Ordered(shown')
  BY <1>1, <1>2, <1>3, <1>4, AppendMessagesIs
<1>6. /\ UNCHANGED <<up, history, posted, crashes, phase, typed, before, reply, sends,
                     hint, reloads>>
      /\ status' = "none" /\ listing' = {}
  BY DEF PollDone, PollDoneSwitches, daemon, submission
<1>7. nodeKnown' \in BOOLEAN
  BY DEF PollDone, PollDoneSwitches, IInv, TypeOK
<1>8. live' \in BOOLEAN /\ disabled' \in BOOLEAN /\ (phase' # "idle" => disabled')
  <2>1. /\ live' = (status = "ok")
        /\ disabled' = IF phase = "idle" THEN ~live' ELSE disabled
    BY DEF PollDone, PollDoneSwitches
  <2>2. disabled \in BOOLEAN /\ (phase # "idle" => disabled)
    BY DEF IInv, TypeOK
  <2>3. live' \in BOOLEAN
    BY <2>1
  <2>4. CASE phase = "idle"
    BY <1>6, <2>1, <2>3, <2>4
  <2>5. CASE phase # "idle"
    BY <1>6, <2>1, <2>2, <2>3, <2>5
  <2> QED
    BY <2>4, <2>5
<1>9. Cardinality(listing') <= 1
  BY <1>6, AtMostOne
<1>10. TypeOK'
  BY <1>5, <1>6, <1>7, <1>8, <1>9 DEF IInv, TypeOK
<1>11. OwnText' /\ AnsweredIsNew' /\ BlankIsEmpty'
  BY <1>6 DEF IInv, OwnText, AnsweredIsNew, BlankIsEmpty
<1> QED
  BY <1>5, <1>6, <1>10, <1>11 DEF IInv, RanksUnique, ListInOrder, Ordered

\* A new page starts from one reply.
LEMMA ReloadStep ==
    ASSUME IInv, NEW answer \in Answers, NEW M \in {history, {}}, Reload(answer, M)
    PROVE  IInv'
<1>1. M \in SUBSET history
  OBVIOUS
<1>2. Comparable(M) /\ IsFiniteSet(M)
  BY <1>1, StoredAreComparable
<1>3. ByRank(M) \in Seq(history) /\ Ordered(ByRank(M))
  BY <1>1, <1>2, ByRankIs
<1>4. /\ UNCHANGED <<up, history, posted, crashes, sends>>
      /\ shown' = ByRank(M) /\ phase' = "idle" /\ typed' = NoText /\ before' = {}
      /\ reply' = {} /\ hint' = "" /\ status' = "none" /\ listing' = {}
  BY DEF Reload, daemon
<1>5. reloads' \in 0..MaxReloads
  <2>1. reloads \in 0..MaxReloads
    BY DEF IInv, TypeOK
  <2>2. reloads < MaxReloads /\ reloads' = reloads + 1
    BY DEF Reload
  <2> QED
    BY <2>1, <2>2, BoundsAssumption
<1>6. live' \in BOOLEAN /\ disabled' \in BOOLEAN /\ nodeKnown' \in BOOLEAN
  BY DEF Reload
<1>7. Cardinality(listing') <= 1
  BY <1>4, AtMostOne
<1>8. TypeOK'
  BY <1>3, <1>4, <1>5, <1>6, <1>7 DEF IInv, TypeOK
<1>9. OwnText' /\ AnsweredIsNew' /\ BlankIsEmpty'
  BY <1>4 DEF OwnText, AnsweredIsNew, BlankIsEmpty
<1> QED
  BY <1>3, <1>4, <1>8, <1>9 DEF IInv, RanksUnique, ListInOrder, Ordered

-----------------------------------------------------------------------------
(* Theorems *)

\* What SentIsShown says of a step.
SentRests ==
    hint' = "sent" /\ hint # "sent" /\ phase # "blank" =>
       \E m \in Range(shown') :
          /\ m.body = typed
          /\ m \notin before
          /\ nodeKnown => m.own
          /\ phase = "answered" => m.by = sends

\* No step breaks the invariant, and a step that says "Sent" is right.
LEMMA NextStep ==
    ASSUME IInv, [Next]_vars
    PROVE  /\ IInv'
           /\ SentRests
<1> DEFINE Good == IInv' /\ SentRests
<1>1. CASE UNCHANGED vars
  <2>1. UNCHANGED <<up, history, posted, crashes, shown, phase, typed, before, reply,
                    sends, hint, disabled, live, nodeKnown, status, listing, reloads>>
    BY <1>1 DEF vars, daemon, submission, poll
  <2>2. TypeOK'
    BY <2>1, ZenonT(40) DEF IInv, TypeOK
  <2>3. OwnText' /\ AnsweredIsNew' /\ BlankIsEmpty'
    BY <2>1 DEF IInv, OwnText, AnsweredIsNew, BlankIsEmpty
  <2> QED
    BY <2>1, <2>2, <2>3, HistoryKept DEF SentRests
<1>2. ASSUME NEW r \in Ranks, NEW own \in BOOLEAN, NEW b \in Bodies, OtherWriter(r, own, b)
      PROVE  Good
  BY <1>2, OtherWriterStep DEF OtherWriter, SentRests
<1>3. ASSUME NEW n \in DOMAIN posted, RefusePost(n)
      PROVE  Good
  BY <1>3, RefusePostStep DEF RefusePost, SentRests
<1>4. ASSUME NEW n \in DOMAIN posted, NEW r \in Ranks, HandlePost(n, r)
      PROVE  Good
  BY <1>4, HandlePostStep DEF HandlePost, SentRests
<1>5. CASE Crash \/ Start
  BY <1>5, ProcessStep DEF Crash, Start, SentRests
<1>6. ASSUME NEW b \in Bodies, Submit(b)
      PROVE  Good
  BY <1>6, SubmitStep DEF Submit, SentRests
<1>7. CASE SendFails \/ SendBlank \/ ConfirmListed \/ ConfirmFails
  BY <1>7, RepliesStep DEF SendFails, SendBlank, ConfirmListed, ConfirmFails, SentRests
<1>8. CASE SendAnswered
  <2>1. MarkSent(reply) /\ phase \in {"answered", "blank"}
    BY <1>8 DEF SendAnswered
  <2>2. CASE phase = "answered"
    <3>1. PICK m \in history : /\ reply = {m}
                               /\ m.body = typed /\ m.own /\ m.by = sends
                               /\ m \notin before
      BY <2>2 DEF IInv, AnsweredIsNew
    <3>2. IInv' /\ m \in Range(shown')
      BY <2>1, <3>1, MarkSentStep
    <3> QED
      BY <3>1, <3>2 DEF SentRests
  <2>3. CASE phase = "blank"
    <3>1. reply = {}
      BY <2>3 DEF IInv, BlankIsEmpty
    <3> QED
      BY <2>1, <2>3, <3>1, MarkBlankStep DEF SentRests
  <2> QED
    BY <2>1, <2>2, <2>3
<1>9. CASE Confirmed
  <2>1. PICK m \in Stored : MarkSent({m})
    BY <1>9 DEF Confirmed
  <2>2. m \in history /\ m.body = typed /\ m \notin before /\ (nodeKnown => m.own)
    BY DEF Stored, IInv, TypeOK
  <2>3. phase = "listed"
    BY <1>9 DEF Confirmed
  <2>4. IInv' /\ m \in Range(shown')
    BY <2>1, <2>2, MarkSentStep
  <2> QED
    BY <2>2, <2>3, <2>4 DEF SentRests
<1>10. CASE CouldNotSend
  BY <1>10, CouldNotSendStep DEF CouldNotSend, SentRests
<1>11. CASE \/ Poll \/ \E answer \in Answers : PollStatus(answer)
            \/ \E messages \in {history, {}} : PollListed(messages)
  BY <1>11, PollingStep DEF Poll, PollStatus, PollListed, SentRests
<1>12. CASE PollDone
  BY <1>12, PollDoneStep DEF PollDone, PollDoneSwitches, SentRests
<1>13. ASSUME NEW answer \in Answers, NEW M \in {history, {}}, Reload(answer, M)
       PROVE  Good
  BY <1>13, ReloadStep DEF Reload, SentRests
<1> HIDE DEF Good
<1>14. ASSUME Next PROVE Good
  BY <1>2, <1>3, <1>4, <1>5, <1>6, <1>7, <1>8, <1>9, <1>10, <1>11, <1>12, <1>13, <1>14
     DEF Next, Good
<1>15. Good
  BY <1>1, <1>14 DEF Good
<1> QED
  BY <1>15 DEF Good

\* The inductive invariant holds in every behaviour.
LEMMA Invariance == Spec => []IInv
<1>1. IInv /\ [Next]_vars => IInv'
  BY NextStep
<1> QED
  BY <1>1, InitIInv, PTL DEF Spec

\* Types; the composer is disabled as long as a submission is under way; the
\* list, replies and knownBeforeSend hold stored messages and nothing else.
THEOREM LuciTypeCorrect == Spec => []TypeOK
<1>1. IInv => TypeOK
  BY DEF IInv
<1> QED
  BY <1>1, Invariance, PTL

\* The list is in the order of compareMessages and has each message once,
\* however replies to polls, sends and confirmations overtake each other.
THEOREM ListInOrderHolds == Spec => []ListInOrder
<1>1. IInv => ListInOrder
  BY DEF IInv
<1> QED
  BY <1>1, Invariance, PTL

\* Where the view says "Sent" because of a message, the list has a message of
\* the submitted text that it had not when the user submitted it: that of the
\* submission if the daemon's reply came through, else one of this node.
THEOREM SentIsShownHolds == Spec => SentIsShown
<1>1. IInv /\ [Next]_vars => [SentRests]_vars
  BY NextStep
<1> QED
  BY <1>1, Invariance, PTL DEF Spec, SentIsShown, SentRests
=============================================================================
