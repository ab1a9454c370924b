---------------------------- MODULE MessageStore ----------------------------
(***************************************************************************)
(* One MessageStore object and its database file: add() with every way it  *)
(* can fail, and the process stopping and opening the file again.          *)
(***************************************************************************)
EXTENDS StoreOps

CONSTANTS
    MaxSequence,    \* bound: the sequences that callers present to add()
    StorageFaults   \* TRUE when SQLite statements may throw

ASSUME MaxSequenceAssumption == MaxSequence \in Nat
ASSUME FaultsAssumption == StorageFaults \in BOOLEAN

VARIABLES
    store,      \* the database file and, while open, messages_
    open,       \* a MessageStore object exists
    inserted    \* history: the keys of all rows any add() has committed

vars == <<store, open, inserted>>

TypeOK ==
    /\ store \in Store
    /\ open \in BOOLEAN
    /\ inserted \subseteq Nodes \X (Nat \ {0})

\* messages a caller may present: a local one, a replica or a synced one
Candidates == [origin : Nodes, sequence : 1..MaxSequence, body : Bodies]

Init ==
    /\ store = EmptyStore
    /\ open = TRUE
    /\ inserted = {}

AddMessage(m) ==
    /\ open
    /\ Storable(m)
    /\ store' = Add(store, m)
    /\ inserted' = IF AddReturns(store, m) THEN inserted \cup {Key(m)} ELSE inserted
    /\ UNCHANGED open

AddThrows(m) ==
    /\ open
    /\ StorageFaults \/ ~Storable(m)
    /\ store' \in AddErrors(store, m)
    /\ UNCHANGED <<open, inserted>>

\* The process ends; a transaction that was open is rolled back by SQLite.
Close ==
    /\ open
    /\ open' = FALSE
    /\ store' = Closed(store)
    /\ UNCHANGED inserted

\* The constructor: the tables exist already, load_messages reads them.
Open ==
    /\ ~open
    /\ open' = TRUE
    /\ store' = LoadMessages(store)
    /\ UNCHANGED inserted

Next ==
    \/ \E m \in Candidates : AddMessage(m) \/ AddThrows(m)
    \/ Close
    \/ Open

Spec == Init /\ [][Next]_vars

-----------------------------------------------------------------------------
\* Deduplication by (origin, sequence): no two rows of the table share a key,
\* whatever was trimmed, retried or reloaded in between.
UniqueKeys ==
    \A i, j \in DOMAIN store.rows :
        Key(store.rows[i]) = Key(store.rows[j]) => i = j

\* A next_sequence whose SELECT works hands out no sequence whose row was ever
\* committed, not even after the row was trimmed, after a failed add or after
\* a restart.  Nothing of the kind holds when the SELECT fails: next_sequence
\* then answers 1 whatever the table holds, which MeshChat follows up.
NextSequenceFresh ==
    \A k \in inserted : \A s \in NextSequenceAnswers(store, k[1], FALSE) : k[2] < s

\* messages_ serves no message that the table does not hold, and in table
\* order, even after a reload that failed half-way.
CacheSound ==
    \A i, j \in DOMAIN store.messages : \E p, q \in DOMAIN store.rows :
        /\ store.rows[p] = store.messages[i]
        /\ store.rows[q] = store.messages[j]
        /\ i < j => p < q

\* messages_ that is the table stays the table through every add() that
\* inserts, trimming included, and opening the file makes it so again: only a
\* statement that fails in between can leave messages behind.
CacheExact ==
    [][/\ inserted' # inserted /\ store.messages = store.rows
             => store'.messages = store'.rows
       /\ ~open /\ open' => store'.messages = store'.rows]_vars

\* FIFO trimming: a step removes rows only from the old end, never more than
\* one prune's worth, and adds at most one row at the new end.
TrimsOldestFirst ==
    [][\E d \in 0..PruneLimit, a \in 0..1 :
          /\ d <= Len(store.rows)
          /\ Len(store'.rows) = Len(store.rows) - d + a
          /\ \A i \in 1..(Len(store.rows) - d) :
                store'.rows[i] = store.rows[i + d]]_vars

\* A row is trimmed only to make room: never while the store is not full.
TrimsOnlyWhenFull ==
    [][Len(store.rows) < Capacity =>
          \A i \in 1..Len(store.rows) : store'.rows[i] = store.rows[i]]_vars
=============================================================================
