------------------------------ MODULE StoreOps ------------------------------
(***************************************************************************)
(* The operations of MessageStore (src/src/message_store.cpp) as operators *)
(* on the value of one store, shared by the module of a single store and   *)
(* by the module of the whole mesh.                                        *)
(*                                                                         *)
(* A store is a record of                                                  *)
(*   rows       the table "messages" in storage_id order,                  *)
(*   sequences  the table "sequences": last_sequence of every origin, 0    *)
(*              when the origin has no row there,                          *)
(*   messages   the vector messages_ kept in memory beside the database.   *)
(*                                                                         *)
(* message_id is create_local's node_id ++ ":" ++ sequence.  A node id has *)
(* no colon (is_valid_node_id), so the id and the pair (origin, sequence)  *)
(* determine each other: Key stands for both UNIQUE columns of the table.  *)
(***************************************************************************)
EXTENDS Integers, Sequences, Functions

CONSTANTS
    Nodes,       \* node identifiers, which are also the origins of messages
    Bodies,      \* what users type; payload, only compared for equality
    Capacity,    \* rows that fit max_database_bytes: the next one is SQLITE_FULL
                 \* (rows count as equally large)
    PruneLimit,  \* rows deleted by one prune_oldest_messages (100 in the code)
    MaxInteger   \* largest sequence a column holds, 2^63 - 1 in the code

ASSUME NodesAssumption == Nodes # {}
ASSUME CapacityAssumption == Capacity \in Nat \ {0}
ASSUME PruneLimitAssumption == PruneLimit \in Nat \ {0}
ASSUME MaxIntegerAssumption == MaxInteger \in Nat \ {0}

Message == [origin : Nodes, sequence : Nat \ {0}, body : Bodies]
Key(m) == <<m.origin, m.sequence>>

Store == [rows : Seq(Message), sequences : [Nodes -> Nat], messages : Seq(Message)]

\* A database that has just been created by initialize_schema.
EmptyStore ==
    [rows |-> <<>>, sequences |-> [o \in Nodes |-> 0], messages |-> <<>>]

Larger(a, b) == IF a < b THEN b ELSE a
Smaller(a, b) == IF a < b THEN a ELSE b

\* SELECT 1 FROM messages WHERE message_id = ?1, and the UNIQUE constraints.
Contains(st, k) == \E m \in Range(st.rows) : Key(m) = k

\* Mutant of IsFull: one row too early.
IsFullEarly(st) == Len(st.rows) + 1 >= Capacity

\* sqlite3_step answers SQLITE_FULL: max_page_count is reached.
IsFull(st) == Len(st.rows) >= Capacity

-----------------------------------------------------------------------------
\* Mutants of InsertMessage: the upsert without MAX, and no upsert.
InsertMessageOverwrites(st, m) ==
    [st EXCEPT !.rows = Append(@, m), !.sequences[m.origin] = m.sequence]
InsertRowOnly(st, m) == [st EXCEPT !.rows = Append(@, m)]

\* insert_message throws, before it looks at a table, for a sequence that is
\* too large for sqlite3_bind_int64.
Storable(m) == m.sequence <= MaxInteger

(* insert_message: one transaction, the row and the origin's last_sequence. *)
InsertMessage(st, m) ==
    [st EXCEPT !.rows = Append(@, m),
               !.sequences[m.origin] = Larger(@, m.sequence)]

\* Mutant of DeleteOldest: ORDER BY storage_id DESC.
DeleteNewest(st) ==
    [st EXCEPT !.rows = SubSeq(@, 1, Len(@) - Smaller(PruneLimit, Len(@)))]

\* DELETE of the PruneLimit oldest rows; "sequences" is left alone.
DeleteOldest(st) ==
    [st EXCEPT !.rows = SubSeq(@, Smaller(PruneLimit, Len(@)) + 1, Len(@))]

\* load_messages that fails after n rows: messages_ was cleared first.
LoadPrefix(st, n) == [st EXCEPT !.messages = SubSeq(st.rows, 1, n)]

LoadMessages(st) == [st EXCEPT !.messages = st.rows]

\* Mutant of PruneOldestMessages: load_messages is forgotten.
PruneWithoutReload(st) == DeleteOldest(st)

PruneOldestMessages(st) == LoadMessages(DeleteOldest(st))

\* The process is gone and the file is left; SQLite rolls back what was open.
Closed(st) == [st EXCEPT !.messages = <<>>]

\* Mutants of Push: the vector gets a moved-from message, or none.
PushMoved(st, m) ==
    [InsertMessage(st, m) EXCEPT !.messages = Append(@, [m EXCEPT !.body = "moved"])]
PushTableOnly(st, m) == InsertMessage(st, m)

\* messages_.push_back after the transaction has committed.
Push(st, m) == [InsertMessage(st, m) EXCEPT !.messages = Append(@, m)]

\* Mutants of Add: INSERT without OR IGNORE and UNIQUE, and no second insert
\* after the prune.
AddNoDedup(st, m) ==
    IF IsFull(st) THEN Push(PruneOldestMessages(st), m) ELSE Push(st, m)
AddPrunesOnly(st, m) ==
    IF Contains(st, Key(m)) THEN st
    ELSE IF IsFull(st) THEN PruneOldestMessages(st)
    ELSE Push(st, m)

\* add(): what it leaves and whether it returned true.  INSERT OR IGNORE
\* finds the duplicate before it needs a page, so a full store ignores too.
Add(st, m) ==
    IF Contains(st, Key(m)) THEN st
    ELSE IF IsFull(st) THEN Push(PruneOldestMessages(st), m)
    ELSE Push(st, m)

\* Mutant of AddReturns: the changes() count is not looked at.
AddReturnsAlways(st, m) == TRUE

AddReturns(st, m) == ~Contains(st, Key(m))

\* What add() can leave when a statement throws: everything rolled back, or,
\* in a full store, the oldest rows gone, messages_ reloaded as far as the
\* SELECT got, and the new row not there.  The statement that finds the store
\* full is only reached by a message that is storable and new.
AddErrors(st, m) ==
    {st} \cup
    {LoadPrefix(DeleteOldest(st), n) :
        n \in {k \in 0..Len(DeleteOldest(st).rows) :
                    IsFull(st) /\ Storable(m) /\ ~Contains(st, Key(m))}}

\* Mutant of NextSequence: the last sequence itself.
NextSequenceIsLast(st, o) == Larger(st.sequences[o], 1)

\* next_sequence when its SELECT reads the row of the origin, or finds none.
NextSequence(st, o) == st.sequences[o] + 1

\* The answers of next_sequence.  It throws when there is no next sequence,
\* and takes every result but a row for an unknown origin, an error too.
NextSequenceAnswers(st, o, fails) ==
    {s \in {NextSequence(st, o)} : st.sequences[o] < MaxInteger} \cup
    {s \in {1} : fails}

SequenceSummary(st) == st.sequences
=============================================================================
