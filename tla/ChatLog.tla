------------------------------- MODULE ChatLog ------------------------------
(***************************************************************************)
(* What the mesh promises, without stores, requests or restarts: there is  *)
(* one log of accepted messages.  Only its author adds a message, under a  *)
(* sequence above all that the author used before; nothing is ever changed *)
(* or taken back.  A node shows some of the log: it may learn a message    *)
(* late or never, and it may forget old ones, but it shows nothing else.   *)
(***************************************************************************)
EXTENDS Integers

CONSTANTS Nodes, Sequences, Bodies

VARIABLES
    log,        \* the messages that were accepted
    visible     \* n |-> the messages that n holds

logVars == <<log, visible>>

LogMessage == [origin : Nodes, sequence : Sequences, body : Bodies]

LogInit ==
    /\ log = {}
    /\ visible = [n \in Nodes |-> {}]

\* n holds what it held, less what it forgets, and the messages of "new".
Show(n, new) ==
    \E kept \in SUBSET visible[n] :
        visible' = [visible EXCEPT ![n] = kept \cup new]

Accept(n, m) ==
    /\ m.origin = n
    /\ \A old \in log : old.origin = n => old.sequence < m.sequence
    /\ log' = log \cup {m}
    /\ Show(n, {m})

Learn(n, m) == Show(n, {m}) /\ UNCHANGED log

Forget(n) == Show(n, {}) /\ UNCHANGED log

LogNext ==
    \E n \in Nodes :
        \/ \E m \in LogMessage : Accept(n, m)
        \/ \E m \in log : Learn(n, m)
        \/ Forget(n)

LogSpec == LogInit /\ [][LogNext]_logVars
=============================================================================
