------------------------------ MODULE Discovery -----------------------------
(***************************************************************************)
(* UDP announcements, the peer registry they fill, and the clock that they *)
(* set on a time_sync client (DiscoveryService, PeerRegistry, clock.hpp).  *)
(*                                                                         *)
(* The registry compares times of the same clock that an announcement may  *)
(* step.  Times are in ticks of any length; a clock is real time plus a    *)
(* skew, and clocks run at the same rate.  A node's own broadcast reaches  *)
(* its socket too.                                                         *)
(***************************************************************************)
EXTENDS Integers, FiniteSets

CONSTANTS
    Nodes,
    Links,          \* <<n, p>>: n can hear the announcements of p
    Mode,           \* n |-> "off", "authority" or "client" (time_sync_mode)
    Accepts,        \* n |-> the authorities n follows (time_authority_id;
                    \*       all of them when it is empty)
    Timeout,        \* peer_timeout_ms
    Tolerance,      \* the 250 ms of synchronize_time
    InitialSkews,   \* n |-> how far its clock may be off when the daemon starts
    MaxDelay,       \* how long a datagram may wait before it is read or lost
    MaxTime,        \* bound: the last tick
    MaxInFlight     \* bound: no node announces while so many datagrams are under way

ASSUME LinksAssumption == Links \subseteq Nodes \X Nodes
ASSUME ModeAssumption == Mode \in [Nodes -> {"off", "authority", "client"}]
ASSUME AcceptsAssumption == Accepts \in [Nodes -> SUBSET Nodes]
ASSUME TimeoutAssumption == Timeout \in Nat
ASSUME ToleranceAssumption == Tolerance \in Nat \ {0}
ASSUME SkewsAssumption == InitialSkews \in [Nodes -> SUBSET Int]
ASSUME DelayAssumption == MaxDelay \in Nat
\* Clocks count from the epoch: that of an authority reads a time after it.
ASSUME EpochAssumption ==
    \A n \in Nodes : Mode[n] = "authority" => InitialSkews[n] \subseteq Nat

VARIABLES
    now,        \* real time
    skew,       \* n |-> system clock of n, less real time
    offset,     \* n |-> time_offset_ms of the process
    registry,   \* n |-> peers_ of n: node_id |-> last_seen_ms
    datagrams,  \* announcements under way
    heard,      \* history, n |-> node_id |-> real time it was last heard
    settled,    \* history, n |-> the peers heard since the clock of n was stepped
    synced      \* history: clients whose process has heard an authority it follows

vars == <<now, skew, offset, registry, datagrams, heard, settled, synced>>

Datagram == [source : Nodes, dest : Nodes, authority : BOOLEAN, time : Int,
             sentAt : Nat]

TypeOK ==
    /\ now \in Nat
    /\ skew \in [Nodes -> Int]
    /\ offset \in [Nodes -> Int]
    /\ \A n \in Nodes : DOMAIN registry[n] \subseteq Nodes \ {n}
    /\ \A n \in Nodes : \A p \in DOMAIN registry[n] : registry[n][p] \in Int
    /\ \A n \in Nodes : DOMAIN heard[n] = DOMAIN registry[n]
    /\ \A n \in Nodes : settled[n] \subseteq DOMAIN heard[n]
    /\ datagrams \subseteq Datagram
    /\ synced \subseteq Nodes

NoPeers == [p \in {} |-> 0]

Init ==
    /\ now = 1
    /\ skew \in {s \in [Nodes -> UNION {InitialSkews[n] : n \in Nodes}] :
                   \A n \in Nodes : s[n] \in InitialSkews[n]}
    /\ offset = [n \in Nodes |-> 0]
    /\ registry = [n \in Nodes |-> NoPeers]
    /\ datagrams = {}
    /\ heard = [n \in Nodes |-> NoPeers]
    /\ settled = [n \in Nodes |-> {}]
    /\ synced = {}

\* system_time_ms and current_time_ms
SystemTime(n) == now + skew[n]
CurrentTime(n) == SystemTime(n) + offset[n]

\* insert_or_assign
Update(peers, p, t) ==
    [q \in DOMAIN peers \cup {p} |-> IF q = p THEN t ELSE peers[q]]

\* Mutant of ActivePeers: nothing expires.
ActivePeersNoExpiry(n) ==
    {p \in DOMAIN registry[n] : CurrentTime(n) - registry[n][p] >= 0}

\* active_peers: an age below zero is not active either.
ActivePeers(n) ==
    {p \in DOMAIN registry[n] :
        CurrentTime(n) - registry[n][p] \in 0..Timeout}

-----------------------------------------------------------------------------
\* send_announce: only an authority adds its time.
Announcements(n, time) ==
    {[source |-> n, dest |-> p, authority |-> Mode[n] = "authority",
      time |-> IF Mode[n] = "authority" THEN time ELSE 0,
      sentAt |-> now] : p \in {n} \cup {p \in Nodes : <<p, n>> \in Links}}

\* The 5 s timer.
Announce(n) ==
    /\ Cardinality(datagrams) < MaxInFlight
    /\ datagrams' = datagrams \cup Announcements(n, CurrentTime(n))
    /\ UNCHANGED <<now, skew, offset, registry, heard, settled, synced>>

Clock(n) == [skew |-> skew[n], offset |-> offset[n]]

\* Mutant of SynchronizeTime: the offset outlives a successful clock_settime.
SynchronizeTimeKeepsOffset(n, time) ==
    LET measured == time - SystemTime(n)
        delta == measured - offset[n]
    IN  IF time <= 0 \/ (delta > -Tolerance /\ delta < Tolerance)
        THEN {Clock(n)}
        ELSE {[skew |-> time - now, offset |-> offset[n]],
              [skew |-> skew[n], offset |-> measured]}

\* synchronize_time: nothing within the tolerance; else the system clock is
\* set, or, when clock_settime fails, the offset of the process.
SynchronizeTime(n, time) ==
    LET measured == time - SystemTime(n)
        delta == measured - offset[n]
    IN  IF time <= 0 \/ (delta > -Tolerance /\ delta < Tolerance)
        THEN {Clock(n)}
        ELSE {[skew |-> time - now, offset |-> 0],
              [skew |-> skew[n], offset |-> measured]}

Follows(n, d) == Mode[n] = "client" /\ d.authority /\ d.source \in Accepts[n]

\* The clocks that an announcement may leave n with.
ClocksAfter(n, d) ==
    IF Follows(n, d) THEN SynchronizeTime(n, d.time) ELSE {Clock(n)}

\* Mutant of LastSeen: last_seen_ms is taken before the clock is stepped.
LastSeenBefore(n, clock) == CurrentTime(n)

\* last_seen_ms, by the clock as the announcement has left it.
LastSeen(n, clock) == now + clock.skew + clock.offset

\* receive_announcements, for a valid datagram of another node.
Heed(n, d) ==
    /\ \E clock \in ClocksAfter(n, d) :
          /\ skew' = [skew EXCEPT ![n] = clock.skew]
          /\ offset' = [offset EXCEPT ![n] = clock.offset]
          /\ registry' = [registry EXCEPT ![n] = Update(@, d.source, LastSeen(n, clock))]
          /\ settled' = [settled EXCEPT ![n] = {d.source} \cup
                {p \in @ : clock.skew + clock.offset = skew[n] + offset[n]}]
    /\ heard' = [heard EXCEPT ![n] = Update(@, d.source, now)]
    /\ synced' = synced \cup {x \in {n} : Follows(n, d)}

\* Mutant of Receive: a node hears itself.
ReceiveOwn(d) ==
    /\ datagrams' = datagrams \ {d}
    /\ Heed(d.dest, d)
    /\ UNCHANGED now

Receive(d) ==
    /\ datagrams' = datagrams \ {d}
    /\ IF d.source = d.dest
       THEN UNCHANGED <<skew, offset, registry, heard, settled, synced>>
       ELSE Heed(d.dest, d)
    /\ UNCHANGED now

Lose(d) ==
    /\ datagrams' = datagrams \ {d}
    /\ UNCHANGED <<now, skew, offset, registry, heard, settled, synced>>

\* A new process: no offset, no peers, and the constructor announces.
Restart(n) ==
    /\ Cardinality(datagrams) < MaxInFlight
    /\ offset' = [offset EXCEPT ![n] = 0]
    /\ registry' = [registry EXCEPT ![n] = NoPeers]
    /\ heard' = [heard EXCEPT ![n] = NoPeers]
    /\ settled' = [settled EXCEPT ![n] = {}]
    /\ synced' = synced \ {n}
    /\ datagrams' = datagrams \cup Announcements(n, SystemTime(n))
    /\ UNCHANGED <<now, skew>>

Tick ==
    /\ now < MaxTime
    /\ \A d \in datagrams : now - d.sentAt < MaxDelay
    /\ now' = now + 1
    /\ UNCHANGED <<skew, offset, registry, datagrams, heard, settled, synced>>

Next ==
    \/ \E n \in Nodes : Announce(n) \/ Restart(n)
    \/ \E d \in datagrams : Receive(d) \/ Lose(d)
    \/ Tick

Spec == Init /\ [][Next]_vars

-----------------------------------------------------------------------------
\* A peer that n has just heard is in its list, even when the announcement
\* itself steps the clock of n: replication and sync can go to it at once.
HeardIsListed ==
    [][\A n \in Nodes : \A p \in DOMAIN registry'[n] :
          \/ p \in DOMAIN registry[n] /\ registry[n][p] = registry'[n][p]
          \/ p \in ActivePeers(n)']_vars

\* A client that follows one authority is never further from its clock than
\* the tolerance and the age of an announcement, from the first announcement
\* on, whether or not clock_settime succeeds each time and in whatever order
\* announcements arrive.
ClientFollowsAuthority ==
    \A n \in synced : \A a \in Accepts[n] :
        (\A b \in Accepts[n] : Mode[b] = "authority" => b = a)
        /\ Mode[a] = "authority"
        => /\ CurrentTime(n) - CurrentTime(a) < Tolerance
           /\ CurrentTime(n) - CurrentTime(a) > -(Tolerance + MaxDelay)

\* The peers that GET /api/v1/peers lists, and that replication and sync
\* address, are those heard within the timeout: on a node whose clock is never
\* stepped always, on a client for the peers heard since its clock was stepped,
\* in whatever order the announcements of peers and authority arrive.
ListedIffRecent ==
    \A n \in Nodes : \A p \in settled[n] :
        p \in ActivePeers(n) <=> now - heard[n][p] <= Timeout
=============================================================================
