--------------------------- MODULE DiscoveryProofs --------------------------
(***************************************************************************)
(* Theorems about announcements, the peer registry and clock stepping, for *)
(* every topology, every assignment of time_sync modes and authorities,    *)
(* every timeout and every datagram delay.                                 *)
(***************************************************************************)
EXTENDS Discovery, TLAPS

\* The histories and the registry exist for every node; time has begun.
Shaped ==
    /\ now >= 1
    /\ DOMAIN registry = Nodes
    /\ DOMAIN heard = Nodes
    /\ \A n \in Nodes : \A p \in DOMAIN heard[n] : heard[n][p] \in Nat
    /\ DOMAIN settled = Nodes

\* Nothing steps the clock of an authority, and it has an offset of no process.
AuthoritySteady ==
    \A a \in Nodes : Mode[a] = "authority" => offset[a] = 0 /\ skew[a] \in Nat

\* A datagram with a time carries its sender's clock as it was when it was
\* sent, no longer ago than MaxDelay.
DatagramsTrue ==
    \A d \in datagrams :
        /\ d.sentAt <= now /\ now <= d.sentAt + MaxDelay
        /\ d.authority <=> Mode[d.source] = "authority"
        /\ d.authority => d.time = d.sentAt + skew[d.source] /\ d.sentAt >= 1

\* The last_seen_ms of a settled peer is the real time at which it was heard,
\* by the clock that its node has now.
SettledByClock ==
    \A n \in Nodes : \A p \in settled[n] :
        /\ heard[n][p] <= now
        /\ registry[n][p] = heard[n][p] + skew[n] + offset[n]

\* Only clients follow an authority.
SyncedAreClients == \A n \in synced : Mode[n] = "client"

IInv ==
    /\ TypeOK
    /\ Shaped
    /\ AuthoritySteady
    /\ DatagramsTrue
    /\ SettledByClock
    /\ SyncedAreClients
    /\ ClientFollowsAuthority

-----------------------------------------------------------------------------
\* synchronize_time leaves a clock that shows the time it was given, or one
\* that it did not touch because it was within the tolerance.
LEMMA SynchronizeTimeProperties ==
    ASSUME NEW n \in Nodes, NEW time \in Int, now \in Nat, skew[n] \in Int,
           offset[n] \in Int, NEW clock \in SynchronizeTime(n, time)
    PROVE  /\ clock.skew \in Int /\ clock.offset \in Int
           /\ \/ clock = Clock(n) /\ time <= 0
              \/ /\ clock = Clock(n)
                 /\ time - CurrentTime(n) > -Tolerance
                 /\ time - CurrentTime(n) < Tolerance
              \/ now + clock.skew + clock.offset = time
<1>1. CASE clock = Clock(n)
  <2>1. clock.skew = skew[n] /\ clock.offset = offset[n]
    BY <1>1 DEF Clock
  <2>2. CASE time <= 0
    BY <2>1, <2>2, <1>1
  <2>3. CASE /\ time - SystemTime(n) - offset[n] > -Tolerance
             /\ time - SystemTime(n) - offset[n] < Tolerance
    BY <2>1, <2>3, <1>1, ToleranceAssumption DEF CurrentTime, SystemTime
  <2>4. CASE clock \in {[skew |-> time - now, offset |-> 0],
                        [skew |-> skew[n], offset |-> time - SystemTime(n)]}
    BY <2>1, <2>4 DEF SystemTime
  <2> QED
    BY <2>2, <2>3, <2>4 DEF SynchronizeTime
<1>2. CASE clock = [skew |-> time - now, offset |-> 0]
  BY <1>2
<1>3. CASE clock = [skew |-> skew[n], offset |-> time - SystemTime(n)]
  BY <1>3 DEF SystemTime
<1> QED
  BY <1>1, <1>2, <1>3 DEF SynchronizeTime

-----------------------------------------------------------------------------
\* Before anything is heard, nobody is listed and nobody follows a clock.
LEMMA InitInvariant == Init => IInv
<1> SUFFICES ASSUME Init PROVE IInv
  OBVIOUS
<1>1. skew \in [Nodes -> Int] /\ \A n \in Nodes : skew[n] \in InitialSkews[n]
  BY SkewsAssumption DEF Init
<1>2. \A n \in Nodes : DOMAIN registry[n] = {} /\ DOMAIN heard[n] = {} /\ settled[n] = {}
  BY DEF Init, NoPeers
<1>3. TypeOK /\ Shaped
  BY <1>1, <1>2 DEF Init, TypeOK, Shaped
<1>4. AuthoritySteady
  BY <1>1, EpochAssumption DEF Init, AuthoritySteady
<1> QED
  BY <1>2, <1>3, <1>4 DEF Init, IInv, DatagramsTrue, SettledByClock, SyncedAreClients,
     ClientFollowsAuthority

\* What an announcement carries, by the clock of a node that has just started
\* or of one that has been running.
LEMMA AnnouncementsProperties ==
    ASSUME IInv, NEW n \in Nodes, NEW time \in Int,
           Mode[n] = "authority" => time = now + skew[n]
    PROVE  \A d \in Announcements(n, time) :
              /\ d \in Datagram
              /\ d.sentAt <= now /\ now <= d.sentAt + MaxDelay
              /\ d.authority <=> Mode[d.source] = "authority"
              /\ d.authority => d.time = d.sentAt + skew[d.source] /\ d.sentAt >= 1
<1>1. now \in Nat /\ now >= 1 /\ skew[n] \in Int
  BY DEF IInv, TypeOK, Shaped
<1> SUFFICES ASSUME NEW p \in Nodes, NEW d,
                    d = [source |-> n, dest |-> p, authority |-> Mode[n] = "authority",
                         time |-> IF Mode[n] = "authority" THEN time ELSE 0,
                         sentAt |-> now]
             PROVE  /\ d \in Datagram
                    /\ d.sentAt <= now /\ now <= d.sentAt + MaxDelay
                    /\ d.authority <=> Mode[d.source] = "authority"
                    /\ d.authority => d.time = d.sentAt + skew[d.source] /\ d.sentAt >= 1
  BY DEF Announcements
<1>2. /\ d.source = n /\ d.dest = p /\ d.sentAt = now
      /\ d.authority = (Mode[n] = "authority")
      /\ d.time = IF Mode[n] = "authority" THEN time ELSE 0
  OBVIOUS
<1>3. d \in Datagram
  BY <1>1 DEF Datagram
<1>4. d.authority <=> Mode[d.source] = "authority"
  BY <1>2, Zenon
<1>5. d.sentAt <= now /\ now <= d.sentAt + MaxDelay /\ d.sentAt >= 1
  BY <1>1, <1>2, DelayAssumption
<1>6. ASSUME d.authority PROVE d.time = d.sentAt + skew[d.source]
  <2>1. Mode[n] = "authority"
    BY <1>2, <1>6, Zenon
  <2> QED
    BY <1>2, <2>1
<1> QED
  BY <1>3, <1>4, <1>5, <1>6

\* An announcement tells what is true of its sender at that time.
LEMMA AnnounceInvariant ==
    ASSUME IInv, NEW n \in Nodes, Announce(n)
    PROVE  IInv'
<1>1. /\ datagrams' = datagrams \cup Announcements(n, CurrentTime(n))
      /\ UNCHANGED <<now, skew, offset, registry, heard, settled, synced>>
  BY DEF Announce
<1>2. CurrentTime(n) \in Int /\ (Mode[n] = "authority" => CurrentTime(n) = now + skew[n])
  BY DEF IInv, TypeOK, AuthoritySteady, CurrentTime, SystemTime
<1>3. datagrams' \subseteq Datagram /\ DatagramsTrue'
  BY <1>1, <1>2, AnnouncementsProperties DEF IInv, TypeOK, DatagramsTrue
<1> QED
  BY <1>1, <1>3 DEF IInv, TypeOK, Shaped, AuthoritySteady, SettledByClock,
     SyncedAreClients, ClientFollowsAuthority, CurrentTime, SystemTime

\* A restarted node has forgotten its peers and its offset.
LEMMA RestartInvariant ==
    ASSUME IInv, NEW n \in Nodes, Restart(n)
    PROVE  IInv'
<1>1. /\ datagrams' = datagrams \cup Announcements(n, SystemTime(n))
      /\ UNCHANGED <<now, skew>>
      /\ synced' = synced \ {n}
  BY DEF Restart
<1>2. SystemTime(n) \in Int /\ SystemTime(n) = now + skew[n]
  BY DEF IInv, TypeOK, SystemTime
<1>3. datagrams' \subseteq Datagram /\ DatagramsTrue'
  BY <1>1, <1>2, AnnouncementsProperties DEF IInv, TypeOK, DatagramsTrue
<1>4. \A x \in Nodes : offset'[x] = IF x = n THEN 0 ELSE offset[x]
  BY DEF Restart, IInv, TypeOK
<1>5. \A x \in Nodes : /\ registry'[x] = IF x = n THEN NoPeers ELSE registry[x]
                       /\ heard'[x] = IF x = n THEN NoPeers ELSE heard[x]
                       /\ settled'[x] = IF x = n THEN {} ELSE settled[x]
  BY DEF Restart, IInv, Shaped
<1>6. DOMAIN NoPeers = {}
  BY DEF NoPeers
<1>7. TypeOK'
  BY <1>1, <1>3, <1>4, <1>5, <1>6 DEF IInv, TypeOK, Restart
<1>8. Shaped'
  BY <1>1, <1>5, <1>6 DEF IInv, Shaped, Restart
<1>9. AuthoritySteady' /\ SyncedAreClients'
  BY <1>1, <1>4 DEF IInv, AuthoritySteady, SyncedAreClients
<1>10. SettledByClock'
  BY <1>1, <1>4, <1>5 DEF IInv, SettledByClock
<1>11. ClientFollowsAuthority'
  <2> SUFFICES ASSUME NEW x \in synced', NEW a \in Accepts[x],
                      \A b \in Accepts[x] : Mode[b] = "authority" => b = a,
                      Mode[a] = "authority"
               PROVE  /\ CurrentTime(x)' - CurrentTime(a)' < Tolerance
                      /\ CurrentTime(x)' - CurrentTime(a)' > -(Tolerance + MaxDelay)
    BY DEF ClientFollowsAuthority, CurrentTime, SystemTime
  <2>1. x \in synced /\ x # n /\ x \in Nodes /\ a \in Nodes
    BY <1>1, AcceptsAssumption DEF IInv, TypeOK
  <2>2. offset'[x] = offset[x] /\ offset'[a] = offset[a]
    BY <1>4, <2>1 DEF IInv, AuthoritySteady
  <2>3. CurrentTime(x)' = CurrentTime(x) /\ CurrentTime(a)' = CurrentTime(a)
    BY <1>1, <2>2 DEF CurrentTime, SystemTime
  <2> QED
    BY <2>1, <2>3 DEF IInv, ClientFollowsAuthority
<1> QED
  BY <1>3, <1>7, <1>8, <1>9, <1>10, <1>11 DEF IInv

\* Time passes: only who is listed as recent may change.
LEMMA TickInvariant ==
    ASSUME IInv, Tick
    PROVE  IInv'
<1>1. /\ now' = now + 1 /\ now \in Nat
      /\ \A d \in datagrams : now - d.sentAt < MaxDelay
      /\ UNCHANGED <<skew, offset, registry, datagrams, heard, settled, synced>>
  BY DEF Tick, IInv, TypeOK
<1>2. \A d \in datagrams : d.sentAt \in Nat
  BY DEF IInv, TypeOK, Datagram
<1>3. DatagramsTrue'
  BY <1>1, <1>2, DelayAssumption DEF IInv, DatagramsTrue
<1>4. \A n \in Nodes : \A p \in settled[n] : heard[n][p] \in Nat
  BY DEF IInv, TypeOK, Shaped
<1>5. SettledByClock'
  BY <1>1, <1>4 DEF IInv, SettledByClock
<1>6. ClientFollowsAuthority'
  <2>1. \A x, a \in Nodes : CurrentTime(x)' - CurrentTime(a)' = CurrentTime(x) - CurrentTime(a)
    BY <1>1 DEF IInv, TypeOK, CurrentTime, SystemTime
  <2>2. \A n \in synced : n \in Nodes /\ \A a \in Accepts[n] : a \in Nodes
    BY AcceptsAssumption DEF IInv, TypeOK
  <2> QED
    BY <1>1, <2>1, <2>2 DEF IInv, ClientFollowsAuthority
<1> QED
  BY <1>1, <1>3, <1>5, <1>6 DEF IInv, TypeOK, Shaped, AuthoritySteady, SyncedAreClients

\* A datagram that is read or lost leaves the others as they are.
LEMMA LoseInvariant ==
    ASSUME IInv, NEW d \in datagrams, datagrams' = datagrams \ {d},
           UNCHANGED <<now, skew, offset, registry, heard, settled, synced>>
    PROVE  IInv'
BY DEF IInv, TypeOK, Shaped, AuthoritySteady, DatagramsTrue, SettledByClock,
   SyncedAreClients, ClientFollowsAuthority, CurrentTime, SystemTime

\* The clock that an announcement of d leaves n with: the clock it had, or,
\* when n follows the sender, what synchronize_time leaves.
LEMMA ClocksAfterProperties ==
    ASSUME IInv, NEW d \in datagrams, NEW n \in Nodes, NEW clock \in ClocksAfter(n, d)
    PROVE  /\ clock.skew \in Int /\ clock.offset \in Int
           /\ ~Follows(n, d) => clock.skew = skew[n] /\ clock.offset = offset[n]
           /\ Follows(n, d) =>
                /\ now + clock.skew + clock.offset - CurrentTime(d.source) < Tolerance
                /\ now + clock.skew + clock.offset - CurrentTime(d.source)
                      > -(Tolerance + MaxDelay)
<1>1. now \in Nat /\ skew[n] \in Int /\ offset[n] \in Int
  BY DEF IInv, TypeOK
<1>2. CASE ~Follows(n, d)
  <2>1. clock = Clock(n)
    BY <1>2 DEF ClocksAfter
  <2> QED
    BY <1>1, <1>2, <2>1 DEF Clock
<1>3. CASE Follows(n, d)
  <2>1. d.source \in Nodes /\ d.time \in Int /\ d.sentAt \in Nat
    BY DEF IInv, TypeOK, Datagram
  <2>2. d.authority /\ Mode[d.source] = "authority"
    BY <1>3 DEF Follows, IInv, DatagramsTrue
  <2>3. /\ d.sentAt <= now /\ now <= d.sentAt + MaxDelay
        /\ d.time = d.sentAt + skew[d.source] /\ d.sentAt >= 1
    BY <2>2 DEF IInv, DatagramsTrue
  <2>4. offset[d.source] = 0 /\ skew[d.source] \in Nat
    BY <2>1, <2>2 DEF IInv, AuthoritySteady
  <2>5. clock \in SynchronizeTime(n, d.time)
    BY <1>3 DEF ClocksAfter
  <2>6. /\ clock.skew \in Int /\ clock.offset \in Int
        /\ \/ clock = Clock(n) /\ d.time <= 0
           \/ /\ clock = Clock(n)
              /\ d.time - CurrentTime(n) > -Tolerance
              /\ d.time - CurrentTime(n) < Tolerance
           \/ now + clock.skew + clock.offset = d.time
    BY <1>1, <2>1, <2>5, SynchronizeTimeProperties
  <2>7. d.time > 0
    BY <2>1, <2>3, <2>4
  <2>8. CurrentTime(d.source) = now + skew[d.source]
    BY <1>1, <2>4 DEF CurrentTime, SystemTime
  <2>9. CASE now + clock.skew + clock.offset = d.time
    BY <1>1, <1>3, <2>1, <2>3, <2>4, <2>6, <2>8, <2>9, ToleranceAssumption, DelayAssumption
  <2>10. CASE /\ clock = Clock(n)
              /\ d.time - CurrentTime(n) > -Tolerance
              /\ d.time - CurrentTime(n) < Tolerance
    <3>1. CurrentTime(n) = now + clock.skew + clock.offset
      BY <2>10 DEF Clock, CurrentTime, SystemTime
    <3> QED
      BY <1>1, <1>3, <2>1, <2>3, <2>4, <2>6, <2>8, <2>10, <3>1, ToleranceAssumption,
         DelayAssumption
  <2> QED
    BY <2>1, <2>6, <2>7, <2>9, <2>10
<1> QED
  BY <1>2, <1>3

\* The heart of the argument: hearing another node, clock stepped or not.
LEMMA HeedInvariant ==
    ASSUME IInv, NEW d \in datagrams, datagrams' = datagrams \ {d}, UNCHANGED now,
           d.source # d.dest, Heed(d.dest, d)
    PROVE  IInv'
<1> DEFINE n == d.dest
           p == d.source
<1>1. n \in Nodes /\ p \in Nodes /\ p # n
  BY DEF IInv, TypeOK, Datagram
<1> HIDE DEF n, p
<1>2. PICK clock \in ClocksAfter(n, d) :
         /\ skew' = [skew EXCEPT ![n] = clock.skew]
         /\ offset' = [offset EXCEPT ![n] = clock.offset]
         /\ registry' = [registry EXCEPT ![n] = Update(@, p, LastSeen(n, clock))]
         /\ settled' = [settled EXCEPT ![n] = {p} \cup
               {q \in @ : clock.skew + clock.offset = skew[n] + offset[n]}]
  BY DEF Heed, n, p
<1>3. /\ heard' = [heard EXCEPT ![n] = Update(@, p, now)]
      /\ synced' = synced \cup {x \in {n} : Follows(n, d)}
  BY DEF Heed, n, p
<1>4. /\ clock.skew \in Int /\ clock.offset \in Int
      /\ ~Follows(n, d) => clock.skew = skew[n] /\ clock.offset = offset[n]
      /\ Follows(n, d) =>
           /\ now + clock.skew + clock.offset - CurrentTime(p) < Tolerance
           /\ now + clock.skew + clock.offset - CurrentTime(p) > -(Tolerance + MaxDelay)
  BY <1>1, <1>2, ClocksAfterProperties DEF p
<1>5. /\ skew' \in [Nodes -> Int] /\ offset' \in [Nodes -> Int]
      /\ \A x \in Nodes : skew'[x] = IF x = n THEN clock.skew ELSE skew[x]
      /\ \A x \in Nodes : offset'[x] = IF x = n THEN clock.offset ELSE offset[x]
  BY <1>1, <1>2, <1>4 DEF IInv, TypeOK
<1>6. /\ DOMAIN registry' = Nodes /\ DOMAIN heard' = Nodes /\ DOMAIN settled' = Nodes
      /\ \A x \in Nodes : x # n => /\ registry'[x] = registry[x]
                                   /\ heard'[x] = heard[x]
                                   /\ settled'[x] = settled[x]
      /\ registry'[n] = Update(registry[n], p, LastSeen(n, clock))
      /\ heard'[n] = Update(heard[n], p, now)
      /\ settled'[n] = {p} \cup
            {q \in settled[n] : clock.skew + clock.offset = skew[n] + offset[n]}
  BY <1>1, <1>2, <1>3 DEF IInv, Shaped
<1>7. LastSeen(n, clock) = now + clock.skew + clock.offset /\ now \in Nat
  BY DEF LastSeen, IInv, TypeOK
<1>8. /\ DOMAIN registry'[n] = DOMAIN registry[n] \cup {p}
      /\ DOMAIN heard'[n] = DOMAIN heard[n] \cup {p}
      /\ registry'[n][p] = now + clock.skew + clock.offset
      /\ heard'[n][p] = now
      /\ \A q \in DOMAIN registry[n] : q # p => registry'[n][q] = registry[n][q]
      /\ \A q \in DOMAIN heard[n] : q # p => heard'[n][q] = heard[n][q]
  <2>1. /\ DOMAIN registry'[n] = DOMAIN registry[n] \cup {p}
        /\ registry'[n][p] = LastSeen(n, clock)
        /\ \A q \in DOMAIN registry[n] : q # p => registry'[n][q] = registry[n][q]
    BY <1>6 DEF Update
  <2>2. /\ DOMAIN heard'[n] = DOMAIN heard[n] \cup {p}
        /\ heard'[n][p] = now
        /\ \A q \in DOMAIN heard[n] : q # p => heard'[n][q] = heard[n][q]
    BY <1>6 DEF Update
  <2> QED
    BY <1>7, <2>1, <2>2
<1>9. TypeOK'
  <2>1. \A x \in Nodes : /\ DOMAIN registry'[x] \subseteq Nodes \ {x}
                         /\ DOMAIN heard'[x] = DOMAIN registry'[x]
                         /\ settled'[x] \subseteq DOMAIN heard'[x]
    <3> SUFFICES ASSUME NEW x \in Nodes
                 PROVE  /\ DOMAIN registry'[x] \subseteq Nodes \ {x}
                        /\ DOMAIN heard'[x] = DOMAIN registry'[x]
                        /\ settled'[x] \subseteq DOMAIN heard'[x]
      OBVIOUS
    <3>1. CASE x # n
      BY <1>6, <3>1 DEF IInv, TypeOK
    <3>2. CASE x = n
      <4>1. /\ DOMAIN registry[n] \subseteq Nodes \ {n}
            /\ DOMAIN heard[n] = DOMAIN registry[n]
            /\ settled[n] \subseteq DOMAIN heard[n]
        BY <1>1 DEF IInv, TypeOK
      <4>2. settled'[n] \subseteq {p} \cup settled[n]
        BY <1>6
      <4> QED
        BY <1>1, <1>8, <3>2, <4>1, <4>2
    <3> QED
      BY <3>1, <3>2
  <2>2. \A x \in Nodes : \A q \in DOMAIN registry'[x] : registry'[x][q] \in Int
    <3> SUFFICES ASSUME NEW x \in Nodes, NEW q \in DOMAIN registry'[x]
                 PROVE  registry'[x][q] \in Int
      OBVIOUS
    <3>1. CASE x # n
      BY <1>6, <3>1 DEF IInv, TypeOK
    <3>2. CASE x = n /\ q = p
      BY <1>4, <1>7, <1>8, <3>2
    <3>3. CASE x = n /\ q # p
      BY <1>1, <1>8, <3>3 DEF IInv, TypeOK
    <3> QED
      BY <3>1, <3>2, <3>3
  <2>3. synced' \subseteq Nodes
    BY <1>1, <1>3 DEF IInv, TypeOK
  <2> QED
    BY <1>5, <2>1, <2>2, <2>3 DEF IInv, TypeOK
<1>10. Shaped'
  <2>1. \A x \in Nodes : \A q \in DOMAIN heard'[x] : heard'[x][q] \in Nat
    BY <1>1, <1>6, <1>7, <1>8 DEF IInv, Shaped
  <2> QED
    BY <1>6, <2>1 DEF IInv, Shaped
<1>11. Mode[n] = "authority" => ~Follows(n, d)
  BY DEF Follows
<1>12. \A a \in Nodes : Mode[a] = "authority" => skew'[a] = skew[a] /\ offset'[a] = offset[a]
  BY <1>4, <1>5, <1>11
<1>13. AuthoritySteady'
  BY <1>12 DEF IInv, AuthoritySteady
<1>14. DatagramsTrue'
  <2> SUFFICES ASSUME NEW e \in datagrams'
               PROVE  /\ e.sentAt <= now /\ now <= e.sentAt + MaxDelay
                      /\ e.authority <=> Mode[e.source] = "authority"
                      /\ e.authority => e.time = e.sentAt + skew'[e.source] /\ e.sentAt >= 1
    BY DEF DatagramsTrue
  <2>1. e \in datagrams /\ e.source \in Nodes
    BY DEF IInv, TypeOK, Datagram
  <2>2. e.authority => skew'[e.source] = skew[e.source]
    BY <1>12, <2>1 DEF IInv, DatagramsTrue
  <2> QED
    BY <2>1, <2>2 DEF IInv, DatagramsTrue
<1>15. SettledByClock'
  <2> SUFFICES ASSUME NEW x \in Nodes, NEW q \in settled'[x]
               PROVE  /\ heard'[x][q] <= now
                      /\ registry'[x][q] = heard'[x][q] + skew'[x] + offset'[x]
    BY DEF SettledByClock
  <2>1. CASE x # n
    BY <1>5, <1>6, <2>1 DEF IInv, SettledByClock
  <2>2. CASE x = n /\ q = p
    BY <1>4, <1>5, <1>7, <1>8, <2>2
  <2>3. CASE x = n /\ q # p
    <3>1. /\ q \in settled[n] /\ clock.skew + clock.offset = skew[n] + offset[n]
          /\ q \in DOMAIN heard[n] /\ q \in DOMAIN registry[n]
      BY <1>1, <1>6, <2>3 DEF IInv, TypeOK
    <3>2. heard[n][q] <= now /\ registry[n][q] = heard[n][q] + skew[n] + offset[n]
          /\ heard[n][q] \in Nat /\ skew[n] \in Int /\ offset[n] \in Int
      BY <1>1, <3>1 DEF IInv, SettledByClock, Shaped, TypeOK
    <3> QED
      BY <1>4, <1>5, <1>8, <2>3, <3>1, <3>2
  <2> QED
    BY <2>1, <2>2, <2>3
<1>16. SyncedAreClients'
  BY <1>3 DEF IInv, SyncedAreClients, Follows
<1>17. ClientFollowsAuthority'
  <2> SUFFICES ASSUME NEW x \in synced', NEW a \in Accepts[x],
                      \A b \in Accepts[x] : Mode[b] = "authority" => b = a,
                      Mode[a] = "authority"
               PROVE  /\ CurrentTime(x)' - CurrentTime(a)' < Tolerance
                      /\ CurrentTime(x)' - CurrentTime(a)' > -(Tolerance + MaxDelay)
    BY DEF ClientFollowsAuthority, CurrentTime, SystemTime
  <2>1. x \in Nodes /\ a \in Nodes
    BY <1>9, AcceptsAssumption DEF TypeOK
  <2>2. CurrentTime(a)' = CurrentTime(a)
    BY <1>12, <2>1 DEF CurrentTime, SystemTime
  <2>3. CASE x = n /\ Follows(n, d)
    <3>1. p = a
      BY <2>3 DEF Follows, p, IInv, DatagramsTrue
    <3>2. /\ skew'[x] = clock.skew /\ offset'[x] = clock.offset
          /\ now \in Nat /\ skew[a] \in Int /\ offset[a] \in Int
      BY <1>1, <1>5, <2>1, <2>3 DEF IInv, TypeOK
    <3>3. CurrentTime(x)' - CurrentTime(a)'
             = now + clock.skew + clock.offset - CurrentTime(p)
      BY <1>4, <1>12, <2>1, <3>1, <3>2 DEF CurrentTime, SystemTime
    <3> QED
      BY <1>4, <2>3, <3>3
  <2>4. CASE x # n \/ ~Follows(n, d)
    <3>1. x \in synced /\ skew'[x] = skew[x] /\ offset'[x] = offset[x]
      BY <1>3, <1>4, <1>5, <2>1, <2>4
    <3>2. CurrentTime(x)' = CurrentTime(x)
      BY <3>1 DEF CurrentTime, SystemTime
    <3> QED
      BY <2>2, <3>1, <3>2 DEF IInv, ClientFollowsAuthority
  <2> QED
    BY <2>3, <2>4
<1> QED
  BY <1>9, <1>10, <1>13, <1>14, <1>15, <1>16, <1>17 DEF IInv

\* The inductive invariant holds in every behaviour.
LEMMA Invariance == Spec => []IInv
<1>1. ASSUME IInv, [Next]_vars PROVE IInv'
  <2>1. ASSUME NEW n \in Nodes, Announce(n) PROVE IInv'
    BY <1>1, <2>1, AnnounceInvariant
  <2>2. ASSUME NEW n \in Nodes, Restart(n) PROVE IInv'
    BY <1>1, <2>2, RestartInvariant
  <2>3. ASSUME NEW d \in datagrams, Receive(d) PROVE IInv'
    BY <1>1, <2>3, LoseInvariant, HeedInvariant DEF Receive
  <2>4. ASSUME NEW d \in datagrams, Lose(d) PROVE IInv'
    BY <1>1, <2>4, LoseInvariant DEF Lose
  <2>5. CASE Tick
    BY <1>1, <2>5, TickInvariant
  <2>6. CASE UNCHANGED vars
    BY <1>1, <2>6 DEF vars, IInv, TypeOK, Shaped, AuthoritySteady, DatagramsTrue,
       SettledByClock, SyncedAreClients, ClientFollowsAuthority, CurrentTime, SystemTime
  <2> QED
    BY <1>1, <2>1, <2>2, <2>3, <2>4, <2>5, <2>6 DEF Next
<1> QED
  BY <1>1, InitInvariant, PTL DEF Spec

-----------------------------------------------------------------------------
\* The registry never lists its own node and keeps Int times, the datagrams and
\* clocks their types, whatever announcements step and whichever node restarts.
THEOREM DiscoveryTypeCorrect == Spec => []TypeOK
<1>1. IInv => TypeOK
  BY DEF IInv
<1> QED
  BY <1>1, Invariance, PTL

\* A client of one authority stays within the tolerance plus an announcement's
\* age of its clock, whatever clock_settime does, for every delay and order.
THEOREM ClientFollowsAuthorityHolds == Spec => []ClientFollowsAuthority
<1>1. IInv => ClientFollowsAuthority
  BY DEF IInv
<1> QED
  BY <1>1, Invariance, PTL

\* active_peers lists a settled peer exactly while it was heard within the
\* timeout: last_seen_ms is read by the clock that the announcement has left.
THEOREM ListedIffRecentHolds == Spec => []ListedIffRecent
<1>1. ASSUME IInv PROVE ListedIffRecent
  <2> SUFFICES ASSUME NEW n \in Nodes, NEW p \in settled[n]
               PROVE  p \in ActivePeers(n) <=> now - heard[n][p] <= Timeout
    BY DEF ListedIffRecent
  <2>1. /\ p \in DOMAIN registry[n] /\ heard[n][p] \in Nat
        /\ now \in Nat /\ skew[n] \in Int /\ offset[n] \in Int
    BY <1>1 DEF IInv, TypeOK, Shaped
  <2>2. heard[n][p] <= now /\ registry[n][p] = heard[n][p] + skew[n] + offset[n]
    BY <1>1 DEF IInv, SettledByClock
  <2>3. CurrentTime(n) - registry[n][p] = now - heard[n][p]
    BY <2>1, <2>2 DEF CurrentTime, SystemTime
  <2>4. now - heard[n][p] \in 0..Timeout <=> now - heard[n][p] <= Timeout
    BY <2>1, <2>2, TimeoutAssumption
  <2> QED
    BY <2>1, <2>3, <2>4 DEF ActivePeers
<1> QED
  BY <1>1, Invariance, PTL

\* receive_announcements stamps a peer with the clock it has just stepped, so
\* the peer is in active_peers at once, for every timeout and every step.
THEOREM HeardIsListedHolds == Spec => HeardIsListed
<1> DEFINE Listed == \A n \in Nodes : \A p \in DOMAIN registry'[n] :
          \/ p \in DOMAIN registry[n] /\ registry[n][p] = registry'[n][p]
          \/ p \in ActivePeers(n)'
<1>1. ASSUME IInv, [Next]_vars PROVE Listed
  <2> SUFFICES ASSUME NEW n \in Nodes, NEW p \in DOMAIN registry'[n],
                      ~(p \in DOMAIN registry[n] /\ registry[n][p] = registry'[n][p])
               PROVE  p \in ActivePeers(n)'
    OBVIOUS
  <2>1. registry' # registry
    OBVIOUS
  <2>2. ~(\E x \in Nodes : Restart(x))
    <3> SUFFICES ASSUME NEW x \in Nodes, Restart(x) PROVE FALSE
      OBVIOUS
    <3>1. registry'[n] = IF n = x THEN NoPeers ELSE registry[n]
      BY <1>1 DEF Restart, IInv, Shaped
    <3> QED
      BY <3>1 DEF NoPeers
  <2>3. PICK d \in datagrams : d.source # d.dest /\ Heed(d.dest, d) /\ UNCHANGED now
    BY <1>1, <2>1, <2>2 DEF Next, vars, Announce, Receive, Lose, Tick
  <2>4. PICK clock \in ClocksAfter(d.dest, d) :
          /\ skew' = [skew EXCEPT ![d.dest] = clock.skew]
          /\ offset' = [offset EXCEPT ![d.dest] = clock.offset]
          /\ registry' = [registry EXCEPT ![d.dest] =
                            Update(@, d.source, LastSeen(d.dest, clock))]
    BY <2>3 DEF Heed
  <2>5. /\ d.dest = n
        /\ registry'[n] = Update(registry[n], d.source, LastSeen(n, clock))
    BY <1>1, <2>4 DEF IInv, Shaped
  <2>6. p = d.source /\ registry'[n][p] = LastSeen(n, clock)
    <3>1. /\ DOMAIN registry'[n] = DOMAIN registry[n] \cup {d.source}
          /\ registry'[n][d.source] = LastSeen(n, clock)
          /\ \A q \in DOMAIN registry[n] : q # d.source => registry'[n][q] = registry[n][q]
      BY <2>5 DEF Update
    <3> QED
      BY <3>1
  <2>7. /\ skew'[n] = clock.skew /\ offset'[n] = clock.offset
        /\ clock.skew \in Int /\ clock.offset \in Int /\ now \in Nat
    BY <1>1, <2>4, <2>5, ClocksAfterProperties DEF IInv, TypeOK
  <2>8. CurrentTime(n)' - registry'[n][p] \in 0..Timeout
    BY <2>3, <2>6, <2>7, TimeoutAssumption DEF CurrentTime, SystemTime, LastSeen
  <2> QED
    BY <2>8, Zenon DEF ActivePeers
<1> QED
  BY <1>1, Invariance, PTL DEF Spec, HeardIsListed
=============================================================================
