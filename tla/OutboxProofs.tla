---------------------------- MODULE OutboxProofs ----------------------------
(***************************************************************************)
(* Proofs about the outbox, for any number of events, keys, consumers,     *)
(* endpoints and deliveries and any of the bounds of the code.             *)
(***************************************************************************)
EXTENDS Outbox, SumTheorems, SequenceTheorems, FiniteSetTheorems

-----------------------------------------------------------------------------
(* Storage *)

\* What env.storage().set leaves.
LEMMA SetStore ==
    ASSUME NEW store, NEW k, NEW v
    PROVE  /\ DOMAIN Set(store, k, v) = DOMAIN store \cup {k}
           /\ Set(store, k, v)[k] = v
           /\ \A x \in DOMAIN store : x # k => Set(store, k, v)[x] = store[x]
BY DEF Set

\* What env.storage().remove leaves.
LEMMA RemoveStore ==
    ASSUME NEW store, NEW keys
    PROVE  /\ DOMAIN Remove(store, keys) = DOMAIN store \ keys
           /\ \A x \in DOMAIN store \ keys : Remove(store, keys)[x] = store[x]
BY DEF Remove

-----------------------------------------------------------------------------
(* The event half *)

\* The stored events are exactly the ids from the prune floor on.
StoreShape ==
    /\ now \in 1..MaxTime
    /\ admin \in Accounts \cup {NoAddress}
    /\ nextEventId \in Nat \ {0}
    /\ pruneFloor \in 1..nextEventId
    /\ events \in [pruneFloor..(nextEventId - 1) -> OutboxEvent]
    /\ cursor \in [Consumers -> 0..(nextEventId - 1)]

\* The key of every id ever handed out, whether its event is still stored or not.
KeysShape ==
    /\ dedup \in [DOMAIN dedup -> 1..(nextEventId - 1)]
    /\ DOMAIN dedup \subseteq DedupKeys
    /\ OneEventPerKey

PendingShape ==
    /\ pending = Cardinality(Unpublished)
    /\ pending <= MAX_PENDING_EVENTS

\* The inductive invariant of the event half.
EventsInv == StoreShape /\ KeysShape /\ PendingShape

\* The unpublished events are finitely many.
LEMMA UnpublishedFinite ==
    ASSUME StoreShape
    PROVE  /\ IsFiniteSet(Unpublished)
           /\ Cardinality(Unpublished) \in Nat
           /\ DOMAIN events = pruneFloor..(nextEventId - 1)
<1>1. /\ DOMAIN events = pruneFloor..(nextEventId - 1)
      /\ pruneFloor \in Int /\ nextEventId - 1 \in Int
    BY DEF StoreShape
<1>2. IsFiniteSet(DOMAIN events)
    BY <1>1, FS_Interval
<1>3. Unpublished \subseteq DOMAIN events
    BY DEF Unpublished
<1>4. IsFiniteSet(Unpublished)
    BY <1>2, <1>3, FS_Subset
<1>5. QED
    BY <1>1, <1>4, FS_CardinalityType

\* initialize finds the counters of the empty outbox.
LEMMA EventsInvInit == EventsInit => EventsInv
<1> SUFFICES ASSUME EventsInit PROVE EventsInv
    OBVIOUS
<1> USE OutboxEventsConstants
<1>1. events = [k \in {} |-> {}] /\ dedup = [k \in {} |-> {}] /\ pruneFloor = 1 /\ nextEventId = 1
    BY DEF EventsInit, Empty
<1>2. pruneFloor..(nextEventId - 1) = {} /\ 1..(nextEventId - 1) = {}
    BY <1>1
<1>3. StoreShape
    BY <1>1, <1>2 DEF StoreShape, EventsInit
<1>4. KeysShape
    BY <1>1, <1>2 DEF KeysShape, OneEventPerKey
<1>5. PendingShape
    <2>1. Unpublished = {}
        BY <1>1 DEF Unpublished
    <2>2. Cardinality(Unpublished) = 0
        BY <2>1, FS_EmptySet
    <2>3. QED BY <2>2 DEF PendingShape, EventsInit
<1>6. QED
    BY <1>3, <1>4, <1>5 DEF EventsInv

\* enqueue stores one more unpublished event under the next id and a new key.
LEMMA EventsInvEnqueue ==
    ASSUME EventsInv, NEW caller, NEW topic \in Topics, NEW key \in DedupKeys,
           Enqueue(caller, topic, key)
    PROVE  EventsInv'
<1> DEFINE n == nextEventId
           r == [topic |-> topic, published_at |-> 0]
<1>1. /\ StoreShape /\ KeysShape /\ PendingShape
      /\ n \in Nat \ {0} /\ pruneFloor \in 1..n
      /\ events \in [pruneFloor..(n - 1) -> OutboxEvent]
    BY DEF EventsInv, StoreShape
<1>2. /\ events' = Set(events, n, r) /\ dedup' = Set(dedup, key, n)
      /\ nextEventId' = n + 1 /\ pending' = pending + 1 /\ key \notin DOMAIN dedup
      /\ pending < MAX_PENDING_EVENTS
      /\ UNCHANGED <<now, admin, pruneFloor, cursor>>
    BY DEF Enqueue, IsDuplicate
<1>3. r \in OutboxEvent
    BY DEF OutboxEvent
<1>4. /\ DOMAIN events = pruneFloor..(n - 1) /\ n \notin DOMAIN events
      /\ DOMAIN events' = pruneFloor..n
      /\ events'[n] = r
      /\ \A x \in DOMAIN events : events'[x] = events[x]
    <2>1. DOMAIN events = pruneFloor..(n - 1) /\ n \notin DOMAIN events
        BY <1>1
    <2>2. pruneFloor..n = (pruneFloor..(n - 1)) \cup {n}
        BY <1>1
    <2> HIDE DEF r, n
    <2>3. QED BY <1>2, <2>1, <2>2 DEF Set
<1>5. StoreShape'
    <2>1. events' \in [pruneFloor..n -> OutboxEvent]
        <3>1. events' = [x \in pruneFloor..n |-> events'[x]]
            BY <1>2, <1>4 DEF Set
        <3>2. \A x \in pruneFloor..n : events'[x] \in OutboxEvent
            <4> HIDE DEF r, n
            <4>1. QED BY <1>1, <1>3, <1>4
        <3>3. QED BY <3>1, <3>2
    <2>2. n = nextEventId' - 1 /\ n + 1 \in Nat \ {0} /\ pruneFloor \in 1..(n + 1)
        BY <1>1, <1>2
    <2>3. cursor \in [Consumers -> 0..n]
        BY <1>1 DEF StoreShape
    <2>4. QED
        BY <1>1, <1>2, <2>1, <2>2, <2>3 DEF StoreShape
<1>6. KeysShape'
    <2>1. /\ DOMAIN dedup' = DOMAIN dedup \cup {key} /\ dedup'[key] = n
          /\ \A k \in DOMAIN dedup : dedup'[k] = dedup[k]
        <3> HIDE DEF n
        <3>1. QED BY <1>2 DEF Set
    <2>2. \A k \in DOMAIN dedup : dedup[k] \in 1..(n - 1)
        BY <1>1 DEF KeysShape
    <2>3. 1..n = (1..(n - 1)) \cup {n} /\ n \notin 1..(n - 1)
        BY <1>1
    <2>4. /\ \A k, l \in DOMAIN dedup : dedup[k] = dedup[l] => k = l
          /\ {dedup[k] : k \in DOMAIN dedup} = 1..(n - 1)
        BY <1>1 DEF KeysShape, OneEventPerKey
    <2>5. nextEventId' - 1 = n
        BY <1>1, <1>2
    <2> HIDE DEF n
    <2>6. \A k, l \in DOMAIN dedup' : dedup'[k] = dedup'[l] => k = l
        BY <2>1, <2>2, <2>3, <2>4
    <2>7. {dedup'[k] : k \in DOMAIN dedup'} = 1..n
        BY <2>1, <2>3, <2>4
    <2>8. dedup' \in [DOMAIN dedup' -> 1..n]
        <3>1. dedup' = [x \in DOMAIN dedup' |-> dedup'[x]]
            BY <1>2, <2>1 DEF Set
        <3>2. \A x \in DOMAIN dedup' : dedup'[x] \in 1..n
            BY <2>7
        <3>3. QED BY <3>1, <3>2
    <2>9. DOMAIN dedup' \subseteq DedupKeys
        BY <1>1, <2>1 DEF KeysShape
    <2>10. QED
        BY <2>5, <2>6, <2>7, <2>8, <2>9 DEF KeysShape, OneEventPerKey
<1>7. PendingShape'
    <2>1. Unpublished' = Unpublished \cup {n} /\ n \notin Unpublished
        <3>1. events'[n].published_at = 0
            BY <1>4
        <3> HIDE DEF n, r
        <3>2. DOMAIN events' = DOMAIN events \cup {n}
            BY <1>2 DEF Set
        <3>3. QED BY <1>4, <3>1, <3>2 DEF Unpublished
    <2>2. IsFiniteSet(Unpublished) /\ Cardinality(Unpublished) \in Nat
        BY <1>1, UnpublishedFinite
    <2>3. Cardinality(Unpublished') = Cardinality(Unpublished) + 1
        BY <2>1, <2>2, FS_AddElement
    <2>4. QED
        BY <1>1, <1>2, <2>2, <2>3, OutboxEventsConstants DEF PendingShape
<1>8. QED
    BY <1>5, <1>6, <1>7 DEF EventsInv

\* mark_published takes one event out of the backlog.
LEMMA EventsInvMarkPublished ==
    ASSUME EventsInv, NEW caller, NEW id \in DOMAIN events, MarkPublished(caller, id)
    PROVE  EventsInv'
<1>1. StoreShape /\ KeysShape /\ PendingShape
    BY DEF EventsInv
<1>2. /\ events[id].published_at = 0
      /\ events' = [events EXCEPT ![id].published_at = now]
      /\ pending' = IF pending > 0 THEN pending - 1 ELSE 0
      /\ UNCHANGED <<now, admin, nextEventId, pruneFloor, dedup, cursor>>
    BY DEF MarkPublished, AwaitsPublication
<1>3. /\ now \in Nat \ {0}
      /\ events \in [DOMAIN events -> OutboxEvent]
      /\ DOMAIN events = pruneFloor..(nextEventId - 1)
    BY <1>1, OutboxEventsConstants DEF StoreShape
<1>4. /\ events' \in [DOMAIN events -> OutboxEvent]
      /\ events'[id].published_at = now
      /\ \A x \in DOMAIN events : x # id => events'[x] = events[x]
    BY <1>2, <1>3 DEF OutboxEvent
<1>5. StoreShape'
    BY <1>1, <1>2, <1>3, <1>4 DEF StoreShape
<1>6. KeysShape'
    BY <1>1, <1>2 DEF KeysShape, OneEventPerKey
<1>7. PendingShape'
    <2>1. id \in Unpublished /\ Unpublished' = Unpublished \ {id}
        BY <1>2, <1>3, <1>4 DEF Unpublished
    <2>2. IsFiniteSet(Unpublished) /\ Cardinality(Unpublished) \in Nat
        BY <1>1, UnpublishedFinite
    <2>3. Cardinality(Unpublished') = Cardinality(Unpublished) - 1
        BY <2>1, <2>2, FS_RemoveElement
    <2>4. Cardinality(Unpublished) # 0
        BY <2>1, <2>2, FS_EmptySet
    <2>5. QED
        BY <1>1, <1>2, <2>2, <2>3, <2>4, OutboxEventsConstants DEF PendingShape
<1>8. QED
    BY <1>5, <1>6, <1>7 DEF EventsInv

\* acknowledge moves one cursor, to an id that is stored.
LEMMA EventsInvAcknowledge ==
    ASSUME EventsInv, NEW consumer \in Consumers, NEW id, Acknowledge(consumer, id)
    PROVE  EventsInv'
<1>1. StoreShape /\ KeysShape /\ PendingShape
    BY DEF EventsInv
<1>2. /\ id \in DOMAIN events /\ cursor' = [cursor EXCEPT ![consumer] = id]
      /\ UNCHANGED <<now, admin, nextEventId, pending, pruneFloor, events, dedup>>
    BY DEF Acknowledge, EventExists
<1>3. id \in 0..(nextEventId - 1)
    BY <1>1, <1>2 DEF StoreShape
<1>4. StoreShape'
    BY <1>1, <1>2, <1>3 DEF StoreShape
<1>5. KeysShape' /\ PendingShape'
    BY <1>1, <1>2 DEF KeysShape, OneEventPerKey, PendingShape, Unpublished
<1>6. QED
    BY <1>4, <1>5 DEF EventsInv

\* prune removes published events only, all of them below the floor it leaves.
LEMMA EventsInvPrune ==
    ASSUME EventsInv, NEW horizon, NEW limit, Prune(horizon, limit)
    PROVE  EventsInv'
<1> DEFINE sweeps == {n \in 0..limit :
                        /\ pruneFloor + n <= nextEventId
                        /\ \A id \in pruneFloor..(pruneFloor + n - 1) : Removable(id, horizon)}
           floor  == pruneFloor + Max(sweeps)
<1>1. StoreShape /\ KeysShape /\ PendingShape
    BY DEF EventsInv
<1>2. /\ limit \in Nat
      /\ pruneFloor' = floor
      /\ events' = Remove(events, pruneFloor..(floor - 1))
      /\ UNCHANGED <<now, admin, nextEventId, pending, dedup, cursor>>
    BY OutboxEventsConstants DEF Prune
<1>3. Max(sweeps) \in sweeps
    <2>1. 0 \in sweeps
        BY <1>1, <1>2 DEF StoreShape
    <2>2. sweeps \subseteq 0..limit
        OBVIOUS
    <2> HIDE DEF sweeps
    <2>3. \E x \in sweeps : \A y \in sweeps : y <= x
        BY <1>2, <2>1, <2>2, NatGreatest
    <2>4. \E x \in sweeps : \A y \in sweeps : x >= y
        BY <1>2, <2>2, <2>3
    <2>5. QED BY <2>4 DEF Max
<1>4. /\ floor \in pruneFloor..nextEventId
      /\ \A id \in pruneFloor..(floor - 1) : Removable(id, horizon)
    <2> DEFINE m == Max(sweeps)
    <2>1. /\ m \in 0..limit /\ pruneFloor + m <= nextEventId
          /\ \A id \in pruneFloor..(pruneFloor + m - 1) : Removable(id, horizon)
        BY <1>3
    <2> HIDE DEF m
    <2>2. pruneFloor + m \in pruneFloor..nextEventId
        BY <1>1, <1>2, <2>1 DEF StoreShape
    <2>3. floor = pruneFloor + m
        BY DEF m
    <2> HIDE DEF floor
    <2>4. floor \in pruneFloor..nextEventId
        BY <2>2, <2>3
    <2>5. \A id \in pruneFloor..(floor - 1) : Removable(id, horizon)
        <3>1. pruneFloor + m - 1 = floor - 1
            BY <1>1, <2>1, <2>3 DEF StoreShape
        <3>2. QED BY <2>1, <3>1
    <2>6. QED BY <2>4, <2>5
<1> HIDE DEF sweeps, floor
<1>5. /\ DOMAIN events = pruneFloor..(nextEventId - 1)
      /\ events \in [DOMAIN events -> OutboxEvent]
      /\ pruneFloor \in Int /\ nextEventId \in Int /\ 1 <= pruneFloor
    BY <1>1 DEF StoreShape
<1>6. (pruneFloor..(nextEventId - 1)) \ (pruneFloor..(floor - 1)) = floor..(nextEventId - 1)
    BY <1>4, <1>5
<1>7. /\ events' \in [floor..(nextEventId - 1) -> OutboxEvent]
      /\ DOMAIN events' = DOMAIN events \ (pruneFloor..(floor - 1))
      /\ \A x \in DOMAIN events' : events'[x] = events[x]
    BY <1>2, <1>5, <1>6 DEF Remove
<1>8. StoreShape'
    <2>1. floor \in 1..nextEventId
        BY <1>4, <1>5
    <2>2. QED BY <1>1, <1>2, <1>7, <2>1 DEF StoreShape
<1>9. KeysShape'
    BY <1>1, <1>2 DEF KeysShape, OneEventPerKey
<1>10. PendingShape'
    <2>1. \A x \in pruneFloor..(floor - 1) : x \in DOMAIN events => events[x].published_at # 0
        BY <1>4 DEF Removable
    <2>2. Unpublished' = Unpublished
        BY <1>7, <2>1 DEF Unpublished
    <2>3. QED BY <1>1, <1>2, <2>2 DEF PendingShape
<1>11. QED
    BY <1>8, <1>9, <1>10 DEF EventsInv

\* Every step of the event half keeps its invariant.
LEMMA EventsInvNext == ASSUME EventsInv, EventsNext PROVE EventsInv'
<1>1. CASE \E a \in Operators : Initialize(a)
    <2>1. PICK a \in Operators : Initialize(a)
        BY <1>1
    <2>2. QED
        BY <2>1, OutboxEventsConstants
        DEF Initialize, queue, EventsInv, StoreShape, KeysShape, PendingShape, OneEventPerKey, Unpublished
<1>2. CASE \E caller \in Accounts, topic \in Topics, key \in DedupKeys : Enqueue(caller, topic, key)
    BY <1>2, EventsInvEnqueue
<1>3. CASE \E caller \in Accounts, id \in DOMAIN events : MarkPublished(caller, id)
    BY <1>3, EventsInvMarkPublished
<1>4. CASE \E consumer \in Consumers, id \in 0..nextEventId : Acknowledge(consumer, id)
    BY <1>4, EventsInvAcknowledge
<1>5. CASE \E horizon \in 0..MaxTime, limit \in 1..MAX_PRUNE_PER_CALL : Prune(horizon, limit)
    BY <1>5, EventsInvPrune
<1>6. CASE AdvanceTime
    BY <1>6, OutboxEventsConstants
    DEF AdvanceTime, queue, EventsInv, StoreShape, KeysShape, PendingShape, OneEventPerKey, Unpublished
<1>7. QED
    BY <1>1, <1>2, <1>3, <1>4, <1>5, <1>6 DEF EventsNext

\* A step that leaves the event half alone keeps its invariant.
LEMMA EventsInvUnchanged == ASSUME EventsInv, UNCHANGED eventVars PROVE EventsInv'
BY DEF eventVars, queue, EventsInv, StoreShape, KeysShape, PendingShape, OneEventPerKey, Unpublished

\* Every webhook call leaves the event half alone.
LEMMA WebhooksKeepEvents == ASSUME WebhooksNext PROVE UNCHANGED eventVars
<1>1. PICK caller \in Accounts :
        \/ \E owner, url, secret, topics : RegisterEndpoint(caller, owner, url, secret, topics)
        \/ \E ep, secret : RotateSecret(caller, ep, secret)
        \/ \E ep, active : SetEndpointActive(caller, ep, active)
        \/ \E ep, id, sequence, expires_at, outcome :
               RecordDelivery(caller, ep, id, sequence, expires_at, outcome)
        \/ \E ep, sequence : AcknowledgeDelivery(caller, ep, sequence)
    BY Zenon DEF WebhooksNext
<1>2. QED
    BY <1>1, Zenon
    DEF RegisterEndpoint, RotateSecret, SetEndpointActive, RecordDelivery, AcknowledgeDelivery

\* The invariant of the event half implies the properties that are about it.
LEMMA EventsInvImplies == ASSUME EventsInv PROVE BacklogExact /\ OneEventPerKey /\ EventsTypeOK
<1>1. StoreShape /\ KeysShape /\ PendingShape
    BY DEF EventsInv
<1>2. Cardinality(Unpublished) \in Nat
    BY <1>1, UnpublishedFinite
<1>3. BacklogExact /\ OneEventPerKey
    BY <1>1 DEF StoreShape, KeysShape, PendingShape, BacklogExact
<1>4. DOMAIN events \subseteq 1..(nextEventId - 1)
    BY <1>1 DEF StoreShape
<1>5. pending \in 0..MAX_PENDING_EVENTS
    BY <1>1, <1>2, OutboxEventsConstants DEF PendingShape
<1>6. QED
    BY <1>1, <1>3, <1>4, <1>5 DEF StoreShape, KeysShape, EventsTypeOK

\* Every reachable state satisfies the invariant of the event half.
LEMMA EventsInvAlways == Spec => []EventsInv
<1>1. Init => EventsInv
    BY EventsInvInit DEF Init
<1>2. EventsInv /\ [Next]_vars => EventsInv'
    BY EventsInvNext, EventsInvUnchanged, WebhooksKeepEvents DEF Next, vars
<1>3. QED
    BY <1>1, <1>2, PTL DEF Spec

\* The stored backlog counter is exact and the store is a window of ids from the
\* prune floor on, whatever the bounds and however publications, retries and
\* sweeps interleave (mark_published, prune).
THEOREM OutboxBacklog == Spec => []BacklogExact
<1>1. EventsInv => BacklogExact
    BY EventsInvImplies
<1>2. QED BY <1>1, EventsInvAlways, PTL

\* Every id ever handed out has exactly one deduplication key, however late a
\* publisher retries (enqueue).
THEOREM OutboxDeduplicates == Spec => []OneEventPerKey
<1>1. EventsInv => OneEventPerKey
    BY EventsInvImplies
<1>2. QED BY <1>1, EventsInvAlways, PTL

-----------------------------------------------------------------------------
(* The webhook half: one endpoint *)

\* What the contract keeps for one endpoint e: its history d with the counters f
\* (floor) and c (count), its retry counters a and its acknowledged sequence k; n
\* is the next event id.
Typed(e, d, f, c, a, k, n) ==
    /\ e \in WebhookEndpoint
    /\ d \in [DOMAIN d -> DeliveryRecord]
    /\ a \in [DOMAIN a -> Nat] /\ DOMAIN a \subseteq 1..(n - 1)
    /\ f \in Nat /\ c \in Nat /\ k \in Nat

\* HistoryIsWindow for one endpoint, with the fact that a record is counted once.
Window(e, d, f, c) ==
    /\ c <= e.last_sequence /\ c <= MAX_DELIVERY_HISTORY
    /\ DOMAIN d = (e.last_sequence - c + 1)..e.last_sequence
    /\ e.last_sequence > 0 => c > 0 /\ f = e.last_sequence - c + 1
    /\ \A s, t \in DOMAIN d : s <= t => d[s].secret_epoch <= d[t].secret_epoch
    /\ \A s \in DOMAIN d : d[s].secret_epoch <= e.secret_epoch

\* The retained deliveries of event id after the sequence s.
Later(d, s, id) == {t \in DOMAIN d : t > s /\ d[t].event_id = id}

Tries(a, n) == [id \in 1..(n - 1) |-> Get(a, id, 0)]

\* RetryCountsExact for one endpoint.
Counts(e, d, a, n) ==
    /\ e.last_sequence = Sum(Tries(a, n), n - 1)
    /\ \A s \in DOMAIN d :
         d[s].attempt = Get(a, d[s].event_id, 0) - Cardinality(Later(d, s, d[s].event_id))

Acks(e, d, k) ==
    /\ k <= e.last_sequence
    /\ \A s \in DOMAIN d : d[s].acked => s <= k

\* The invariant of one endpoint.
EndpointInv(e, d, f, c, a, k, n) ==
    /\ Typed(e, d, f, c, a, k, n)
    /\ Window(e, d, f, c)
    /\ Counts(e, d, a, n)
    /\ Acks(e, d, k)

\* The retry counter of an event is a natural number, and zero for an event that
\* was never delivered.
LEMMA GetCounter ==
    ASSUME NEW a, a \in [DOMAIN a -> Nat], NEW id
    PROVE  Get(a, id, 0) \in Nat
BY DEF Get

\* A new endpoint has no history.
LEMMA FreshEndpoint ==
    ASSUME NEW owner \in Accounts, NEW topics \in SUBSET Topics, NEW n \in Nat \ {0}
    PROVE  EndpointInv([owner |-> owner, topics |-> topics, active |-> TRUE,
                        secret_epoch |-> 1, last_sequence |-> 0], Empty, 0, 0, Empty, 0, n)
<1> DEFINE e == [owner |-> owner, topics |-> topics, active |-> TRUE,
                 secret_epoch |-> 1, last_sequence |-> 0]
<1>1. e \in WebhookEndpoint /\ e.last_sequence = 0 /\ e.secret_epoch = 1
    BY DEF WebhookEndpoint
<1>2. DOMAIN Empty = {} /\ \A R : Empty \in [{} -> R]
    BY DEF Empty
<1> HIDE DEF e
<1>3. Typed(e, Empty, 0, 0, Empty, 0, n)
    BY <1>1, <1>2 DEF Typed
<1>4. Window(e, Empty, 0, 0)
    BY <1>1, <1>2, OutboxWebhooksConstants DEF Window
<1>5. Counts(e, Empty, Empty, n)
    <2> DEFINE z == Tries(Empty, n)
               m == n - 1
    <2>1. m \in Nat /\ \A i \in 1..m : z[i] = 0
        BY <1>2 DEF Tries, Get
    <2> HIDE DEF z, m
    <2>2. Sum(z, m) = 0
        BY <2>1, SumOfZeros
    <2>3. QED BY <1>1, <1>2, <2>2 DEF Counts, z, m
<1>6. Acks(e, Empty, 0)
    BY <1>1, <1>2 DEF Acks
<1>7. EndpointInv(e, Empty, 0, 0, Empty, 0, n)
    BY <1>3, <1>4, <1>5, <1>6 DEF EndpointInv
<1>8. QED
    BY <1>7 DEF e

\* A new event was not delivered to anyone yet.
LEMMA EndpointInvEnqueue ==
    ASSUME NEW e, NEW d, NEW f, NEW c, NEW a, NEW k, NEW n \in Nat \ {0},
           EndpointInv(e, d, f, c, a, k, n)
    PROVE  EndpointInv(e, d, f, c, a, k, n + 1)
<1>1. Typed(e, d, f, c, a, k, n) /\ Window(e, d, f, c) /\ Counts(e, d, a, n) /\ Acks(e, d, k)
    BY DEF EndpointInv
<1>2. Typed(e, d, f, c, a, k, n + 1)
    BY <1>1 DEF Typed
<1>3. Counts(e, d, a, n + 1)
    <2> DEFINE g == Tries(a, n)
               h == Tries(a, n + 1)
               m == n - 1
    <2>1. m \in Nat /\ n = m + 1 /\ (n + 1) - 1 = m + 1
        OBVIOUS
    <2>2. \A i \in 1..m : g[i] = h[i]
        BY DEF Tries
    <2>3. h[m + 1] = 0
        BY <1>1, <2>1 DEF Typed, Tries, Get
    <2>4. e.last_sequence = Sum(g, m) /\ e.last_sequence \in Nat
        BY <1>1 DEF Counts, Typed, WebhookEndpoint
    <2> HIDE DEF g, h, m
    <2>5. Sum(g, m) = Sum(h, m)
        BY <2>1, <2>2, SumExt
    <2>6. Sum(h, m + 1) = Sum(h, m) + h[m + 1]
        BY <2>1, SumSucc
    <2>7. e.last_sequence = Sum(h, m + 1)
        BY <2>3, <2>4, <2>5, <2>6
    <2>8. e.last_sequence = Sum(Tries(a, n + 1), (n + 1) - 1)
        BY <2>1, <2>7 DEF h
    <2>9. QED BY <1>1, <2>8 DEF Counts
<1>4. QED
    BY <1>1, <1>2, <1>3 DEF EndpointInv

\* rotate_secret and set_endpoint_active leave the history alone, and the secret
\* generation never falls.
LEMMA EndpointInvEdit ==
    ASSUME NEW e, NEW d, NEW f, NEW c, NEW a, NEW k, NEW n, NEW e1,
           EndpointInv(e, d, f, c, a, k, n),
           e1 \in WebhookEndpoint, e1.last_sequence = e.last_sequence,
           e1.secret_epoch >= e.secret_epoch
    PROVE  EndpointInv(e1, d, f, c, a, k, n)
<1>1. Typed(e, d, f, c, a, k, n) /\ Window(e, d, f, c) /\ Counts(e, d, a, n) /\ Acks(e, d, k)
    BY DEF EndpointInv
<1>2. Typed(e1, d, f, c, a, k, n) /\ Counts(e1, d, a, n) /\ Acks(e1, d, k)
    BY <1>1 DEF Typed, Counts, Acks
<1>3. \A s \in DOMAIN d : d[s].secret_epoch <= e1.secret_epoch
    BY <1>1 DEF Typed, Window, WebhookEndpoint, DeliveryRecord
<1>4. Window(e1, d, f, c)
    BY <1>1, <1>3 DEF Window
<1>5. QED
    BY <1>1, <1>2, <1>4 DEF EndpointInv

\* What the sponsor sees of one endpoint in one step: the acknowledged sequence
\* never falls, and a record once acknowledged stays as it is.
AckStep(e1, d, d1, k, k1) ==
    /\ k <= k1 /\ k1 <= e1.last_sequence
    /\ \A s \in DOMAIN d1 :
         /\ d1[s].acked => s <= k1
         /\ s \in DOMAIN d /\ d[s].acked => d1[s] = d[s]

\* acknowledge_delivery marks one record, above everything acknowledged before.
LEMMA EndpointInvAcknowledge ==
    ASSUME NEW e, NEW d, NEW f, NEW c, NEW a, NEW k, NEW n, NEW q,
           EndpointInv(e, d, f, c, a, k, n),
           q \in DOMAIN d, q \in 1..e.last_sequence, ~(q <= k)
    PROVE  LET d1 == [d EXCEPT ![q].acked = TRUE]
           IN  EndpointInv(e, d1, f, c, a, q, n) /\ AckStep(e, d, d1, k, q)
<1> DEFINE d1 == [d EXCEPT ![q].acked = TRUE]
<1>1. Typed(e, d, f, c, a, k, n) /\ Window(e, d, f, c) /\ Counts(e, d, a, n) /\ Acks(e, d, k)
    BY DEF EndpointInv
<1>2. /\ e.last_sequence \in Nat /\ q \in Nat /\ k \in Nat
      /\ DOMAIN d = (e.last_sequence - c + 1)..e.last_sequence /\ c \in Nat
      /\ d \in [DOMAIN d -> DeliveryRecord]
    BY <1>1 DEF Typed, Window, WebhookEndpoint
<1>3. /\ d1 \in [DOMAIN d -> DeliveryRecord] /\ DOMAIN d1 = DOMAIN d
      /\ \A s \in DOMAIN d : s # q => d1[s] = d[s]
      /\ \A s \in DOMAIN d : /\ d1[s].secret_epoch = d[s].secret_epoch
                             /\ d1[s].event_id = d[s].event_id
                             /\ d1[s].attempt = d[s].attempt
    BY <1>2 DEF DeliveryRecord
<1> HIDE DEF d1
<1>4. Typed(e, d1, f, c, a, q, n)
    BY <1>1, <1>2, <1>3 DEF Typed
<1>5. Window(e, d1, f, c)
    BY <1>1, <1>3 DEF Window
<1>6. Counts(e, d1, a, n)
    <2>1. \A s, id : Later(d1, s, id) = Later(d, s, id)
        BY <1>3 DEF Later
    <2>2. QED BY <1>1, <1>3, <2>1 DEF Counts
<1>7. Acks(e, d1, q)
    BY <1>1, <1>2, <1>3 DEF Acks
<1>8. AckStep(e, d, d1, k, q)
    BY <1>1, <1>2, <1>3, <1>7 DEF AckStep, Acks
<1>9. EndpointInv(e, d1, f, c, a, q, n)
    BY <1>4, <1>5, <1>6, <1>7 DEF EndpointInv
<1>10. QED
    BY <1>8, <1>9 DEF d1

\* record_delivery for event id, whether or not the history was full: the history
\* first..last becomes lo..last + 1 with a new record at its end, and the retry
\* counter of the event is one higher.
Recorded(e, d, a, n, e1, d1, a1, first, last, lo, id) ==
    /\ n \in Nat \ {0} /\ id \in 1..(n - 1) /\ last \in Nat
    /\ first \in Int /\ lo \in Int /\ first <= lo /\ lo <= last + 1
    /\ e \in WebhookEndpoint /\ e.last_sequence = last /\ e1.last_sequence = last + 1
    /\ d \in [DOMAIN d -> DeliveryRecord] /\ DOMAIN d = first..last
    /\ DOMAIN d1 = lo..(last + 1)
    /\ \A s \in lo..last : d1[s] = d[s]
    /\ d1[last + 1].event_id = id
    /\ d1[last + 1].attempt = Get(a, id, 0) + 1
    /\ a \in [DOMAIN a -> Nat] /\ a1 = Set(a, id, Get(a, id, 0) + 1)

\* The retry counters stay exact when a delivery is recorded.
LEMMA CountsRecorded ==
    ASSUME NEW e, NEW d, NEW a, NEW n, NEW e1, NEW d1, NEW a1,
           NEW first, NEW last, NEW lo, NEW id,
           Counts(e, d, a, n), Recorded(e, d, a, n, e1, d1, a1, first, last, lo, id)
    PROVE  Counts(e1, d1, a1, n)
<1> USE DEF Recorded
<1> DEFINE more == Get(a, id, 0) + 1
<1>1. last \in Nat /\ Get(a, id, 0) \in Nat
    BY GetCounter DEF WebhookEndpoint
<1>2. Get(a1, id, 0) = more /\ \A i : i # id => Get(a1, i, 0) = Get(a, i, 0)
    BY DEF Get, Set
<1>3. e1.last_sequence = Sum(Tries(a1, n), n - 1)
    <2> DEFINE g == Tries(a, n)
               h == Tries(a1, n)
               m == n - 1
    <2>1. m \in Nat /\ id \in 1..m
        OBVIOUS
    <2>2. \A i \in 1..m : g[i] \in Int /\ h[i] \in Int
        BY <1>1, <1>2, GetCounter DEF Tries
    <2>3. \A i \in 1..m : i # id => g[i] = h[i]
        BY <1>2 DEF Tries
    <2>4. h[id] = g[id] + 1
        BY <1>2 DEF Tries
    <2>5. last = Sum(g, m)
        BY DEF Counts
    <2> HIDE DEF g, h, m
    <2>6. Sum(h, m) = Sum(g, m) + h[id] - g[id]
        BY ONLY <2>1, <2>2, <2>3, SumUpdate, Zenon
    <2>7. g[id] \in Int /\ Sum(g, m) \in Int
        BY <2>1, <2>2, <2>5, <1>1
    <2>8. Sum(h, m) = last + 1
        BY <1>1, <2>4, <2>5, <2>6, <2>7
    <2>9. QED BY <2>8 DEF h, m
<1>4. ASSUME NEW s \in DOMAIN d1
      PROVE  d1[s].attempt = Get(a1, d1[s].event_id, 0) - Cardinality(Later(d1, s, d1[s].event_id))
    <2>1. CASE s = last + 1
        <3>1. Later(d1, s, id) = {}
            BY <1>1, <2>1 DEF Later
        <3>2. Cardinality(Later(d1, s, id)) = 0
            BY <3>1, FS_EmptySet
        <3>3. QED BY <1>1, <1>2, <2>1, <3>2
    <2>2. CASE s # last + 1
        <3> DEFINE i == d[s].event_id
                   was == Later(d, s, i)
        <3>1. s \in lo..last /\ s \in DOMAIN d /\ d1[s] = d[s] /\ s \in Int
            BY <1>1, <2>2
        <3>2. d[s].attempt = Get(a, i, 0) - Cardinality(was)
            BY <3>1 DEF Counts
        <3>3. IsFiniteSet(was) /\ Cardinality(was) \in Nat
            <4>1. IsFiniteSet(DOMAIN d)
                BY <1>1, FS_Interval
            <4>2. was \subseteq DOMAIN d
                BY DEF Later
            <4>3. QED BY <4>1, <4>2, FS_Subset, FS_CardinalityType
        <3>4. CASE i = id
            <4>1. Later(d1, s, i) = was \cup {last + 1} /\ last + 1 \notin was
                BY <1>1, <3>1, <3>4 DEF Later
            <4>2. Cardinality(Later(d1, s, i)) = Cardinality(was) + 1
                <5> DEFINE x == last + 1
                           now_later == Later(d1, s, i)
                <5>1. now_later = was \cup {x} /\ x \notin was
                    BY <4>1
                <5> HIDE DEF x, was, now_later
                <5>2. Cardinality(now_later) = Cardinality(was) + 1
                    BY <3>3, <5>1, FS_AddElement
                <5>3. QED BY <5>2 DEF now_later
            <4>3. Get(a1, i, 0) = Get(a, i, 0) + 1
                BY <1>2, <3>4
            <4>4. Get(a, i, 0) \in Nat
                BY <1>1, <3>4
            <4> HIDE DEF i, was
            <4>5. QED BY <3>1, <3>2, <3>3, <4>2, <4>3, <4>4 DEF i
        <3>5. CASE i # id
            <4>1. Later(d1, s, i) = was
                BY <1>1, <3>1, <3>5 DEF Later
            <4>2. Get(a1, i, 0) = Get(a, i, 0)
                BY <1>2, <3>5
            <4> HIDE DEF i, was
            <4>3. QED BY <3>1, <3>2, <4>1, <4>2 DEF i
        <3>6. QED BY <3>4, <3>5
    <2>3. QED BY <2>1, <2>2
<1>5. QED
    BY <1>3, <1>4 DEF Counts

\* record_delivery as the code writes it: the new record r is stored first, and a
\* full history then drops its oldest one.
Retains(e, d, f, c, a, n, id, outcome, r, e1, d1, f1, c1, a1) ==
    /\ n \in Nat \ {0} /\ id \in 1..(n - 1) /\ outcome \in DeliveryOutcome
    /\ r = [event_id |-> id, secret_epoch |-> e.secret_epoch,
            attempt |-> Get(a, id, 0) + 1, outcome |-> outcome, acked |-> FALSE]
    /\ e1 = [e EXCEPT !.last_sequence = e.last_sequence + 1]
    /\ a1 = Set(a, id, Get(a, id, 0) + 1)
    /\ \/ /\ c >= MAX_DELIVERY_HISTORY
          /\ d1 = Remove(Set(d, e.last_sequence + 1, r), {f})
          /\ f1 = f + 1 /\ c1 = c
       \/ /\ ~(c >= MAX_DELIVERY_HISTORY)
          /\ d1 = Set(d, e.last_sequence + 1, r)
          /\ f1 = IF c = 0 THEN e.last_sequence + 1 ELSE f
          /\ c1 = c + 1

\* The window slides by one when a delivery is recorded: a full history drops its
\* oldest record, and the first record sets the floor (record_delivery).
LEMMA EndpointInvRecord ==
    ASSUME NEW e, NEW d, NEW f, NEW c, NEW a, NEW k, NEW n, NEW id, NEW outcome, NEW r,
           NEW e1, NEW d1, NEW f1, NEW c1, NEW a1,
           EndpointInv(e, d, f, c, a, k, n),
           Retains(e, d, f, c, a, n, id, outcome, r, e1, d1, f1, c1, a1)
    PROVE  EndpointInv(e1, d1, f1, c1, a1, k, n) /\ AckStep(e1, d, d1, k, k)
<1> USE DEF Retains
<1> DEFINE last == e.last_sequence
           next == last + 1
           lo == next - c1 + 1
<1>1. Typed(e, d, f, c, a, k, n) /\ Window(e, d, f, c) /\ Counts(e, d, a, n) /\ Acks(e, d, k)
    BY DEF EndpointInv
<1>2. /\ last \in Nat /\ f \in Nat /\ c \in Nat /\ k \in Nat /\ k <= last
      /\ c <= last /\ c <= MAX_DELIVERY_HISTORY /\ MAX_DELIVERY_HISTORY \in Nat \ {0}
      /\ DOMAIN d = (last - c + 1)..last
      /\ last > 0 => c > 0 /\ f = last - c + 1
    BY <1>1, OutboxWebhooksConstants DEF Typed, Window, Acks, WebhookEndpoint
<1>0. \/ /\ c >= MAX_DELIVERY_HISTORY
         /\ d1 = Remove(Set(d, next, r), {f})
         /\ f1 = f + 1 /\ c1 = c
      \/ /\ ~(c >= MAX_DELIVERY_HISTORY)
         /\ d1 = Set(d, next, r)
         /\ f1 = IF c = 0 THEN next ELSE f
         /\ c1 = c + 1
    OBVIOUS
<1>3. /\ e1 \in WebhookEndpoint /\ e1.last_sequence = next /\ e1.secret_epoch = e.secret_epoch
      /\ e \in WebhookEndpoint /\ next \in Nat
    <2>1. e \in WebhookEndpoint /\ e1 = [e EXCEPT !.last_sequence = next]
        BY <1>1 DEF Typed
    <2>2. next \in Nat
        BY <1>2
    <2> HIDE DEF next
    <2>3. QED BY <2>1, <2>2 DEF WebhookEndpoint
<1>4. /\ r \in DeliveryRecord /\ r.event_id = id /\ r.attempt = Get(a, id, 0) + 1
      /\ r.secret_epoch = e.secret_epoch /\ r.acked = FALSE
    <2>1. Get(a, id, 0) + 1 \in Nat /\ e.secret_epoch \in Nat /\ id \in Nat
        BY <1>1, GetCounter DEF Typed, WebhookEndpoint
    <2>2. QED BY <2>1 DEF DeliveryRecord
<1>5. /\ c1 \in Nat /\ c1 > 0 /\ c1 <= next /\ c1 <= MAX_DELIVERY_HISTORY
      /\ f1 = lo /\ f1 \in Nat /\ lo \in Int /\ last - c + 1 <= lo /\ lo <= next
    <2> HIDE DEF last
    <2>1. CASE c >= MAX_DELIVERY_HISTORY
        BY ONLY <1>0, <1>2, <2>1
    <2>2. CASE ~(c >= MAX_DELIVERY_HISTORY)
        BY ONLY <1>0, <1>2, <2>2
    <2>3. QED BY <2>1, <2>2
<1> HIDE DEF last
<1>6. DOMAIN d1 = lo..next /\ d1[next] = r /\ \A s \in lo..last : d1[s] = d[s]
    <2>1. CASE c >= MAX_DELIVERY_HISTORY
        <3>1. c1 = c /\ f = last - c + 1 /\ f # next /\ d1 = Remove(Set(d, next, r), {f})
            BY ONLY <1>0, <1>2, <2>1
        <3>2. DOMAIN d1 = (((last - c + 1)..last) \cup {next}) \ {f}
            BY <1>2, <3>1 DEF Remove, Set
        <3>3. (((last - c + 1)..last) \cup {next}) \ {f} = lo..next
            BY ONLY <1>2, <3>1
        <3>4. \A s \in lo..next : s # next => s \in DOMAIN d /\ s # f
            BY ONLY <1>2, <3>1
        <3> HIDE DEF next, lo
        <3>5. \A s \in lo..next : d1[s] = IF s = next THEN r ELSE d[s]
            BY <3>1, <3>2, <3>3 DEF Remove, Set
        <3>6. next \in lo..next /\ \A s \in lo..last : s \in lo..next /\ s # next
            BY ONLY <1>2, <1>5 DEF next
        <3>7. QED BY <3>2, <3>3, <3>5, <3>6
    <2>2. CASE ~(c >= MAX_DELIVERY_HISTORY)
        <3>1. c1 = c + 1 /\ d1 = Set(d, next, r)
            BY ONLY <1>0, <1>2, <2>2
        <3>2. ((last - c + 1)..last) \cup {next} = lo..next
            BY ONLY <1>2, <3>1
        <3> HIDE DEF next, lo
        <3>3. DOMAIN d1 = lo..next
            BY <1>2, <3>1, <3>2 DEF Set
        <3>4. \A s \in lo..next : d1[s] = IF s = next THEN r ELSE d[s]
            BY <3>1, <3>3 DEF Set
        <3>5. next \in lo..next /\ \A s \in lo..last : s \in lo..next /\ s # next
            BY ONLY <1>2, <1>5 DEF next
        <3>6. QED BY <3>3, <3>4, <3>5
    <2>3. QED BY <2>1, <2>2
<1>7. \A s \in lo..next : s = next \/ (s \in lo..last /\ s \in DOMAIN d /\ s < next)
    BY ONLY <1>2, <1>5
<1>8. d1 = [s \in DOMAIN d1 |-> d1[s]]
    BY <1>0 DEF Remove, Set
<1> HIDE DEF next, lo
<1>9. d1 \in [DOMAIN d1 -> DeliveryRecord]
    <2>1. \A s \in DOMAIN d1 : d1[s] \in DeliveryRecord
        BY <1>1, <1>4, <1>6, <1>7 DEF Typed
    <2>2. QED BY <1>8, <2>1
<1>10. Typed(e1, d1, f1, c1, a1, k, n)
    <2>1. a1 \in [DOMAIN a1 -> Nat] /\ DOMAIN a1 \subseteq 1..(n - 1)
        <3>1. Get(a, id, 0) + 1 \in Nat
            BY <1>1, GetCounter DEF Typed
        <3>2. QED BY <1>1, <3>1 DEF Typed, Set
    <2>2. QED BY <1>2, <1>3, <1>5, <1>9, <2>1 DEF Typed
<1>11. Window(e1, d1, f1, c1)
    <2>1. \A s \in DOMAIN d1 : d1[s].secret_epoch <= e.secret_epoch
        <3>1. e.secret_epoch <= e.secret_epoch
            BY <1>3 DEF WebhookEndpoint
        <3>2. QED BY <1>1, <1>4, <1>6, <1>7, <3>1 DEF Window
    <2>2. ASSUME NEW s \in DOMAIN d1, NEW t \in DOMAIN d1, s <= t
          PROVE  d1[s].secret_epoch <= d1[t].secret_epoch
        <3>1. CASE t = next
            BY <1>4, <1>6, <2>1, <3>1
        <3>2. CASE t # next
            <4>1. s # next /\ s \in lo..last /\ t \in lo..last /\ s \in DOMAIN d /\ t \in DOMAIN d
                BY <1>3, <1>5, <1>6, <1>7, <2>2, <3>2
            <4>2. QED BY <1>1, <1>6, <2>2, <4>1 DEF Window
        <3>3. QED BY <3>1, <3>2
    <2>3. DOMAIN d1 = (e1.last_sequence - c1 + 1)..e1.last_sequence
        BY <1>3, <1>6 DEF lo
    <2>4. c1 > 0 /\ f1 = e1.last_sequence - c1 + 1
        BY <1>3, <1>5 DEF lo
    <2>5. QED BY <1>3, <1>5, <2>1, <2>2, <2>3, <2>4 DEF Window
<1>12. Counts(e1, d1, a1, n)
    <2>1. last - c + 1 \in Int /\ DOMAIN d = (last - c + 1)..last /\ lo <= last + 1
        BY <1>2, <1>5 DEF next
    <2>2. /\ a \in [DOMAIN a -> Nat] /\ d \in [DOMAIN d -> DeliveryRecord]
          /\ e.last_sequence = last
          /\ e1.last_sequence = last + 1 /\ DOMAIN d1 = lo..(last + 1)
          /\ d1[last + 1].event_id = id /\ d1[last + 1].attempt = Get(a, id, 0) + 1
        BY <1>1, <1>3, <1>4, <1>6 DEF Typed, next, last
    <2>3. Recorded(e, d, a, n, e1, d1, a1, last - c + 1, last, lo, id)
        BY <1>2, <1>3, <1>5, <1>6, <2>1, <2>2 DEF Recorded
    <2>4. QED
        BY ONLY <1>1, <2>3, CountsRecorded
<1>13. Acks(e1, d1, k) /\ AckStep(e1, d, d1, k, k)
    <2>1. k <= e1.last_sequence /\ k <= k
        BY <1>2, <1>3 DEF next
    <2>2. \A s \in DOMAIN d1 : d1[s].acked => s <= k
        BY <1>1, <1>4, <1>6, <1>7 DEF Acks
    <2>3. next \notin DOMAIN d
        BY <1>2 DEF next
    <2>4. \A s \in DOMAIN d1 : s \in DOMAIN d => d1[s] = d[s]
        BY <1>6, <1>7, <2>3
    <2>5. QED BY <2>1, <2>2, <2>4 DEF Acks, AckStep
<1>14. QED
    BY <1>10, <1>11, <1>12, <1>13 DEF EndpointInv

-----------------------------------------------------------------------------
(* The webhook half: all endpoints *)

Histories == UNION {[D -> DeliveryRecord] : D \in SUBSET Nat}
Counters == UNION {[D -> Nat] : D \in SUBSET Nat}

\* Every map of the webhook half has one entry per endpoint.
PerEndpoint ==
    /\ endpoints \in Seq(WebhookEndpoint)
    /\ deliveries \in Seq(Histories) /\ Len(deliveries) = Len(endpoints)
    /\ floorOf \in Seq(Nat) /\ Len(floorOf) = Len(endpoints)
    /\ countOf \in Seq(Nat) /\ Len(countOf) = Len(endpoints)
    /\ attempts \in Seq(Counters) /\ Len(attempts) = Len(endpoints)
    /\ acked \in Seq(Nat) /\ Len(acked) = Len(endpoints)

EndpointAt(ep) ==
    EndpointInv(endpoints[ep], deliveries[ep], floorOf[ep], countOf[ep], attempts[ep],
                acked[ep], nextEventId)

\* The inductive invariant of the webhook half.
WebhooksInv == PerEndpoint /\ \A ep \in Endpoints : EndpointAt(ep)

AckStepAt(ep) ==
    AckStep(endpoints'[ep], deliveries[ep], deliveries'[ep], acked[ep], acked'[ep])

\* A call that writes the entries of one endpoint.
EndpointUpdate(ep, e1, d1, f1, c1, a1, k1) ==
    /\ endpoints' = [endpoints EXCEPT ![ep] = e1]
    /\ deliveries' = [deliveries EXCEPT ![ep] = d1]
    /\ floorOf' = [floorOf EXCEPT ![ep] = f1]
    /\ countOf' = [countOf EXCEPT ![ep] = c1]
    /\ attempts' = [attempts EXCEPT ![ep] = a1]
    /\ acked' = [acked EXCEPT ![ep] = k1]
    /\ UNCHANGED nextEventId

\* The invariant of an endpoint gives every stored value its type.
LEMMA EndpointTypes ==
    ASSUME NEW e, NEW d, NEW f, NEW c, NEW a, NEW k, NEW n,
           EndpointInv(e, d, f, c, a, k, n)
    PROVE  /\ e \in WebhookEndpoint /\ d \in Histories /\ a \in Counters
           /\ f \in Nat /\ c \in Nat /\ k \in Nat
<1>1. Typed(e, d, f, c, a, k, n) /\ Window(e, d, f, c)
    BY DEF EndpointInv
<1>2. DOMAIN d \in SUBSET Nat
    BY <1>1 DEF Typed, Window, WebhookEndpoint
<1>3. d \in Histories
    BY <1>1, <1>2 DEF Typed, Histories
<1>4. DOMAIN a \in SUBSET Nat
    BY <1>1 DEF Typed
<1>5. a \in Counters
    BY <1>1, <1>4 DEF Typed, Counters
<1>6. QED
    BY <1>1, <1>3, <1>5 DEF Typed

\* An acknowledged record of an endpoint that is not touched stays as it is.
LEMMA AckStutter ==
    ASSUME NEW e, NEW d, NEW f, NEW c, NEW a, NEW k, NEW n,
           EndpointInv(e, d, f, c, a, k, n)
    PROVE  AckStep(e, d, d, k, k)
<1>1. k \in Nat /\ Acks(e, d, k)
    BY DEF EndpointInv, Typed
<1>2. k <= k
    BY <1>1
<1>3. QED
    BY <1>1, <1>2 DEF Acks, AckStep

\* A call that writes one endpoint and keeps its invariant keeps them all.
LEMMA EndpointStep ==
    ASSUME WebhooksInv, NEW ep \in Endpoints,
           NEW e1, NEW d1, NEW f1, NEW c1, NEW a1, NEW k1,
           EndpointUpdate(ep, e1, d1, f1, c1, a1, k1),
           EndpointInv(e1, d1, f1, c1, a1, k1, nextEventId),
           AckStep(e1, deliveries[ep], d1, acked[ep], k1)
    PROVE  WebhooksInv' /\ \A q \in Endpoints : AckStepAt(q)
<1>1. /\ e1 \in WebhookEndpoint /\ d1 \in Histories /\ a1 \in Counters
      /\ f1 \in Nat /\ c1 \in Nat /\ k1 \in Nat
    BY EndpointTypes
<1>2. /\ endpoints' \in Seq(WebhookEndpoint) /\ Len(endpoints') = Len(endpoints)
      /\ \A q \in Endpoints : endpoints'[q] = IF q = ep THEN e1 ELSE endpoints[q]
    BY <1>1, ExceptSeq DEF WebhooksInv, PerEndpoint, Endpoints, EndpointUpdate
<1>3. /\ deliveries' \in Seq(Histories) /\ Len(deliveries') = Len(endpoints)
      /\ \A q \in Endpoints : deliveries'[q] = IF q = ep THEN d1 ELSE deliveries[q]
    BY <1>1, ExceptSeq DEF WebhooksInv, PerEndpoint, Endpoints, EndpointUpdate
<1>4. /\ floorOf' \in Seq(Nat) /\ Len(floorOf') = Len(endpoints)
      /\ \A q \in Endpoints : floorOf'[q] = IF q = ep THEN f1 ELSE floorOf[q]
    BY <1>1, ExceptSeq DEF WebhooksInv, PerEndpoint, Endpoints, EndpointUpdate
<1>5. /\ countOf' \in Seq(Nat) /\ Len(countOf') = Len(endpoints)
      /\ \A q \in Endpoints : countOf'[q] = IF q = ep THEN c1 ELSE countOf[q]
    BY <1>1, ExceptSeq DEF WebhooksInv, PerEndpoint, Endpoints, EndpointUpdate
<1>6. /\ attempts' \in Seq(Counters) /\ Len(attempts') = Len(endpoints)
      /\ \A q \in Endpoints : attempts'[q] = IF q = ep THEN a1 ELSE attempts[q]
    BY <1>1, ExceptSeq DEF WebhooksInv, PerEndpoint, Endpoints, EndpointUpdate
<1>7. /\ acked' \in Seq(Nat) /\ Len(acked') = Len(endpoints)
      /\ \A q \in Endpoints : acked'[q] = IF q = ep THEN k1 ELSE acked[q]
    BY <1>1, ExceptSeq DEF WebhooksInv, PerEndpoint, Endpoints, EndpointUpdate
<1>8. PerEndpoint'
    BY <1>2, <1>3, <1>4, <1>5, <1>6, <1>7 DEF PerEndpoint
<1>9. Endpoints' = Endpoints /\ nextEventId' = nextEventId
    BY <1>2 DEF Endpoints, EndpointUpdate
<1>10. ASSUME NEW q \in Endpoints PROVE EndpointAt(q)' /\ AckStepAt(q)
    <2>1. CASE q = ep
        BY <1>2, <1>3, <1>4, <1>5, <1>6, <1>7, <1>9, <2>1 DEF EndpointAt, AckStepAt
    <2>2. CASE q # ep
        <3>1. EndpointAt(q)
            BY DEF WebhooksInv
        <3>2. AckStep(endpoints[q], deliveries[q], deliveries[q], acked[q], acked[q])
            BY <3>1, AckStutter DEF EndpointAt
        <3>3. QED
            BY <1>2, <1>3, <1>4, <1>5, <1>6, <1>7, <1>9, <2>2, <3>1, <3>2
            DEF EndpointAt, AckStepAt
    <2>3. QED BY <2>1, <2>2
<1>11. QED
    BY <1>8, <1>9, <1>10 DEF WebhooksInv

\* Before the first enrolment there is no endpoint.
LEMMA WebhooksInvInit == WebhooksInit => WebhooksInv
<1>1. \A S : <<>> \in Seq(S) /\ Len(<<>>) = 0
    BY EmptySeq
<1>2. QED
    BY <1>1 DEF WebhooksInit, WebhooksInv, PerEndpoint, Endpoints

\* register_endpoint adds an endpoint without a history and touches no other.
LEMMA WebhooksInvRegister ==
    ASSUME WebhooksInv, StoreShape, NEW caller, NEW owner \in Sponsors, NEW url, NEW secret,
           NEW topics \in SUBSET Topics, RegisterEndpoint(caller, owner, url, secret, topics)
    PROVE  WebhooksInv' /\ \A q \in Endpoints : AckStepAt(q)
<1>0. PICK n \in Nat : n = Len(endpoints)
    BY LenProperties DEF WebhooksInv, PerEndpoint
<1> DEFINE new == [owner |-> owner, topics |-> topics, active |-> TRUE,
                   secret_epoch |-> 1, last_sequence |-> 0]
           zero == 0
<1>1. /\ endpoints' = Append(endpoints, new)
      /\ deliveries' = Append(deliveries, Empty) /\ attempts' = Append(attempts, Empty)
      /\ floorOf' = Append(floorOf, zero) /\ countOf' = Append(countOf, zero)
      /\ acked' = Append(acked, zero) /\ nextEventId' = nextEventId
    BY DEF RegisterEndpoint, eventVars, queue
<1>2. owner \in Accounts /\ nextEventId \in Nat \ {0}
    BY OutboxWebhooksConstants DEF StoreShape
<1>3. EndpointInv(new, Empty, zero, zero, Empty, zero, nextEventId)
    BY <1>2, FreshEndpoint
<1> HIDE DEF new, zero
<1>4. new \in WebhookEndpoint /\ Empty \in Histories /\ Empty \in Counters /\ zero \in Nat
    BY <1>3, EndpointTypes
<1>5. /\ endpoints' \in Seq(WebhookEndpoint) /\ Len(endpoints') = n + 1
      /\ endpoints'[n + 1] = new /\ \A q \in 1..n : endpoints'[q] = endpoints[q]
    BY <1>0, <1>1, <1>4, AppendProperties DEF WebhooksInv, PerEndpoint
<1>6. /\ deliveries' \in Seq(Histories) /\ Len(deliveries') = n + 1
      /\ deliveries'[n + 1] = Empty /\ \A q \in 1..n : deliveries'[q] = deliveries[q]
    BY <1>0, <1>1, <1>4, AppendProperties DEF WebhooksInv, PerEndpoint
<1>7. /\ attempts' \in Seq(Counters) /\ Len(attempts') = n + 1
      /\ attempts'[n + 1] = Empty /\ \A q \in 1..n : attempts'[q] = attempts[q]
    BY <1>0, <1>1, <1>4, AppendProperties DEF WebhooksInv, PerEndpoint
<1>8. /\ floorOf' \in Seq(Nat) /\ Len(floorOf') = n + 1
      /\ floorOf'[n + 1] = zero /\ \A q \in 1..n : floorOf'[q] = floorOf[q]
    BY <1>0, <1>1, <1>4, AppendProperties DEF WebhooksInv, PerEndpoint
<1>9. /\ countOf' \in Seq(Nat) /\ Len(countOf') = n + 1
      /\ countOf'[n + 1] = zero /\ \A q \in 1..n : countOf'[q] = countOf[q]
    BY <1>0, <1>1, <1>4, AppendProperties DEF WebhooksInv, PerEndpoint
<1>10. /\ acked' \in Seq(Nat) /\ Len(acked') = n + 1
       /\ acked'[n + 1] = zero /\ \A q \in 1..n : acked'[q] = acked[q]
    BY <1>0, <1>1, <1>4, AppendProperties DEF WebhooksInv, PerEndpoint
<1>11. PerEndpoint'
    BY <1>5, <1>6, <1>7, <1>8, <1>9, <1>10 DEF PerEndpoint
<1>12. Endpoints = 1..n /\ Endpoints' = (1..n) \cup {n + 1}
    BY <1>0, <1>5 DEF Endpoints
<1>13. \A q \in 1..n : EndpointAt(q)' /\ AckStepAt(q)
    <2> SUFFICES ASSUME NEW q \in 1..n PROVE EndpointAt(q)' /\ AckStepAt(q)
        OBVIOUS
    <2>1. EndpointAt(q)
        BY <1>12 DEF WebhooksInv
    <2>2. AckStep(endpoints[q], deliveries[q], deliveries[q], acked[q], acked[q])
        BY <2>1, AckStutter DEF EndpointAt
    <2>3. QED
        BY <1>1, <1>5, <1>6, <1>7, <1>8, <1>9, <1>10, <2>1, <2>2 DEF EndpointAt, AckStepAt
<1>14. EndpointAt(n + 1)'
    BY <1>1, <1>3, <1>5, <1>6, <1>7, <1>8, <1>9, <1>10 DEF EndpointAt
<1>15. QED
    BY <1>11, <1>12, <1>13, <1>14 DEF WebhooksInv

\* Writing back what is stored changes nothing.
LEMMA WriteBack ==
    ASSUME PerEndpoint, NEW ep \in Endpoints
    PROVE  /\ endpoints = [endpoints EXCEPT ![ep] = endpoints[ep]]
           /\ deliveries = [deliveries EXCEPT ![ep] = deliveries[ep]]
           /\ floorOf = [floorOf EXCEPT ![ep] = floorOf[ep]]
           /\ countOf = [countOf EXCEPT ![ep] = countOf[ep]]
           /\ attempts = [attempts EXCEPT ![ep] = attempts[ep]]
           /\ acked = [acked EXCEPT ![ep] = acked[ep]]
<1>1. /\ endpoints \in [Endpoints -> WebhookEndpoint]
      /\ deliveries \in [Endpoints -> Histories]
      /\ floorOf \in [Endpoints -> Nat]
      /\ countOf \in [Endpoints -> Nat]
      /\ attempts \in [Endpoints -> Counters]
      /\ acked \in [Endpoints -> Nat]
    BY LenProperties DEF PerEndpoint, Endpoints
<1>2. QED
    BY <1>1

\* rotate_secret and set_endpoint_active.
LEMMA WebhooksInvEdit ==
    ASSUME WebhooksInv, NEW ep \in Endpoints, NEW e1 \in WebhookEndpoint,
           endpoints' = [endpoints EXCEPT ![ep] = e1],
           e1.last_sequence = endpoints[ep].last_sequence,
           e1.secret_epoch >= endpoints[ep].secret_epoch,
           UNCHANGED <<eventVars, history>>
    PROVE  WebhooksInv' /\ \A q \in Endpoints : AckStepAt(q)
<1>1. EndpointAt(ep)
    BY DEF WebhooksInv
<1>2. EndpointInv(e1, deliveries[ep], floorOf[ep], countOf[ep], attempts[ep], acked[ep], nextEventId)
    BY <1>1, EndpointInvEdit DEF EndpointAt
<1>3. EndpointUpdate(ep, e1, deliveries[ep], floorOf[ep], countOf[ep], attempts[ep], acked[ep])
    BY WriteBack DEF WebhooksInv, EndpointUpdate, eventVars, queue, history
<1>4. AckStep(e1, deliveries[ep], deliveries[ep], acked[ep], acked[ep])
    BY <1>2, AckStutter
<1>5. QED
    BY <1>2, <1>3, <1>4, EndpointStep

\* acknowledge_delivery.
LEMMA WebhooksInvAcknowledge ==
    ASSUME WebhooksInv, NEW ep \in Endpoints, NEW caller, NEW sequence,
           AcknowledgeDelivery(caller, ep, sequence)
    PROVE  WebhooksInv' /\ \A q \in Endpoints : AckStepAt(q)
<1> DEFINE e == endpoints[ep]
           d == deliveries[ep]
           d1 == [d EXCEPT ![sequence].acked = TRUE]
<1>1. EndpointInv(e, d, floorOf[ep], countOf[ep], attempts[ep], acked[ep], nextEventId)
    BY DEF WebhooksInv, EndpointAt
<1>2. /\ sequence \in DOMAIN d /\ sequence \in 1..e.last_sequence /\ ~(sequence <= acked[ep])
      /\ deliveries' = [deliveries EXCEPT ![ep] = d1]
      /\ acked' = [acked EXCEPT ![ep] = sequence]
      /\ UNCHANGED <<endpoints, floorOf, countOf, attempts, nextEventId>>
    BY DEF AcknowledgeDelivery, IsReplay, eventVars, queue
<1>3. /\ EndpointInv(e, d1, floorOf[ep], countOf[ep], attempts[ep], sequence, nextEventId)
      /\ AckStep(e, d, d1, acked[ep], sequence)
    BY <1>1, <1>2, EndpointInvAcknowledge
<1> HIDE DEF d1
<1>4. EndpointUpdate(ep, e, d1, floorOf[ep], countOf[ep], attempts[ep], sequence)
    BY <1>2, WriteBack DEF WebhooksInv, EndpointUpdate
<1>5. QED
    BY <1>3, <1>4, EndpointStep

\* record_delivery.
LEMMA WebhooksInvRecord ==
    ASSUME WebhooksInv, StoreShape, NEW ep \in Endpoints, NEW caller, NEW id, NEW sequence,
           NEW expires_at, NEW outcome \in Outcomes,
           RecordDelivery(caller, ep, id, sequence, expires_at, outcome)
    PROVE  WebhooksInv' /\ \A q \in Endpoints : AckStepAt(q)
<1> DEFINE e == endpoints[ep]
           d == deliveries[ep]
           f == floorOf[ep]
           c == countOf[ep]
           a == attempts[ep]
           r == [event_id |-> id, secret_epoch |-> e.secret_epoch,
                 attempt |-> Get(a, id, 0) + 1, outcome |-> outcome, acked |-> FALSE]
           e1 == [e EXCEPT !.last_sequence = e.last_sequence + 1]
           a1 == Set(a, id, Get(a, id, 0) + 1)
           full == Remove(Set(d, e.last_sequence + 1, r), {f})
           room == Set(d, e.last_sequence + 1, r)
           first == IF c = 0 THEN e.last_sequence + 1 ELSE f
<1>1. EndpointInv(e, d, f, c, a, acked[ep], nextEventId)
    BY DEF WebhooksInv, EndpointAt
<1>2. nextEventId \in Nat \ {0} /\ id \in 1..(nextEventId - 1) /\ outcome \in DeliveryOutcome
    BY OutboxWebhooksConstants DEF StoreShape, RecordDelivery
<1>3. /\ sequence = e.last_sequence + 1
      /\ endpoints' = [endpoints EXCEPT ![ep] = e1]
      /\ attempts' = [attempts EXCEPT ![ep] = a1]
      /\ acked' = acked /\ nextEventId' = nextEventId
      /\ RetainDelivery(ep, sequence, r)
    BY DEF RecordDelivery, NextSequence, NextAttempt, eventVars, queue
<1>4. CASE c >= MAX_DELIVERY_HISTORY
    <2>1. /\ deliveries' = [deliveries EXCEPT ![ep] = full]
          /\ floorOf' = [floorOf EXCEPT ![ep] = f + 1] /\ countOf' = countOf
        BY <1>3, <1>4 DEF RetainDelivery, HistoryFull
    <2>2. /\ EndpointInv(e1, full, f + 1, c, a1, acked[ep], nextEventId)
          /\ AckStep(e1, d, full, acked[ep], acked[ep])
        <3>1. Retains(e, d, f, c, a, nextEventId, id, outcome, r, e1, full, f + 1, c, a1)
            BY <1>2, <1>4 DEF Retains
        <3> HIDE DEF e, d, f, c, a, e1, a1, full, r
        <3>2. QED BY ONLY <1>1, <3>1, EndpointInvRecord
    <2> HIDE DEF e1, a1, full, r
    <2>3. EndpointUpdate(ep, e1, full, f + 1, c, a1, acked[ep])
        BY <1>3, <2>1, WriteBack DEF WebhooksInv, EndpointUpdate
    <2>4. QED BY <2>2, <2>3, EndpointStep
<1>5. CASE ~(c >= MAX_DELIVERY_HISTORY)
    <2>1. /\ deliveries' = [deliveries EXCEPT ![ep] = room]
          /\ floorOf' = [floorOf EXCEPT ![ep] = first]
          /\ countOf' = [countOf EXCEPT ![ep] = c + 1]
        BY <1>3, <1>5 DEF RetainDelivery, HistoryFull
    <2>2. /\ EndpointInv(e1, room, first, c + 1, a1, acked[ep], nextEventId)
          /\ AckStep(e1, d, room, acked[ep], acked[ep])
        <3>1. Retains(e, d, f, c, a, nextEventId, id, outcome, r, e1, room, first, c + 1, a1)
            BY <1>2, <1>5 DEF Retains
        <3> HIDE DEF e, d, f, c, a, e1, a1, room, r, first
        <3>2. QED BY ONLY <1>1, <3>1, EndpointInvRecord
    <2> HIDE DEF e1, a1, room, r, first
    <2>3. EndpointUpdate(ep, e1, room, first, c + 1, a1, acked[ep])
        BY <1>3, <2>1, WriteBack DEF WebhooksInv, EndpointUpdate
    <2>4. QED BY <2>2, <2>3, EndpointStep
<1>6. QED
    BY <1>4, <1>5

-----------------------------------------------------------------------------
(* The two halves together *)

OutboxInv == EventsInv /\ WebhooksInv

\* Every webhook call keeps the invariant and takes no acknowledgement back.
LEMMA WebhooksInvNext ==
    ASSUME OutboxInv, WebhooksNext
    PROVE  WebhooksInv' /\ \A q \in Endpoints : AckStepAt(q)
<1>0. WebhooksInv /\ StoreShape /\ PerEndpoint
    BY DEF OutboxInv, EventsInv, WebhooksInv
<1>1. PICK caller \in Accounts :
        \/ \E owner \in Sponsors, url, secret \in Commitments, topics \in SUBSET Topics :
               RegisterEndpoint(caller, owner, url, secret, topics)
        \/ \E ep \in Endpoints :
               \/ \E secret \in Commitments : RotateSecret(caller, ep, secret)
               \/ \E active \in BOOLEAN : SetEndpointActive(caller, ep, active)
               \/ \E id \in DOMAIN events, sequence \in 0..MaxSequence,
                     expires_at \in Expiries, outcome \in Outcomes :
                      RecordDelivery(caller, ep, id, sequence, expires_at, outcome)
               \/ \E sequence \in 0..MaxSequence : AcknowledgeDelivery(caller, ep, sequence)
    BY Zenon DEF WebhooksNext
<1>2. CASE \E owner \in Sponsors, url, secret \in Commitments, topics \in SUBSET Topics :
               RegisterEndpoint(caller, owner, url, secret, topics)
    BY <1>0, <1>2, WebhooksInvRegister
<1>3. \A ep \in Endpoints : endpoints[ep] \in WebhookEndpoint
    BY <1>0, ElementOfSeq DEF PerEndpoint, Endpoints
<1>4. ASSUME NEW ep \in Endpoints, NEW secret, RotateSecret(caller, ep, secret)
      PROVE  WebhooksInv' /\ \A q \in Endpoints : AckStepAt(q)
    <2> DEFINE e1 == [endpoints[ep] EXCEPT !.secret_epoch = @ + 1]
    <2>1. /\ endpoints' = [endpoints EXCEPT ![ep] = e1]
          /\ UNCHANGED <<eventVars, history>>
        BY <1>4 DEF RotateSecret
    <2>2. /\ e1 \in WebhookEndpoint /\ e1.last_sequence = endpoints[ep].last_sequence
          /\ e1.secret_epoch >= endpoints[ep].secret_epoch
        BY <1>3 DEF WebhookEndpoint
    <2> HIDE DEF e1
    <2>3. QED BY <1>0, <2>1, <2>2, WebhooksInvEdit
<1>5. ASSUME NEW ep \in Endpoints, NEW active \in BOOLEAN, SetEndpointActive(caller, ep, active)
      PROVE  WebhooksInv' /\ \A q \in Endpoints : AckStepAt(q)
    <2> DEFINE e1 == [endpoints[ep] EXCEPT !.active = active]
    <2>1. /\ endpoints' = [endpoints EXCEPT ![ep] = e1]
          /\ UNCHANGED <<eventVars, history>>
        BY <1>5 DEF SetEndpointActive
    <2>2. /\ e1 \in WebhookEndpoint /\ e1.last_sequence = endpoints[ep].last_sequence
          /\ e1.secret_epoch >= endpoints[ep].secret_epoch
        BY <1>3 DEF WebhookEndpoint
    <2> HIDE DEF e1
    <2>3. QED BY <1>0, <2>1, <2>2, WebhooksInvEdit
<1>6. CASE \E ep \in Endpoints, id \in DOMAIN events, sequence \in 0..MaxSequence,
              expires_at \in Expiries, outcome \in Outcomes :
               RecordDelivery(caller, ep, id, sequence, expires_at, outcome)
    BY <1>0, <1>6, WebhooksInvRecord
<1>7. CASE \E ep \in Endpoints, sequence \in 0..MaxSequence :
               AcknowledgeDelivery(caller, ep, sequence)
    BY <1>0, <1>7, WebhooksInvAcknowledge
<1>8. QED
    BY <1>1, <1>2, <1>4, <1>5, <1>6, <1>7

\* A call of the event half leaves the webhook half alone; a new event has no
\* deliveries.
LEMMA WebhooksInvEvents ==
    ASSUME OutboxInv, EventsNext \/ UNCHANGED eventVars, UNCHANGED webhookVars
    PROVE  WebhooksInv' /\ \A q \in Endpoints : AckStepAt(q)
<1>1. nextEventId \in Nat \ {0} /\ WebhooksInv
    BY DEF OutboxInv, EventsInv, StoreShape
<1>2. nextEventId' = nextEventId \/ nextEventId' = nextEventId + 1
    BY Zenon DEF EventsNext, Initialize, Enqueue, MarkPublished, Acknowledge, Prune, AdvanceTime,
                 eventVars, queue
<1>3. /\ endpoints' = endpoints /\ deliveries' = deliveries /\ floorOf' = floorOf
      /\ countOf' = countOf /\ attempts' = attempts /\ acked' = acked
    BY DEF webhookVars, history
<1>4. PerEndpoint' /\ Endpoints' = Endpoints
    BY <1>1, <1>3 DEF WebhooksInv, PerEndpoint, Endpoints
<1>5. ASSUME NEW q \in Endpoints PROVE EndpointAt(q)' /\ AckStepAt(q)
    <2>1. EndpointAt(q)
        BY <1>1 DEF WebhooksInv
    <2>2. EndpointAt(q)'
        <3>1. CASE nextEventId' = nextEventId
            BY <1>3, <2>1, <3>1 DEF EndpointAt
        <3>2. CASE nextEventId' = nextEventId + 1
            <4>1. EndpointInv(endpoints[q], deliveries[q], floorOf[q], countOf[q], attempts[q],
                              acked[q], nextEventId + 1)
                BY <1>1, <2>1, EndpointInvEnqueue DEF EndpointAt
            <4>2. QED BY <1>3, <3>2, <4>1 DEF EndpointAt
        <3>3. QED BY <1>2, <3>1, <3>2
    <2>3. AckStep(endpoints[q], deliveries[q], deliveries[q], acked[q], acked[q])
        BY <2>1, AckStutter DEF EndpointAt
    <2>4. QED BY <1>3, <2>2, <2>3 DEF AckStepAt
<1>6. QED
    BY <1>4, <1>5 DEF WebhooksInv

\* Every step of the outbox keeps the invariant and takes no acknowledgement back.
LEMMA OutboxInvNext ==
    ASSUME OutboxInv, [Next]_vars
    PROVE  OutboxInv' /\ \A q \in Endpoints : AckStepAt(q)
<1>1. EventsInv'
    BY EventsInvNext, EventsInvUnchanged, WebhooksKeepEvents DEF Next, vars, OutboxInv
<1>2. WebhooksInv' /\ \A q \in Endpoints : AckStepAt(q)
    BY WebhooksInvNext, WebhooksInvEvents DEF Next, vars
<1>3. QED
    BY <1>1, <1>2 DEF OutboxInv

\* Every reachable state of the outbox satisfies the invariant of the two halves.
LEMMA OutboxInvAlways == Spec => []OutboxInv
<1>1. Init => OutboxInv
    BY EventsInvInit, WebhooksInvInit DEF Init, OutboxInv
<1>2. OutboxInv /\ [Next]_vars => OutboxInv'
    BY OutboxInvNext
<1>3. QED
    BY <1>1, <1>2, PTL DEF Spec

\* The invariant implies the type invariant the run checks.
LEMMA OutboxInvTypes == ASSUME OutboxInv PROVE TypeOK
<1>1. EventsTypeOK /\ PerEndpoint
    BY EventsInvImplies DEF OutboxInv, WebhooksInv
<1>2. /\ DOMAIN deliveries = Endpoints /\ DOMAIN attempts = Endpoints
      /\ floorOf \in [Endpoints -> Nat] /\ countOf \in [Endpoints -> Nat]
      /\ acked \in [Endpoints -> Nat]
    BY <1>1, LenProperties DEF PerEndpoint, Endpoints
<1>3. ASSUME NEW ep \in Endpoints
      PROVE  /\ \A s \in DOMAIN deliveries[ep] : deliveries[ep][s] \in DeliveryRecord
             /\ DOMAIN attempts[ep] \subseteq 1..(nextEventId - 1)
    BY DEF OutboxInv, WebhooksInv, EndpointAt, EndpointInv, Typed
<1>4. QED
    BY <1>1, <1>2, <1>3 DEF TypeOK, PerEndpoint

\* Every stored value of the outbox keeps its type.
THEOREM OutboxTypeCorrect == Spec => []TypeOK
<1>1. OutboxInv => TypeOK
    BY OutboxInvTypes
<1>2. QED BY <1>1, OutboxInvAlways, PTL

\* The retained history of every endpoint is the gap-free window of its last
\* sequences that its two counters describe, through any number of evictions and
\* for every retention bound (record_delivery).
THEOREM OutboxHistory == Spec => []HistoryIsWindow
<1>1. OutboxInv => HistoryIsWindow
    BY DEF OutboxInv, WebhooksInv, EndpointAt, EndpointInv, Window, HistoryIsWindow
<1>2. QED BY <1>1, OutboxInvAlways, PTL

\* The retry counters of every endpoint add up to its deliveries and number the
\* retained attempts without gaps, although evicted records are gone
\* (record_delivery, get_attempts).
THEOREM OutboxRetries == Spec => []RetryCountsExact
<1>1. OutboxInv => RetryCountsExact
    <2> SUFFICES ASSUME OutboxInv, NEW ep \in Endpoints
                 PROVE  LET d == deliveries[ep] IN
                        /\ endpoints[ep].last_sequence
                             = Sum([id \in 1..(nextEventId - 1) |-> Get(attempts[ep], id, 0)],
                                   nextEventId - 1)
                        /\ \A s \in DOMAIN d :
                             d[s].attempt = Get(attempts[ep], d[s].event_id, 0)
                                 - Cardinality({t \in DOMAIN d : t > s /\ d[t].event_id = d[s].event_id})
        BY DEF RetryCountsExact
    <2>1. Counts(endpoints[ep], deliveries[ep], attempts[ep], nextEventId)
        BY DEF OutboxInv, WebhooksInv, EndpointAt, EndpointInv
    <2>2. QED BY <2>1 DEF Counts, Tries, Later
<1>2. QED BY <1>1, OutboxInvAlways, PTL

\* No call takes a sponsor's acknowledgement back or acknowledges a record twice,
\* and an acknowledged record is never above the acknowledged sequence
\* (acknowledge_delivery).
THEOREM OutboxAcknowledgements == Spec => AcksAreMonotone
<1>1. OutboxInv /\ [Next]_vars => [AcksStep]_vars
    <2> SUFFICES ASSUME OutboxInv, [Next]_vars PROVE AcksStep
        OBVIOUS
    <2>1. \A q \in Endpoints : AckStepAt(q)
        BY OutboxInvNext
    <2>2. QED BY <2>1 DEF AckStepAt, AckStep, AcksStep
<1>2. QED BY <1>1, OutboxInvAlways, PTL DEF Spec, AcksAreMonotone
=============================================================================
