------------------------------- MODULE Outbox -------------------------------
(***************************************************************************)
(* contracts/scholarship-outbox without its settlement part.               *)
(*                                                                         *)
(* Events: the operator enqueues domain events under a deduplication key,  *)
(* the relay marks them published, consumers move their cursors, and a     *)
(* bounded sweep removes published events from the oldest on.              *)
(*                                                                         *)
(* Webhooks: enrolled sponsor endpoints, the bounded history of delivery   *)
(* attempts the operator records for each, and the acknowledgements of the *)
(* endpoint's owner.  Deliveries refer to events that the sweep may remove *)
(* meanwhile.                                                              *)
(*                                                                         *)
(* A storage map is a function whose domain is the keys that are present.  *)
(* A refused call, and a call that returns early without writing, is a     *)
(* stuttering step.  Hashes, correlation ids, sources and creation times   *)
(* are never read by the contract and are left out.                        *)
(***************************************************************************)
EXTENDS Integers, Sequences, FiniteSets, FiniteSetsExt, TLC, Storage

-----------------------------------------------------------------------------
(* Events *)

CONSTANTS
    Accounts,           \* addresses that can sign a transaction
    Operators,          \* accounts that may become the platform operator
    Consumers,          \* accounts that read events and keep a cursor
    NoAddress,          \* an unset DataKey::Admin
    Topics,             \* event topics
    DedupKeys,          \* publisher-chosen idempotency keys
    MAX_PENDING_EVENTS, \* backlog bound of the code
    MAX_PRUNE_PER_CALL, \* sweep bound of the code
    MaxTime             \* bound: ledger timestamp

ASSUME OutboxEventsConstants ==
    /\ Operators \subseteq Accounts /\ Consumers \subseteq Accounts
    /\ NoAddress \notin Accounts
    /\ MAX_PENDING_EVENTS \in Nat
    /\ MAX_PRUNE_PER_CALL \in Nat
    /\ MaxTime \in Nat \ {0}

VARIABLES
    now,         \* env.ledger().timestamp(), positive on a live network
    admin,       \* DataKey::Admin
    nextEventId, \* DataKey::NextEventId
    pending,     \* DataKey::Pending
    pruneFloor,  \* DataKey::PruneFloor
    events,      \* DataKey::Event: the stored events by id
    dedup,       \* DataKey::Dedup: key -> event id
    cursor       \* DataKey::Cursor: consumer -> last acknowledged id, or 0

queue == <<nextEventId, pending, pruneFloor, events, dedup, cursor>>
eventVars == <<now, admin, queue>>

RequireAdmin(caller) == admin # NoAddress /\ caller = admin

OutboxEvent == [topic : Topics, published_at : Nat]

Unpublished == {id \in DOMAIN events : events[id].published_at = 0}

EventsInit ==
    /\ now = 1
    /\ admin = NoAddress
    /\ nextEventId = 1
    /\ pending = 0
    /\ pruneFloor = 1
    /\ events = Empty
    /\ dedup = Empty
    /\ cursor = [c \in Consumers |-> 0]

\* The counters initialize writes are those of EventsInit: nothing can change
\* them before there is an admin.
Initialize(a) ==
    /\ admin = NoAddress
    /\ admin' = a
    /\ UNCHANGED <<now, queue>>

\* Fault: the retry is recognised only while its event is still stored.
FaultIsDuplicate(key) == key \in DOMAIN dedup /\ dedup[key] \in DOMAIN events
\* A retry returns the id of the first call, before any other check.
IsDuplicate(key) == key \in DOMAIN dedup

Enqueue(caller, topic, key) ==
    /\ RequireAdmin(caller)
    /\ ~IsDuplicate(key)
    /\ pending < MAX_PENDING_EVENTS
    /\ events' = Set(events, nextEventId, [topic |-> topic, published_at |-> 0])
    /\ dedup' = Set(dedup, key, nextEventId)
    /\ nextEventId' = nextEventId + 1
    /\ pending' = pending + 1
    /\ UNCHANGED <<now, admin, pruneFloor, cursor>>

AwaitsPublication(id) == id \in DOMAIN events /\ events[id].published_at = 0

MarkPublished(caller, id) ==
    /\ RequireAdmin(caller)
    /\ AwaitsPublication(id)
    /\ events' = [events EXCEPT ![id].published_at = now]
    /\ pending' = IF pending > 0 THEN pending - 1 ELSE 0
    /\ UNCHANGED <<now, admin, nextEventId, pruneFloor, dedup, cursor>>

\* Fault: a cursor may be set to an id that was never enqueued.
FaultEventExists(id) == TRUE
EventExists(id) == id \in DOMAIN events

Acknowledge(consumer, id) ==
    /\ EventExists(id)
    /\ id > cursor[consumer]
    /\ cursor' = [cursor EXCEPT ![consumer] = id]
    /\ UNCHANGED <<now, admin, nextEventId, pending, pruneFloor, events, dedup>>

\* Fault: an event that was never published counts as older than any horizon.
FaultRemovable(id, horizon) == id \in DOMAIN events => events[id].published_at < horizon
Removable(id, horizon) ==
    id \in DOMAIN events =>
        /\ events[id].published_at # 0
        /\ events[id].published_at < horizon

\* The sweep removes the longest run of removable ids from the floor on, at most
\* limit of them, and leaves the floor behind it.
\* The admin argument is compared with the stored admin and not authenticated.
Prune(horizon, limit) ==
    /\ admin # NoAddress
    /\ horizon <= now
    /\ limit \in 1..MAX_PRUNE_PER_CALL
    /\ LET sweeps == {n \in 0..limit :
                        /\ pruneFloor + n <= nextEventId
                        /\ \A id \in pruneFloor..(pruneFloor + n - 1) : Removable(id, horizon)}
           floor  == pruneFloor + Max(sweeps)
       IN  /\ pruneFloor' = floor
           /\ events' = Remove(events, pruneFloor..(floor - 1))
    /\ UNCHANGED <<now, admin, nextEventId, pending, dedup, cursor>>

AdvanceTime ==
    /\ now < MaxTime
    /\ now' = now + 1
    /\ UNCHANGED <<admin, queue>>

EventsNext ==
    \/ \E a \in Operators : Initialize(a)
    \/ \E caller \in Accounts :
           \/ \E topic \in Topics, key \in DedupKeys : Enqueue(caller, topic, key)
           \/ \E id \in DOMAIN events : MarkPublished(caller, id)
    \/ \E consumer \in Consumers, id \in 0..nextEventId : Acknowledge(consumer, id)
    \/ \E horizon \in 0..MaxTime, limit \in 1..MAX_PRUNE_PER_CALL : Prune(horizon, limit)
    \/ AdvanceTime

-----------------------------------------------------------------------------
(* Webhooks *)

CONSTANTS
    Sponsors,             \* accounts that enrol an endpoint
    Commitments,          \* 32-byte hashes callers pass
    ZeroCommitment,       \* the all-zeroes hash
    Expiries,             \* signature expiries callers pass (u64)
    Outcomes,             \* delivery outcomes the relay reports
    MAX_ENDPOINTS,        \* enrolment bound of the code
    MAX_ENDPOINT_TOPICS,  \* subscription bound of the code
    MAX_DELIVERY_HISTORY, \* retention bound of the code
    MaxSequence,          \* bound: delivery attempts per endpoint
    MaxEpoch              \* bound: secret rotations

DeliveryOutcome == {"Delivered", "Failed", "Skipped"}

ASSUME OutboxWebhooksConstants ==
    /\ Sponsors \subseteq Accounts
    /\ Expiries \subseteq Nat
    /\ Outcomes \subseteq DeliveryOutcome
    /\ MAX_ENDPOINTS \in Nat /\ MAX_ENDPOINT_TOPICS \in Nat
    /\ MAX_DELIVERY_HISTORY \in Nat \ {0}
    /\ MaxSequence \in Nat /\ MaxEpoch \in Nat

VARIABLES
    endpoints,  \* DataKey::Endpoint(1..NextEndpointId-1); none is ever removed, so
                \* NextEndpointId - 1 and EnrolledEndpoints are its length
    deliveries, \* DataKey::Delivery(endpoint, sequence)
    floorOf,    \* DataKey::DeliveryFloor(endpoint)
    countOf,    \* DataKey::DeliveryCount(endpoint)
    attempts,   \* DataKey::Attempts(endpoint, event)
    acked       \* DataKey::EndpointAck(endpoint)

history == <<deliveries, floorOf, countOf, attempts, acked>>
webhookVars == <<endpoints, history>>

Endpoints == 1..Len(endpoints)

WebhookEndpoint ==
    [owner : Accounts, topics : SUBSET Topics, active : BOOLEAN,
     secret_epoch : Nat, last_sequence : Nat]

\* The two time stamps and the expiry are only kept for readers; acked is
\* acked_at # 0.
DeliveryRecord ==
    [event_id : Nat, secret_epoch : Nat, attempt : Nat,
     outcome : DeliveryOutcome, acked : BOOLEAN]

RequireCommitment(c) == c # ZeroCommitment

WebhooksInit ==
    /\ endpoints = <<>>
    /\ deliveries = <<>>
    /\ floorOf = <<>>
    /\ countOf = <<>>
    /\ attempts = <<>>
    /\ acked = <<>>

\* A new endpoint has no history: every keyed entry reads as its default.
RegisterEndpoint(caller, owner, url, secret, topics) ==
    /\ RequireAdmin(caller)
    /\ RequireCommitment(url) /\ RequireCommitment(secret)
    /\ topics # {} /\ Cardinality(topics) <= MAX_ENDPOINT_TOPICS
    /\ Len(endpoints) < MAX_ENDPOINTS
    /\ endpoints' = Append(endpoints,
           [owner |-> owner, topics |-> topics, active |-> TRUE,
            secret_epoch |-> 1, last_sequence |-> 0])
    /\ deliveries' = Append(deliveries, Empty)
    /\ floorOf' = Append(floorOf, 0)
    /\ countOf' = Append(countOf, 0)
    /\ attempts' = Append(attempts, Empty)
    /\ acked' = Append(acked, 0)
    /\ UNCHANGED eventVars

RotateSecret(caller, ep, secret) ==
    /\ RequireAdmin(caller)
    /\ RequireCommitment(secret)
    /\ endpoints[ep].secret_epoch < MaxEpoch
    /\ endpoints' = [endpoints EXCEPT ![ep].secret_epoch = @ + 1]
    /\ UNCHANGED <<eventVars, history>>

SetEndpointActive(caller, ep, active) ==
    /\ RequireAdmin(caller)
    /\ endpoints' = [endpoints EXCEPT ![ep].active = active]
    /\ UNCHANGED <<eventVars, history>>

NextSequence(ep) == endpoints[ep].last_sequence + 1

Subscribed(ep, id) == events[id].topic \in endpoints[ep].topics

\* Fault: attempts are numbered per endpoint instead of per event.
FaultNextAttempt(ep, id) == NextSequence(ep)
NextAttempt(ep, id) == Get(attempts[ep], id, 0) + 1

\* Fault: the new record is counted before the bound is tested.
FaultHistoryFull(ep) == countOf[ep] > MAX_DELIVERY_HISTORY
HistoryFull(ep) == countOf[ep] >= MAX_DELIVERY_HISTORY

\* The new record is written first; a full history then drops its oldest one.
RetainDelivery(ep, sequence, record) ==
    LET written == Set(deliveries[ep], sequence, record)
    IN  IF HistoryFull(ep)
        THEN /\ deliveries' = [deliveries EXCEPT ![ep] = Remove(written, {floorOf[ep]})]
             /\ floorOf' = [floorOf EXCEPT ![ep] = @ + 1]
             /\ UNCHANGED countOf
        ELSE /\ deliveries' = [deliveries EXCEPT ![ep] = written]
             /\ floorOf' = [floorOf EXCEPT ![ep] = IF countOf[ep] = 0 THEN sequence ELSE @]
             /\ countOf' = [countOf EXCEPT ![ep] = @ + 1]

RecordDelivery(caller, ep, id, sequence, expires_at, outcome) ==
    /\ RequireAdmin(caller)
    /\ endpoints[ep].active
    /\ sequence = NextSequence(ep)
    /\ sequence <= MaxSequence
    /\ expires_at > now
    /\ id \in DOMAIN events
    /\ outcome = "Skipped" \/ Subscribed(ep, id)
    /\ attempts' = [attempts EXCEPT ![ep] = Set(@, id, NextAttempt(ep, id))]
    /\ RetainDelivery(ep, sequence,
           [event_id |-> id, secret_epoch |-> endpoints[ep].secret_epoch,
            attempt |-> NextAttempt(ep, id), outcome |-> outcome, acked |-> FALSE])
    /\ endpoints' = [endpoints EXCEPT ![ep].last_sequence = sequence]
    /\ UNCHANGED <<eventVars, acked>>

\* Fault: only the very sequence acknowledged last is taken for a replay.
FaultIsReplay(ep, sequence) == sequence = acked[ep]
IsReplay(ep, sequence) == sequence <= acked[ep]

AcknowledgeDelivery(caller, ep, sequence) ==
    /\ caller = endpoints[ep].owner
    /\ sequence \in 1..endpoints[ep].last_sequence
    /\ ~IsReplay(ep, sequence)
    /\ sequence \in DOMAIN deliveries[ep]
    /\ deliveries' = [deliveries EXCEPT ![ep][sequence].acked = TRUE]
    /\ acked' = [acked EXCEPT ![ep] = sequence]
    /\ UNCHANGED <<eventVars, endpoints, floorOf, countOf, attempts>>

WebhooksNext ==
    \E caller \in Accounts :
        \/ \E owner \in Sponsors, url, secret \in Commitments, topics \in SUBSET Topics :
               RegisterEndpoint(caller, owner, url, secret, topics)
        \/ \E ep \in Endpoints :
               \/ \E secret \in Commitments : RotateSecret(caller, ep, secret)
               \/ \E active \in BOOLEAN : SetEndpointActive(caller, ep, active)
               \/ \E id \in DOMAIN events, sequence \in 0..MaxSequence,
                     expires_at \in Expiries, outcome \in Outcomes :
                      RecordDelivery(caller, ep, id, sequence, expires_at, outcome)
               \/ \E sequence \in 0..MaxSequence : AcknowledgeDelivery(caller, ep, sequence)

-----------------------------------------------------------------------------
(* The specification of the two halves together *)

vars == <<eventVars, webhookVars>>

Init == EventsInit /\ WebhooksInit

Next ==
    \/ EventsNext /\ UNCHANGED webhookVars
    \/ WebhooksNext

Spec == Init /\ [][Next]_vars

\* For TLC: topics and deduplication keys are interchangeable.
Interchangeable == Permutations(Topics) \cup Permutations(DedupKeys)

-----------------------------------------------------------------------------
(* Properties *)

\* The part of the type invariant that is about the event half.
EventsTypeOK ==
    /\ now \in 1..MaxTime
    /\ admin \in Accounts \cup {NoAddress}
    /\ nextEventId \in Nat /\ pruneFloor \in 1..nextEventId
    /\ pending \in 0..MAX_PENDING_EVENTS
    /\ DOMAIN events \subseteq 1..(nextEventId - 1)
    /\ \A id \in DOMAIN events : events[id] \in OutboxEvent
    /\ DOMAIN dedup \subseteq DedupKeys
    /\ \A key \in DOMAIN dedup : dedup[key] \in 1..(nextEventId - 1)
    /\ cursor \in [Consumers -> 0..(nextEventId - 1)]

\* The stored pending counter, which bounds the backlog, is the number of stored
\* events still to be published, through any order of publications, retries and
\* sweeps; and the store is exactly the ids from the prune floor on, so that a
\* sweep that stops at an unpublished event never strands or loses one behind
\* the floor (prune: "the floor never overtakes a pending event").
BacklogExact ==
    /\ pending = Cardinality(Unpublished)
    /\ DOMAIN events = pruneFloor..(nextEventId - 1)

\* Every id ever handed out belongs to exactly one deduplication key, also after
\* the event itself was pruned: a publisher that retries, however late, never
\* produces a second event for one state change (enqueue).
OneEventPerKey ==
    /\ \A k, l \in DOMAIN dedup : dedup[k] = dedup[l] => k = l
    /\ {dedup[k] : k \in DOMAIN dedup} = 1..(nextEventId - 1)

\* Every stored value stays in its type; an attempt can only refer to an event id
\* that was handed out, and every per-endpoint map has one entry per endpoint.
TypeOK ==
    /\ EventsTypeOK
    /\ endpoints \in Seq(WebhookEndpoint)
    /\ DOMAIN deliveries = Endpoints /\ DOMAIN attempts = Endpoints
    /\ <<floorOf, countOf, acked>> \in [Endpoints -> Nat] \X [Endpoints -> Nat] \X [Endpoints -> Nat]
    /\ \A ep \in Endpoints :
          /\ \A s \in DOMAIN deliveries[ep] : deliveries[ep][s] \in DeliveryRecord
          /\ DOMAIN attempts[ep] \subseteq 1..(nextEventId - 1)

\* The retained history of an endpoint is always the gap-free window of its last
\* sequences, of at most MAX_DELIVERY_HISTORY records, and the two counters that
\* a sponsor pages by say where it starts and how long it is, through any number
\* of evictions (record_delivery).  Along the window the secret generation never
\* falls.
HistoryIsWindow ==
    \A ep \in Endpoints :
        LET last == endpoints[ep].last_sequence
            d    == deliveries[ep]
        IN  /\ countOf[ep] <= MAX_DELIVERY_HISTORY
            /\ DOMAIN d = (last - countOf[ep] + 1)..last
            /\ last > 0 => countOf[ep] > 0 /\ floorOf[ep] = last - countOf[ep] + 1
            /\ \A s, t \in DOMAIN d : s <= t => d[s].secret_epoch <= d[t].secret_epoch
            /\ \A s \in DOMAIN d : d[s].secret_epoch <= endpoints[ep].secret_epoch

\* Retry counts survive the eviction of the records they count: over all events
\* the attempt counters of an endpoint add up to the number of deliveries ever
\* recorded for it, and the retained attempts of one event are numbered without
\* gaps up to its counter (record_delivery, get_attempts).
RetryCountsExact ==
    \A ep \in Endpoints :
        LET d == deliveries[ep] IN
        /\ endpoints[ep].last_sequence
             = Sum([id \in 1..(nextEventId - 1) |-> Get(attempts[ep], id, 0)], nextEventId - 1)
        /\ \A s \in DOMAIN d :
             d[s].attempt = Get(attempts[ep], d[s].event_id, 0)
                 - Cardinality({t \in DOMAIN d : t > s /\ d[t].event_id = d[s].event_id})

\* One step, seen from the acknowledgements.
AcksStep ==
    \A ep \in Endpoints :
        /\ acked[ep] <= acked'[ep] /\ acked'[ep] <= endpoints'[ep].last_sequence
        /\ \A s \in DOMAIN deliveries'[ep] :
             LET r == deliveries'[ep][s] IN
             /\ r.acked => s <= acked'[ep]
             /\ s \in DOMAIN deliveries[ep] /\ deliveries[ep][s].acked
                  => r = deliveries[ep][s]

\* A sponsor's acknowledgement stands for everything up to it: an acknowledged
\* record is never above the acknowledged sequence, that sequence was really
\* delivered, and no later call takes it back or acknowledges a record a second
\* time (acknowledge_delivery: "a replayed delivery presented a second time is
\* refused").
AcksAreMonotone == [][AcksStep]_vars
=============================================================================
