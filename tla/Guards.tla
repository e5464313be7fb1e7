------------------------------- MODULE Guards -------------------------------
(***************************************************************************)
(* Three contracts that keep a repeated call from taking effect again.     *)
(* Other scholarship services call scholarship-idempotency (a key runs an  *)
(* operation once) and scholarship-rate-limits (how often an actor may act *)
(* in a window) before they act; scholarship-migration has runs that offer *)
(* the records of a legacy system one after the other, map them or report  *)
(* them, and can be interrupted, repeated and rehearsed.                   *)
(*                                                                         *)
(* The model starts after initialize; events and storage TTLs are left     *)
(* out.  A payload stands for the hash and the submission time of a        *)
(* legacy record; program and correlation are stored and never read.       *)
(***************************************************************************)
EXTENDS Integers, Sequences, FiniteSets, FiniteSetsExt, Storage

CONSTANTS
    Actors,
    Operations, IdempotencyKeys, Results, Ttls,
    DEFAULT_KEY_TTL_SECONDS, MAX_KEY_TTL_SECONDS, MAX_PENDING_PER_ACTOR_OP,
    LimitedActions,
    SeededConfigs,               \* action -> the configuration seed_defaults stores
    ActionConfigs,               \* the configurations an administrator sends
    MAX_BUCKETS,
    Admin, Operators,            \* who may call; only the admin succeeds
    Systems, LegacyIds, Payloads,
    NoPayload,                   \* the zero hash
    MAX_RUNS, MAX_TRACKED_RECORDS, MAX_REPORTED_PER_RUN,
    MaxRunId,                    \* bound: runs begun
    MaxCursor                    \* bound: positions in a legacy system

VARIABLES
    now,
    records,       \* idempotency DataKey::Record: <<actor, operation, key>> -> record
    pendingOf,     \* idempotency DataKey::PendingCount: <<actor, operation>> -> count
    actionConfig,  \* rate-limits DataKey::ActionConfig
    serviceAuth,   \* rate-limits DataKey::ServiceAuth: the addresses stored as true
    buckets,       \* rate-limits DataKey::Bucket: <<actor, action, window id>> -> count
    bucketCount,   \* rate-limits DataKey::BucketCount
    runs,          \* migration DataKey::Run: id -> run, ids 1, 2, ...
    openRuns,      \* migration DataKey::OpenRuns
    legacy,        \* migration DataKey::Record: legacy id -> record
    tracked,       \* migration DataKey::TrackedRecords
    unmapped,      \* migration DataKey::UnmappedTotal: run -> count
    reported       \* migration DataKey::Report and UnmappedRetained: run -> the ids kept

keyVars == <<records, pendingOf>>
limitVars == <<actionConfig, serviceAuth, buckets, bucketCount>>
migrationVars == <<runs, openRuns, legacy, tracked, unmapped, reported>>
guardVars == <<keyVars, limitVars, migrationVars>>

KeyStatus == {"Pending", "Succeeded", "Failed"}
NoResult == "zero_hash"
IdempotencyRecord == [status : KeyStatus, created_at : Nat, expires_at : Nat,
                      completed_at : Nat, result_hash : Results \cup {NoResult}]
MigrationRun == [system : Systems, dry : BOOLEAN, cursor : 0..MaxCursor, mapped : Nat,
                 sealed : BOOLEAN]
LegacyRecord == [payload : Payloads \ {NoPayload}, state : {"Mapped", "Archived"}]

Init ==
    /\ records = Empty /\ pendingOf = Empty
    /\ actionConfig = SeededConfigs /\ serviceAuth = {}
    /\ buckets = Empty /\ bucketCount = 0
    /\ runs = Empty /\ openRuns = 0 /\ legacy = Empty
    /\ tracked = 0 /\ unmapped = Empty /\ reported = Empty

-----------------------------------------------------------------------------
(* scholarship-idempotency *)

EffectiveTtl(ttl_seconds) == IF ttl_seconds = 0 THEN DEFAULT_KEY_TTL_SECONDS ELSE ttl_seconds

\* A key that was ever stored is refused, in flight or completed; expires_at is not read.
CreateKey(actor, operation, key, ttl_seconds) ==
    LET pending == Get(pendingOf, <<actor, operation>>, 0)
    IN /\ ttl_seconds <= MAX_KEY_TTL_SECONDS
       /\ ~Has(records, <<actor, operation, key>>)
       /\ pending < MAX_PENDING_PER_ACTOR_OP
       /\ records' = Set(records, <<actor, operation, key>>,
              [status |-> "Pending", created_at |-> now,
               expires_at |-> now + EffectiveTtl(ttl_seconds),
               completed_at |-> 0, result_hash |-> NoResult])
       /\ pendingOf' = Set(pendingOf, <<actor, operation>>, pending + 1)
       /\ UNCHANGED limitVars

InFlight(id) == Has(records, id) /\ records[id].status = "Pending"

\* Fault: a completed key may be completed again.
FaultTransition(actor, operation, key, status, result) ==
    LET id == <<actor, operation, key>>
    IN /\ Has(records, id)
       /\ records' = [records EXCEPT ![id].status = status, ![id].completed_at = now,
                                     ![id].result_hash = result]
       /\ pendingOf' = [pendingOf EXCEPT ![<<actor, operation>>] = IF @ > 0 THEN @ - 1 ELSE 0]
Transition(actor, operation, key, status, result) ==
    LET id == <<actor, operation, key>>
    IN /\ InFlight(id)
       /\ records' = [records EXCEPT ![id].status = status, ![id].completed_at = now,
                                     ![id].result_hash = result]
       /\ pendingOf' = [pendingOf EXCEPT ![<<actor, operation>>] = IF @ > 0 THEN @ - 1 ELSE 0]

CompleteSuccess(actor, operation, key, result) ==
    Transition(actor, operation, key, "Succeeded", result) /\ UNCHANGED limitVars

CompleteFailure(actor, operation, key, result) ==
    Transition(actor, operation, key, "Failed", result) /\ UNCHANGED limitVars

-----------------------------------------------------------------------------
(* scholarship-rate-limits *)

SetActionConfig(action, config) ==
    /\ config.window_seconds > 0 /\ config.max_count > 0
    /\ actionConfig' = [actionConfig EXCEPT ![action] = config]
    /\ UNCHANGED <<serviceAuth, buckets, bucketCount, keyVars>>

GrantServiceAuth(service) ==
    /\ serviceAuth' = serviceAuth \cup {service}
    /\ UNCHANGED <<actionConfig, buckets, bucketCount, keyVars>>

RevokeServiceAuth(service) ==
    /\ serviceAuth' = serviceAuth \ {service}
    /\ UNCHANGED <<actionConfig, buckets, bucketCount, keyVars>>

WindowId(action) == now \div actionConfig[action].window_seconds

Authorized(actor, action) ==
    actionConfig[action].risk_tier \in {"High", "Critical"} => actor \in serviceAuth

\* A bucket is counted when it is first used and never given back; the number of the
\* window does not say how long the window was, so a bucket can be met again after the
\* length has been changed.
CheckAndRecord(actor, action) ==
    LET id == <<actor, action, WindowId(action)>>
        current == Get(buckets, id, 0)
    IN /\ Authorized(actor, action)
       /\ current < actionConfig[action].max_count
       /\ current = 0 => bucketCount < MAX_BUCKETS
       /\ bucketCount' = IF current = 0 THEN bucketCount + 1 ELSE bucketCount
       /\ buckets' = Set(buckets, id, current + 1)
       /\ UNCHANGED <<actionConfig, serviceAuth, keyVars>>

-----------------------------------------------------------------------------
(* scholarship-migration *)

RequireAdmin(operator) == operator = Admin

BeginRun(operator, system, dry) ==
    LET id == Cardinality(DOMAIN runs) + 1 IN
    /\ id <= MaxRunId
    /\ RequireAdmin(operator)
    /\ openRuns < MAX_RUNS
    /\ runs' = Set(runs, id, [system |-> system, dry |-> dry, cursor |-> 0, mapped |-> 0,
                              sealed |-> FALSE])
    /\ openRuns' = openRuns + 1
    /\ UNCHANGED <<legacy, tracked, unmapped, reported>>

\* A position at or before the cursor was offered before: nothing is written.
Accepts(run, cursor) ==
    Has(runs, run) /\ ~runs[run].sealed /\ cursor > runs[run].cursor

\* Fault: an archived record gives up its id, and can be mapped and counted again.
FaultIsTracked(id) == Has(legacy, id) /\ legacy[id].state = "Mapped"
\* The primary key: an archived record still holds its id.
IsTracked(id) == Has(legacy, id)

\* A record that is tracked is compared and passed over, in a rehearsal too.
MapRecord(operator, run, id, system, payload, cursor) ==
    /\ RequireAdmin(operator)
    /\ payload # NoPayload
    /\ Accepts(run, cursor)
    /\ runs[run].system = system
    /\ \/ /\ IsTracked(id)
          /\ legacy[id].payload = payload
          /\ runs' = [runs EXCEPT ![run].cursor = cursor]
          /\ UNCHANGED <<legacy, tracked>>
       \/ /\ ~IsTracked(id)
          /\ tracked < MAX_TRACKED_RECORDS
          /\ runs[run].dry
          /\ runs' = [runs EXCEPT ![run].cursor = cursor]
          /\ UNCHANGED <<legacy, tracked>>
       \/ /\ ~IsTracked(id)
          /\ tracked < MAX_TRACKED_RECORDS
          /\ ~runs[run].dry
          /\ runs' = [runs EXCEPT ![run].cursor = cursor, ![run].mapped = @ + 1]
          /\ legacy' = Set(legacy, id, [payload |-> payload, state |-> "Mapped"])
          /\ tracked' = tracked + 1
    /\ UNCHANGED <<openRuns, unmapped, reported>>

\* The total counts every report, the ids of the first ones are kept.
ReportUnmapped(operator, run, id, cursor) ==
    LET kept == Get(reported, run, <<>>) IN
    /\ RequireAdmin(operator)
    /\ Accepts(run, cursor)
    /\ ~Has(legacy, id)
    /\ unmapped' = Set(unmapped, run, Get(unmapped, run, 0) + 1)
    /\ reported' = IF Len(kept) < MAX_REPORTED_PER_RUN THEN Set(reported, run, Append(kept, id))
                   ELSE reported
    /\ runs' = [runs EXCEPT ![run].cursor = cursor]
    /\ UNCHANGED <<openRuns, legacy, tracked>>

\* Sealing a sealed run is accepted and writes nothing.
SealRun(operator, run) ==
    /\ RequireAdmin(operator)
    /\ Has(runs, run)
    /\ ~runs[run].sealed
    /\ runs' = [runs EXCEPT ![run].sealed = TRUE]
    /\ openRuns' = IF openRuns > 0 THEN openRuns - 1 ELSE 0
    /\ UNCHANGED <<legacy, tracked, unmapped, reported>>

\* The record stays with its id and is no longer counted.
ArchiveRecord(operator, id) ==
    /\ RequireAdmin(operator)
    /\ Has(legacy, id)
    /\ legacy[id].state = "Mapped"
    /\ legacy' = [legacy EXCEPT ![id].state = "Archived"]
    /\ tracked' = IF tracked > 0 THEN tracked - 1 ELSE 0
    /\ UNCHANGED <<runs, openRuns, unmapped, reported>>

-----------------------------------------------------------------------------
KeyNext ==
    /\ \/ \E a \in Actors, op \in Operations, k \in IdempotencyKeys, ttl \in Ttls :
              CreateKey(a, op, k, ttl)
       \/ \E a \in Actors, op \in Operations, k \in IdempotencyKeys, r \in Results :
              \/ CompleteSuccess(a, op, k, r)
              \/ CompleteFailure(a, op, k, r)
    /\ UNCHANGED now

LimitNext ==
    /\ \/ \E action \in LimitedActions, c \in ActionConfigs : SetActionConfig(action, c)
       \/ \E s \in Actors : GrantServiceAuth(s) \/ RevokeServiceAuth(s)
       \/ \E a \in Actors, action \in LimitedActions : CheckAndRecord(a, action)
    /\ UNCHANGED now

MigrationNext ==
    \E operator \in Operators \cup {Admin} :
        \/ \E system \in Systems, dry \in BOOLEAN : BeginRun(operator, system, dry)
        \/ \E run \in 1..MaxRunId, id \in LegacyIds, cursor \in 1..MaxCursor :
               \/ \E system \in Systems, payload \in Payloads :
                      MapRecord(operator, run, id, system, payload, cursor)
               \/ ReportUnmapped(operator, run, id, cursor)
        \/ \E run \in 1..MaxRunId : SealRun(operator, run)
        \/ \E id \in LegacyIds : ArchiveRecord(operator, id)

-----------------------------------------------------------------------------
\* Every stored value has the shape of its Rust type.
TypeOK ==
    /\ records \in [DOMAIN records -> IdempotencyRecord]
    /\ pendingOf \in [DOMAIN pendingOf -> 0..MAX_PENDING_PER_ACTOR_OP]
    /\ DOMAIN actionConfig = LimitedActions
    /\ serviceAuth \subseteq Actors
    /\ buckets \in [DOMAIN buckets -> Nat \ {0}] /\ bucketCount \in 0..MAX_BUCKETS
    /\ \A run \in DOMAIN runs : runs[run] \in MigrationRun
    /\ \A id \in DOMAIN legacy : legacy[id] \in LegacyRecord

\* The pending counter that create_key compares with MAX_PENDING_PER_ACTOR_OP is the number
\* of keys of that actor and operation still in flight, so completing a key always frees
\* exactly the place it took.
InFlightExact ==
    \A p \in DOMAIN pendingOf :
        pendingOf[p] = Cardinality({id \in DOMAIN records :
                           <<id[1], id[2]>> = p /\ records[id].status = "Pending"})

\* One outcome per key: a retry, concurrent or late, never changes the outcome of a key
\* that has succeeded or failed, and no key is ever forgotten.
OneOutcomePerKey ==
    [][\A id \in DOMAIN records :
           /\ id \in DOMAIN records'
           /\ records[id].status # "Pending" => records'[id] = records[id]]_keyVars

\* BucketCount, which closes the whole contract when it reaches MAX_BUCKETS, is the number
\* of buckets: calls in a bucket that is already open never use it up.
BucketsCounted == bucketCount = Cardinality(DOMAIN buckets)

\* However runs are interrupted, repeated and rehearsed, the numbers an operator decides by
\* are exact: each record was mapped by one run, a rehearsal maps nothing, the tables' limits
\* count what is in them, no report is lost from the total, and a run accounts for no more
\* records than the positions it has passed.
MigrationExact ==
    /\ Sum([run \in DOMAIN runs |-> runs[run].mapped], Cardinality(DOMAIN runs)) = Cardinality(DOMAIN legacy)
    /\ openRuns = Cardinality({run \in DOMAIN runs : ~runs[run].sealed})
    /\ tracked = Cardinality({id \in DOMAIN legacy : legacy[id].state = "Mapped"})
    /\ \A run \in DOMAIN runs :
         LET total == Get(unmapped, run, 0) IN
         /\ runs[run].dry => runs[run].mapped = 0
         /\ Len(Get(reported, run, <<>>)) = Min({total, MAX_REPORTED_PER_RUN})
         /\ runs[run].mapped + total <= runs[run].cursor

\* History is kept: a legacy id keeps the content it was mapped with and is never mapped
\* again, a cursor never goes back, and a sealed run changes no more.
HistoryKept ==
    [][/\ \A id \in DOMAIN legacy :
            /\ legacy'[id].payload = legacy[id].payload
            /\ legacy[id].state = "Archived" => legacy'[id].state = "Archived"
       /\ \A run \in DOMAIN runs :
            /\ runs'[run].cursor >= runs[run].cursor
            /\ runs[run].sealed => runs'[run] = runs[run]]_migrationVars
=============================================================================
