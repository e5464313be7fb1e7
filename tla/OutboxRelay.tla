---------------------------- MODULE OutboxRelay ----------------------------
(***************************************************************************)
(* The relay beside the outbox.  It reads the digest of a delivery from    *)
(* the contract (delivery_payload, a view), signs and sends it, and        *)
(* afterwards reports the attempt with record_delivery.  The three are     *)
(* separate steps, so anything may happen to the endpoint in between.      *)
(***************************************************************************)
EXTENDS Outbox

CONSTANTS
    NoDigest,          \* the relay holds no digest
    MAX_SIGNATURE_TTL  \* longest signature window of the code

VARIABLES
    held,   \* the envelope the relay has signed and not yet reported
    signed  \* history: (endpoint, sequence) -> secret generation of the reported signature

relayVars == <<vars, held, signed>>

\* check_expiry
CheckExpiry(expires_at) ==
    /\ expires_at >= now
    /\ expires_at - now <= MAX_SIGNATURE_TTL

DeliveryPayload(ep, id, sequence, expires_at) ==
    /\ held = NoDigest
    /\ endpoints[ep].active
    /\ sequence = NextSequence(ep)
    /\ CheckExpiry(expires_at)
    /\ id \in DOMAIN events
    /\ held' = [endpoint_id |-> ep, secret_epoch |-> endpoints[ep].secret_epoch,
                event_id |-> id, sequence |-> sequence, expires_at |-> expires_at]
    /\ UNCHANGED <<vars, signed>>

Report(outcome) ==
    /\ held # NoDigest
    /\ RecordDelivery(admin, held.endpoint_id, held.event_id, held.sequence,
                      held.expires_at, outcome)
    /\ signed' = Set(signed, <<held.endpoint_id, held.sequence>>, held.secret_epoch)
    /\ held' = NoDigest

RelayInit == Init /\ held = NoDigest /\ signed = Empty

RelayNext ==
    \/ \E ep \in Endpoints, id \in DOMAIN events, sequence \in 0..MaxSequence,
          expires_at \in Expiries : DeliveryPayload(ep, id, sequence, expires_at)
    \/ \E outcome \in Outcomes : Report(outcome)
    \/ Next /\ UNCHANGED <<held, signed>>

RelaySpec == RelayInit /\ [][RelayNext]_relayVars

\* DeliveryRecord.secret_epoch is documented as "The secret generation that
\* signed it": the record of a reported attempt names the generation of the
\* digest the relay signed, also when the secret was rotated before the report.
EpochIsTheSigners ==
    \A ep \in Endpoints : \A s \in DOMAIN deliveries[ep] :
        <<ep, s>> \in DOMAIN signed => deliveries[ep][s].secret_epoch = signed[<<ep, s>>]
=============================================================================
