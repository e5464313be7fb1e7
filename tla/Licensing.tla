----------------------------- MODULE Licensing -----------------------------
(***************************************************************************)
(* contracts/library_licensing: licenses of works with seats, access       *)
(* grants derived from a license under a one-time enrolment proof, reader  *)
(* sessions and offline grants under an access grant, entitlements of      *)
(* renditions, migrations to a new rendition, seat allocations to sub-     *)
(* accounts, rental offers, role attestations and scheduled revocations.   *)
(*                                                                         *)
(* No operation writes a librarian's capability, so that only the admin    *)
(* passes require_capability.  Ids are numbers in order of creation; a     *)
(* commitment is injective and checked against the values it was made of,  *)
(* so it is left out.                                                      *)
(***************************************************************************)
EXTENDS Integers, Sequences, FiniteSets, Functions, Storage

CONSTANTS
    Admin, Works, Licensees, Learners, Proofs,    \* Proofs: the nonces of enrolment proofs
    LicenseTimes, Spans, SeatCounts, Uses, \* inputs, zero included
    Renditions, AccessModes, MigrationPolicies, Roles,
    MaxLicenses, MaxGrants, MaxDerived, MaxAllocations

VARIABLES
    now,
    licenses,      \* DataKey::License
    enrolled,      \* DataKey::Enrollment: nonce -> <<course, learner>>
    usedProofs,    \* DataKey::NonceUsed
    grants,        \* DataKey::AccessGrant
    renditionMoves,\* DataKey::RenditionMigration: work -> [to, policy]
    optIns,        \* DataKey::GrantMigrationOptIn: the <<grant, work>> present
    entitlements,  \* DataKey::Entitlement: the <<license, rendition, mode>> present
    entitlementKeys, \* DataKey::EntitlementKeys: license -> <<rendition, mode>> in order
    seatLimits,    \* DataKey::AllocationLimit
    seatTotals,    \* DataKey::AllocationTotal
    allocations,   \* DataKey::Allocation
    roleProofs,    \* DataKey::Attestation
    offers,        \* DataKey::Offer
    revocations,   \* DataKey::LicenseRevocation
    readers,       \* DataKey::ReaderSession
    offline        \* DataKey::OfflineGrant

licenseCore == <<licenses, enrolled, usedProofs, grants>>
licenseSide == <<renditionMoves, optIns, entitlements, entitlementKeys>>
seatSide    == <<seatLimits, seatTotals, allocations>>
otherSide   == <<roleProofs, offers, revocations, readers, offline>>
licensingVars == <<licenseCore, licenseSide, seatSide, otherSide>>

Init ==
    /\ licenses = Empty /\ enrolled = Empty /\ usedProofs = {} /\ grants = Empty
    /\ renditionMoves = Empty /\ optIns = {} /\ entitlements = {}
    /\ entitlementKeys = Empty
    /\ seatLimits = Empty /\ seatTotals = Empty /\ allocations = Empty
    /\ roleProofs = Empty /\ offers = Empty /\ revocations = Empty
    /\ readers = Empty /\ offline = Empty

NextId(store) == Cardinality(DOMAIN store) + 1

-----------------------------------------------------------------------------
(* Licenses.  grant_license and mint_institutional_license by the admin. *)

GrantLicense(work, licensee, from, until, seatCount) ==
    /\ NextId(licenses) <= MaxLicenses
    /\ from < until
    /\ seatCount # 0
    /\ licenses' = Set(licenses, NextId(licenses),
           [work |-> work, licensee |-> licensee, from |-> from, until |-> until,
            revoked |-> FALSE, seats |-> seatCount, taken |-> 0])
    /\ UNCHANGED <<enrolled, usedProofs, grants, licenseSide, seatSide, otherSide>>

RevokeLicense(id) ==
    /\ Has(licenses, id)
    /\ ~licenses[id].revoked
    /\ licenses' = [licenses EXCEPT ![id].revoked = TRUE]
    /\ UNCHANGED <<enrolled, usedProofs, grants, licenseSide, seatSide, otherSide>>

\* A second schedule replaces the first, applied or not.
ScheduleLicenseRevocation(id, at) ==
    /\ Has(licenses, id)
    /\ revocations' = Set(revocations, id, [at |-> at, applied |-> FALSE])
    /\ UNCHANGED <<licenseCore, licenseSide, seatSide, roleProofs, offers, readers, offline>>

ApplyLicenseRevocation(id) ==
    /\ Has(revocations, id)
    /\ now >= revocations[id].at
    /\ ~revocations[id].applied
    /\ licenses' = [licenses EXCEPT ![id].revoked = TRUE]
    /\ revocations' = [revocations EXCEPT ![id].applied = TRUE]
    /\ UNCHANGED <<enrolled, usedProofs, grants, licenseSide, seatSide,
                   roleProofs, offers, readers, offline>>

InWindow(l) == now >= l.from /\ now < l.until
IsLicenseActive(id) == ~licenses[id].revoked /\ InWindow(licenses[id])

-----------------------------------------------------------------------------
(* Enrolment proofs and access grants *)

RecordEnrollment(nonce, work, learner) ==
    /\ enrolled' = Set(enrolled, nonce, <<work, learner>>)
    /\ UNCHANGED <<licenses, usedProofs, grants, licenseSide, seatSide, otherSide>>

\* Fault: a proof is accepted however often it was used.
FaultFreshProof(nonce, work, learner) ==
    Has(enrolled, nonce) /\ enrolled[nonce] = <<work, learner>>
\* The proof's own expiry is what the caller says it is; the recorded one is not read.
FreshProof(nonce, work, learner) ==
    /\ Has(enrolled, nonce)
    /\ enrolled[nonce] = <<work, learner>>
    /\ nonce \notin usedProofs

\* Fault: the grant runs for the time asked for, past the license's end.
FaultGrantEnd(l, span) == now + span
GrantEnd(l, span) == IF now + span < l.until THEN now + span ELSE l.until

\* The caller, the licensee or the admin, is the learner of the proof; the grantee is anyone.
DeriveAccessGrant(caller, id, grantee, span, nonce) ==
    LET l == licenses[id] IN
    /\ NextId(grants) <= MaxGrants
    /\ span # 0
    /\ Has(licenses, id)
    /\ caller \in {l.licensee, Admin}
    /\ FreshProof(nonce, l.work, caller)
    /\ IsLicenseActive(id)
    /\ usedProofs' = usedProofs \cup {nonce}
    /\ grants' = Set(grants, NextId(grants),
           [license |-> id, grantee |-> grantee, from |-> now, until |-> GrantEnd(l, span)])
    /\ UNCHANGED <<licenses, enrolled, licenseSide, seatSide, otherSide>>

\* Fault: an access grant outlives the revocation of its license.
FaultIsGrantActive(g) == Has(grants, g) /\ InWindow(grants[g])
IsGrantActive(g) ==
    /\ Has(grants, g)
    /\ IsLicenseActive(grants[g].license)
    /\ InWindow(grants[g])

CreateReaderSession(g, span) ==
    /\ NextId(readers) <= MaxDerived
    /\ span # 0
    /\ IsGrantActive(g)
    /\ now + span <= grants[g].until
    /\ readers' = Set(readers, NextId(readers), [grant |-> g, until |-> now + span])
    /\ UNCHANGED <<licenseCore, licenseSide, seatSide, roleProofs, offers, revocations, offline>>

CreateOfflineGrant(g, until, uses) ==
    /\ NextId(offline) <= MaxDerived
    /\ uses # 0
    /\ IsGrantActive(g)
    /\ until > now /\ until <= grants[g].until
    /\ offline' = Set(offline, NextId(offline),
           [grant |-> g, until |-> until, max |-> uses, used |-> 0, active |-> TRUE])
    /\ UNCHANGED <<licenseCore, licenseSide, seatSide, roleProofs, offers, revocations, readers>>

ConsumeOfflineGrant(o) ==
    LET r == offline[o] IN
    /\ Has(offline, o)
    /\ r.active
    /\ now < r.until
    /\ r.used < r.max
    /\ IsGrantActive(r.grant)
    /\ offline' = [offline EXCEPT ![o].used = @ + 1, ![o].active = r.used + 1 # r.max]
    /\ UNCHANGED <<licenseCore, licenseSide, seatSide, roleProofs, offers, revocations, readers>>

-----------------------------------------------------------------------------
(* Renditions: migrations and entitlements *)

ProposeRenditionMigration(from, to, policy) ==
    /\ from # to
    /\ ~Has(renditionMoves, from)
    /\ renditionMoves' = Set(renditionMoves, from, [to |-> to, policy |-> policy])
    /\ UNCHANGED <<licenseCore, optIns, entitlements, entitlementKeys, seatSide, otherSide>>

WorkOf(g) == licenses[grants[g].license].work

AcceptRenditionMigration(g, to) ==
    /\ Has(grants, g)
    /\ Has(renditionMoves, WorkOf(g))
    /\ renditionMoves[WorkOf(g)] = [to |-> to, policy |-> "OptIn"]
    /\ optIns' = optIns \cup {<<g, to>>}
    /\ UNCHANGED <<licenseCore, renditionMoves, entitlements, entitlementKeys, seatSide, otherSide>>

IsGrantActiveForWork(g, work) ==
    /\ IsGrantActive(g)
    /\ \/ work = WorkOf(g)
       \/ /\ Has(renditionMoves, WorkOf(g))
          /\ renditionMoves[WorkOf(g)].to = work
          /\ renditionMoves[WorkOf(g)].policy = "Forced" \/ <<g, work>> \in optIns

KeysOf(id) == Get(entitlementKeys, id, <<>>)

GrantEntitlement(id, rendition, mode) ==
    /\ Has(licenses, id)
    /\ ~licenses[id].revoked
    /\ <<id, rendition, mode>> \notin entitlements
    /\ entitlements' = entitlements \cup {<<id, rendition, mode>>}
    /\ entitlementKeys' = Set(entitlementKeys, id, Append(KeysOf(id), <<rendition, mode>>))
    /\ UNCHANGED <<licenseCore, renditionMoves, optIns, seatSide, otherSide>>

\* The list without the first entry of the pair, if it has one.
WithoutFirst(keys, pair) ==
    LET first == CHOOSE p \in DOMAIN keys :
                     keys[p] = pair /\ \A q \in DOMAIN keys : keys[q] = pair => p <= q
    IN  IF \E p \in DOMAIN keys : keys[p] = pair
        THEN [p \in 1..(Len(keys) - 1) |-> IF p < first THEN keys[p] ELSE keys[p + 1]]
        ELSE keys

RevokeEntitlement(id, rendition, mode) ==
    /\ <<id, rendition, mode>> \in entitlements
    /\ entitlements' = entitlements \ {<<id, rendition, mode>>}
    /\ entitlementKeys' = Set(entitlementKeys, id,
                              WithoutFirst(KeysOf(id), <<rendition, mode>>))
    /\ UNCHANGED <<licenseCore, renditionMoves, optIns, seatSide, otherSide>>

-----------------------------------------------------------------------------
(* Seats *)

AllocateSeat(id) ==
    /\ Has(licenses, id)
    /\ IsLicenseActive(id)
    /\ licenses[id].taken < licenses[id].seats
    /\ licenses' = [licenses EXCEPT ![id].taken = @ + 1]
    /\ UNCHANGED <<enrolled, usedProofs, grants, licenseSide, seatSide, otherSide>>

ReleaseSeat(id) ==
    /\ Has(licenses, id)
    /\ licenses[id].taken # 0
    /\ licenses' = [licenses EXCEPT ![id].taken = @ - 1]
    /\ UNCHANGED <<enrolled, usedProofs, grants, licenseSide, seatSide, otherSide>>

\* The licensee sets the limit, above the license's seats if it likes.
SetAllocationLimit(id, limit) ==
    /\ limit # 0
    /\ Has(licenses, id)
    /\ limit >= Get(seatTotals, id, 0)
    /\ seatLimits' = Set(seatLimits, id, limit)
    /\ UNCHANGED <<licenseCore, licenseSide, seatTotals, allocations, otherSide>>

AllocateSeats(id, n) ==
    LET total == Get(seatTotals, id, 0) + n IN
    /\ NextId(allocations) <= MaxAllocations
    /\ n # 0
    /\ Has(licenses, id)
    /\ IsLicenseActive(id)
    /\ Has(seatLimits, id)
    /\ total <= seatLimits[id]
    /\ allocations' = Set(allocations, NextId(allocations),
                          [license |-> id, seats |-> n, active |-> TRUE])
    /\ seatTotals' = Set(seatTotals, id, total)
    /\ UNCHANGED <<licenseCore, licenseSide, seatLimits, otherSide>>

IsAllocated(a) == Has(allocations, a) /\ allocations[a].active

SatSub(m, n) == IF m > n THEN m - n ELSE 0
RevokeAllocation(a) ==
    /\ IsAllocated(a)
    /\ allocations' = [allocations EXCEPT ![a].active = FALSE]
    /\ seatTotals' = Set(seatTotals, allocations[a].license,
                         SatSub(Get(seatTotals, allocations[a].license, 0), allocations[a].seats))
    /\ UNCHANGED <<licenseCore, licenseSide, seatLimits, otherSide>>

-----------------------------------------------------------------------------
(* Role attestations and rental offers *)

IssueAttestation(subject, role, until) ==
    /\ NextId(roleProofs) <= MaxDerived
    /\ until > now
    /\ roleProofs' = Set(roleProofs, NextId(roleProofs),
           [subject |-> subject, role |-> role, until |-> until, active |-> TRUE])
    /\ UNCHANGED <<licenseCore, licenseSide, seatSide, offers, revocations, readers, offline>>

RevokeAttestation(a) ==
    /\ Has(roleProofs, a)
    /\ roleProofs[a].active
    /\ roleProofs' = [roleProofs EXCEPT ![a].active = FALSE]
    /\ UNCHANGED <<licenseCore, licenseSide, seatSide, offers, revocations, readers, offline>>

CreateRentalOffer(work, buyer, from, until) ==
    /\ NextId(offers) <= MaxDerived
    /\ from < until
    /\ until > now
    /\ offers' = Set(offers, NextId(offers),
           [work |-> work, buyer |-> buyer, from |-> from, until |-> until, accepted |-> FALSE])
    /\ UNCHANGED <<licenseCore, licenseSide, seatSide, roleProofs, revocations, readers, offline>>

\* The license of a rental is written without its seat counts; it has none here.
AcceptRentalOffer(o) ==
    /\ Has(offers, o)
    /\ NextId(licenses) <= MaxLicenses
    /\ ~offers[o].accepted
    /\ InWindow(offers[o])
    /\ offers' = [offers EXCEPT ![o].accepted = TRUE]
    /\ licenses' = Set(licenses, NextId(licenses),
           [work |-> offers[o].work, licensee |-> offers[o].buyer, from |-> now,
            until |-> offers[o].until, revoked |-> FALSE, seats |-> 0, taken |-> 0])
    /\ UNCHANGED <<enrolled, usedProofs, grants, licenseSide, seatSide,
                   roleProofs, revocations, readers, offline>>

\* The steps of a license itself ...
LicenseNext ==
    \/ \E work \in Works, licensee \in Licensees, from, until \in LicenseTimes, n \in SeatCounts :
           GrantLicense(work, licensee, from, until, n)
    \/ \E id \in DOMAIN licenses :
           \/ RevokeLicense(id)
           \/ \E at \in LicenseTimes : ScheduleLicenseRevocation(id, at)
           \/ ApplyLicenseRevocation(id)

\* ... of the access derived from it ...
AccessNext ==
    \/ \E nonce \in Proofs, work \in Works, learner \in Licensees \cup {Admin} :
           RecordEnrollment(nonce, work, learner)
    \/ \E id \in DOMAIN licenses, caller \in Licensees \cup {Admin}, grantee \in Learners,
          span \in Spans, nonce \in Proofs : DeriveAccessGrant(caller, id, grantee, span, nonce)

\* ... of reading under an access grant, and of moving it to another rendition ...
ReaderNext ==
    \/ \E g \in DOMAIN grants :
           \/ \E span \in Spans : CreateReaderSession(g, span)
           \/ \E until \in LicenseTimes, uses \in Uses : CreateOfflineGrant(g, until, uses)
    \/ \E o \in DOMAIN offline : ConsumeOfflineGrant(o)

MigrationNext ==
    \/ \E from, to \in Works, policy \in MigrationPolicies :
           ProposeRenditionMigration(from, to, policy)
    \/ \E g \in DOMAIN grants, to \in Works : AcceptRenditionMigration(g, to)

\* ... and of the records kept beside it, which the steps before do not read.
HoldingsNext ==
    \/ \E id \in DOMAIN licenses :
           \/ AllocateSeat(id)
           \/ ReleaseSeat(id)
           \/ \E n \in SeatCounts : SetAllocationLimit(id, n) \/ AllocateSeats(id, n)
           \/ \E rendition \in Renditions, mode \in AccessModes :
                  GrantEntitlement(id, rendition, mode) \/ RevokeEntitlement(id, rendition, mode)
    \/ \E a \in DOMAIN allocations : RevokeAllocation(a)

OfferNext ==
    \/ \E work \in Works, buyer \in Licensees, from, until \in LicenseTimes :
           CreateRentalOffer(work, buyer, from, until)
    \/ \E o \in DOMAIN offers : AcceptRentalOffer(o)
    \/ \E subject \in Learners, role \in Roles, until \in LicenseTimes :
           IssueAttestation(subject, role, until)
    \/ \E a \in DOMAIN roleProofs : RevokeAttestation(a)

-----------------------------------------------------------------------------
(* Properties *)

\* Every stored value stays in its type.
TypeOK ==
    /\ \A id \in DOMAIN licenses : licenses[id].taken \in Nat /\ licenses[id].revoked \in BOOLEAN
    /\ \A g \in DOMAIN grants : Has(licenses, grants[g].license)
    /\ \A o \in DOMAIN offline : Has(grants, offline[o].grant)

\* What is derived never outlasts what it is derived from: a session or an offline grant
\* ends with its access grant at the latest, and the access grant with the license; and
\* every access grant consumed a proof of its own (derive_access_grant).
DerivedWithin ==
    /\ \A g \in DOMAIN grants : grants[g].until <= licenses[grants[g].license].until
    /\ \A r \in DOMAIN readers : readers[r].until <= grants[readers[r].grant].until
    /\ \A o \in DOMAIN offline : offline[o].until <= grants[offline[o].grant].until
    /\ Cardinality(DOMAIN grants) = Cardinality(usedProofs)

\* Seats: no more taken than licensed, and an institution's total is the sum of the
\* allocations in force, within its limit; the list of entitlements names each one once.
HoldingsExact ==
    /\ \A id \in DOMAIN licenses :
           LET inForce == {a \in DOMAIN allocations :
                               allocations[a].active /\ allocations[a].license = id} IN
           /\ licenses[id].taken <= licenses[id].seats
           /\ Get(seatTotals, id, 0) =
                  SumFunctionOnSet([a \in DOMAIN allocations |-> allocations[a].seats], inForce)
           /\ Has(seatTotals, id) => seatTotals[id] <= seatLimits[id]
           /\ {<<id, KeysOf(id)[k][1], KeysOf(id)[k][2]>> : k \in DOMAIN KeysOf(id)}
                = {e \in entitlements : e[1] = id}
           /\ Len(KeysOf(id)) = Cardinality({e \in entitlements : e[1] = id})

\* A revocation is final and cuts off everything derived: under a revoked license no
\* grant, session, offline grant or use of one is added any more.
RevocationCuts ==
    [][\A id \in DOMAIN licenses : licenses[id].revoked =>
         /\ licenses'[id].revoked
         /\ \A g \in DOMAIN grants' : grants'[g].license = id => Has(grants, g)
         /\ \A r \in DOMAIN readers' : grants'[readers'[r].grant].license = id => Has(readers, r)
         /\ \A o \in DOMAIN offline' : grants'[offline'[o].grant].license = id =>
                Has(offline, o) /\ offline'[o].used = offline[o].used]_licensingVars
=============================================================================
