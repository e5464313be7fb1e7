----------------------------- MODULE Agreements ----------------------------
(***************************************************************************)
(* contracts/mentorship-agreements: agreements between a mentor and a      *)
(* mentee, the acceptance of each under a nonce, amendments both approve,  *)
(* and blocks that keep two people from being matched.                     *)
(*                                                                         *)
(* A term is "start", "end" or "price"; cadence, scope and cancellation    *)
(* policy are stored and amended exactly as the price is.                  *)
(***************************************************************************)
EXTENDS Integers, FiniteSets, Functions, Storage

CONSTANTS
    Signers,
    TermTimes, Prices,   \* what a caller may pass, negative prices included
    AmendedTerms,        \* the sets of terms one amendment changes
    MaxAgreements, MaxAmendments, MaxNonce

VARIABLES
    blocks,       \* DataKey::BlockRelation: the <<blocker, blocked>> present
    pacts,        \* DataKey::Agreement: id -> agreement
    acceptances,  \* DataKey::AcceptanceRecord: <<agreement, actor>> -> nonce
    nonces,       \* DataKey::UserNonce
    amendments    \* DataKey::Amendment: id -> amendment

Term == {"start", "end", "price"}
Agreement ==
    [mentor : Signers, mentee : Signers, terms : [Term -> Nat],
     status : {"Pending", "Active", "Completed", "Cancelled"}]
IsAmendment(a) ==
    \E S \in SUBSET Term :
        a \in [agreement : Nat, change : [S -> Nat], approved : SUBSET Signers,
              status : {"Proposed", "Approved", "Activated", "Rejected"}]

pactVars == <<blocks, pacts, acceptances, nonces, amendments>>

Init ==
    /\ blocks = {}
    /\ pacts = Empty
    /\ acceptances = Empty
    /\ nonces = [u \in Signers |-> 0]
    /\ amendments = Empty

-----------------------------------------------------------------------------
(* Blocking *)

BlockUser(blocker, blocked) ==
    /\ blocker # blocked
    /\ <<blocker, blocked>> \notin blocks
    /\ blocks' = blocks \cup {<<blocker, blocked>>}
    /\ UNCHANGED <<pacts, acceptances, nonces, amendments>>

UnblockUser(blocker, blocked) ==
    /\ <<blocker, blocked>> \in blocks
    /\ blocks' = blocks \ {<<blocker, blocked>>}
    /\ UNCHANGED <<pacts, acceptances, nonces, amendments>>

\* MatchingAllowed::Allowed; who of the two blocked the other makes no difference.
CheckMatchingAllowed(user1, user2) == {<<user1, user2>>, <<user2, user1>>} \cap blocks = {}

-----------------------------------------------------------------------------
(* Agreements *)

\* Fault: a negative price is taken.
FaultValidPrice(price) == TRUE
ValidPrice(price) == price >= 0

CreateAgreement(mentor, mentee, start, end, price) ==
    LET id == Cardinality(DOMAIN pacts) + 1 IN
    /\ id <= MaxAgreements
    /\ mentor # mentee
    /\ CheckMatchingAllowed(mentor, mentee)
    /\ start < end
    /\ ValidPrice(price)
    /\ pacts' = Set(pacts, id, [mentor |-> mentor, mentee |-> mentee, status |-> "Pending",
                                terms |-> [start |-> start, end |-> end, price |-> price]])
    /\ UNCHANGED <<blocks, acceptances, nonces, amendments>>

IsParty(who, id) == Has(pacts, id) /\ who \in {pacts[id].mentor, pacts[id].mentee}

\* Fault: the agreement is in force on the first acceptance.
FaultAllAccepted(id, accepted) == TRUE
AllAccepted(id, accepted) ==
    \A who \in {pacts[id].mentor, pacts[id].mentee} : Has(accepted, <<id, who>>)

\* The nonce is spent only if the call succeeds.
AcceptAgreement(actor, id, nonce) ==
    /\ IsParty(actor, id)
    /\ pacts[id].status \in {"Pending", "Active"}
    /\ ~Has(acceptances, <<id, actor>>)
    /\ nonce = nonces[actor] + 1
    /\ nonces' = [nonces EXCEPT ![actor] = nonce]
    /\ acceptances' = Set(acceptances, <<id, actor>>, nonce)
    /\ pacts' = IF AllAccepted(id, acceptances') /\ pacts[id].status = "Pending"
                THEN [pacts EXCEPT ![id].status = "Active"] ELSE pacts
    /\ UNCHANGED <<blocks, amendments>>

CancelAgreement(caller, id) ==
    /\ IsParty(caller, id)
    /\ pacts[id].status \in {"Pending", "Active"}
    /\ pacts' = [pacts EXCEPT ![id].status = "Cancelled"]
    /\ UNCHANGED <<blocks, acceptances, nonces, amendments>>

CompleteAgreement(caller, id) ==
    /\ IsParty(caller, id)
    /\ pacts[id].status = "Active"
    /\ pacts' = [pacts EXCEPT ![id].status = "Completed"]
    /\ UNCHANGED <<blocks, acceptances, nonces, amendments>>

-----------------------------------------------------------------------------
(* Amendments *)

\* The terms a change leaves an agreement with: a change gives some of the terms.
Apply(terms, change) == [t \in DOMAIN terms |-> Get(change, t, terms[t])]

ValuesOf(term) == IF term = "price" THEN Prices ELSE TermTimes
Changes ==
    {change \in UNION {[S -> TermTimes \cup Prices] : S \in AmendedTerms} :
        \A term \in DOMAIN change : change[term] \in ValuesOf(term)}

\* The time range is checked against the agreement as it stands at the proposal.
ProposeAmendment(proposer, id, change) ==
    LET n == Cardinality(DOMAIN amendments) + 1 IN
    /\ n <= MaxAmendments
    /\ IsParty(proposer, id)
    /\ pacts[id].status = "Active"
    /\ ValidPrice(Get(change, "price", 0))
    /\ Apply(pacts[id].terms, change).start < Apply(pacts[id].terms, change).end
    /\ amendments' = Set(amendments, n,
           [agreement |-> id, change |-> change, status |-> "Proposed",
            approved |-> {proposer}])
    /\ UNCHANGED <<blocks, pacts, acceptances, nonces>>

Amended(n) == pacts[amendments[n].agreement]
AmendmentParty(who, n) == Has(amendments, n) /\ IsParty(who, amendments[n].agreement)

ApproveAmendment(approver, n) ==
    LET approved == amendments[n].approved \cup {approver} IN
    /\ AmendmentParty(approver, n)
    /\ amendments[n].status = "Proposed"
    /\ Amended(n).status = "Active"
    /\ approver \notin amendments[n].approved
    /\ amendments' = [amendments EXCEPT ![n].approved = approved,
           ![n].status = IF {Amended(n).mentor, Amended(n).mentee} \subseteq approved
                         THEN "Approved" ELSE @]
    /\ UNCHANGED <<blocks, pacts, acceptances, nonces>>

RejectAmendment(rejector, n) ==
    /\ AmendmentParty(rejector, n)
    /\ amendments[n].status = "Proposed"
    /\ amendments' = [amendments EXCEPT ![n].status = "Rejected"]
    /\ UNCHANGED <<blocks, pacts, acceptances, nonces>>

\* Fault: a party activates an amendment the other has not approved.
FaultReadyToActivate(n) == amendments[n].status \in {"Proposed", "Approved"}
ReadyToActivate(n) == amendments[n].status = "Approved"

ActivateAmendment(caller, n) ==
    /\ AmendmentParty(caller, n)
    /\ ReadyToActivate(n)
    /\ Amended(n).status = "Active"
    /\ pacts' = [pacts EXCEPT ![amendments[n].agreement].terms = Apply(@, amendments[n].change)]
    /\ amendments' = [amendments EXCEPT ![n].status = "Activated"]
    /\ UNCHANGED <<blocks, acceptances, nonces>>

Next ==
    \/ \E u, v \in Signers :
           \/ BlockUser(u, v)
           \/ UnblockUser(u, v)
           \/ \E start, end \in TermTimes, price \in Prices : CreateAgreement(u, v, start, end, price)
    \/ \E u \in Signers, id \in DOMAIN pacts :
           \/ \E nonce \in 1..MaxNonce : AcceptAgreement(u, id, nonce)
           \/ CancelAgreement(u, id)
           \/ CompleteAgreement(u, id)
           \/ \E change \in Changes : ProposeAmendment(u, id, change)
    \/ \E u \in Signers, n \in DOMAIN amendments :
           \/ ApproveAmendment(u, n)
           \/ RejectAmendment(u, n)
           \/ ActivateAmendment(u, n)

-----------------------------------------------------------------------------
(* Properties *)

\* Every stored value stays in its type.
TypeOK ==
    /\ \A id \in DOMAIN pacts : pacts[id] \in Agreement
    /\ \A n \in DOMAIN amendments :
           IsAmendment(amendments[n]) /\ Has(pacts, amendments[n].agreement)

\* An agreement is or was in force only with both parties' acceptances, and no two
\* acceptances of one person carry the same nonce.
InForceByBoth ==
    /\ \A id \in DOMAIN pacts :
           pacts[id].status \in {"Active", "Completed"} =>
               {<<id, pacts[id].mentor>>, <<id, pacts[id].mentee>>} \subseteq DOMAIN acceptances
    /\ \A a, b \in DOMAIN acceptances :
           a[2] = b[2] /\ acceptances[a] = acceptances[b] => a = b

\* The terms of an agreement change only by an amendment that both parties have approved,
\* and only while it is active.
TermsByConsent ==
    [][\A id \in DOMAIN pacts : pacts'[id].terms # pacts[id].terms =>
         /\ pacts[id].status = "Active"
         /\ \E n \in DOMAIN amendments :
                /\ amendments[n].agreement = id
                /\ amendments'[n].status = "Activated"
                /\ amendments[n].status # "Activated"
                /\ {pacts[id].mentor, pacts[id].mentee} \subseteq amendments[n].approved]_pactVars
=============================================================================
