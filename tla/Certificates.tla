---------------------------- MODULE Certificates ----------------------------
(***************************************************************************)
(* certificates: soul-bound course certificates minted from a proof the    *)
(* backend signed or by the minter, revoked by the administrator, and the  *)
(* two-step changes of administrator, backend key and minter.  The model   *)
(* starts after init; events, TTLs and the contract upgrade are left out.  *)
(* A proof is the key that signed it and the fields it covers; a call with *)
(* any other bytes fails.  transfer always fails: every certificate is     *)
(* soul-bound.                                                             *)
(***************************************************************************)
EXTENDS Integers, FiniteSets, Storage

CONSTANTS
    CertAdmins,                  \* people who may become administrator
    FirstAdmin, BackendKeys, FirstKey, Minters, FirstMinter,
    Recipients, CertCourses, Nonces,
    ProofTimes,                  \* the expiry times of the proofs issued
    ADMIN_TRANSFER_TTL, ROTATION_PROPOSAL_TTL,
    MaxTokens                    \* bound on the certificates minted in a behaviour

VARIABLES
    now,
    certAdmin,     \* DataKey::Admin
    certPaused,    \* DataKey::Paused
    certificates,  \* DataKey::Certificate: <<recipient, course>> -> token id
    backendKey,    \* DataKey::BackendPubKey
    certMinter,    \* DataKey::Minter
    pendingAdmin,  \* DataKey::PendingAdmin and PendingAdminExpiry: at most one record
    pendingKey,    \* DataKey::PendingBackendPubKey and its expiry
    pendingMinter, \* DataKey::PendingMinter and its expiry
    nextTokenId,   \* DataKey::NextTokenId
    usedNonces,    \* DataKey::ConsumedNonce
    mintedBy       \* history: token id -> how it was minted

roleVars == <<certAdmin, backendKey, certMinter, pendingAdmin, pendingKey, pendingMinter>>
tokenVars == <<certificates, nextTokenId, usedNonces, mintedBy>>
certificateVars == <<certPaused, roleVars, tokenVars>>

Proposal(S) == [who : S, expiry : Nat]

Init ==
    /\ certAdmin = FirstAdmin /\ backendKey = FirstKey /\ certMinter = FirstMinter
    /\ certPaused = FALSE
    /\ pendingAdmin = {} /\ pendingKey = {} /\ pendingMinter = {}
    /\ certificates = Empty /\ nextTokenId = 0 /\ usedNonces = {} /\ mintedBy = Empty

-----------------------------------------------------------------------------
TogglePause(paused) == certPaused' = paused /\ UNCHANGED <<roleVars, tokenVars>>

\* A new certificate takes the next token id; none exists for the recipient and course.
SaveCertificate(recipient, course, how) ==
    /\ nextTokenId < MaxTokens
    /\ ~Has(certificates, <<recipient, course>>)
    /\ certificates' = Set(certificates, <<recipient, course>>, nextTokenId)
    /\ nextTokenId' = nextTokenId + 1
    /\ mintedBy' = Set(mintedBy, nextTokenId, how)
    /\ UNCHANGED <<certPaused, roleVars>>

\* A signature over these fields verifies exactly under the key that made it.
VerifyBackendProof(proof) == proof.key = backendKey

\* Fault: the nonce is not recorded.
FaultConsumeNonce(nonce) == usedNonces' = usedNonces
ConsumeNonce(nonce) == usedNonces' = usedNonces \cup {nonce}

Mint(proof) ==
    /\ ~certPaused
    /\ now < proof.expires_at
    /\ proof.nonce \notin usedNonces
    /\ VerifyBackendProof(proof)
    /\ ConsumeNonce(proof.nonce)
    /\ SaveCertificate(proof.recipient, proof.course,
           [nonce |-> {proof.nonce}, key |-> {proof.key}, currentKey |-> {backendKey}])

MintCertificate(student, course) ==
    /\ ~certPaused
    /\ SaveCertificate(student, course, [nonce |-> {}, key |-> {}, currentKey |-> {}])
    /\ UNCHANGED usedNonces

\* revoke and revoke_with_reason; a certificate that does not exist is not an error.
RevokeImpl(recipient, course) ==
    /\ certificates' = Remove(certificates, {<<recipient, course>>})
    /\ UNCHANGED <<nextTokenId, usedNonces, mintedBy, certPaused, roleVars>>

-----------------------------------------------------------------------------
ProposalUntil(who, ttl) == {[who |-> who, expiry |-> now + ttl]}
\* Fault: a proposal that has expired is still accepted.
FaultOpen(proposal) == proposal # {}
Open(proposal) == \E p \in proposal : now <= p.expiry
Proposed(proposal) == (CHOOSE p \in proposal : TRUE).who

ProposeAdminTransfer(new_admin) ==
    /\ new_admin # certAdmin
    /\ pendingAdmin' = ProposalUntil(new_admin, ADMIN_TRANSFER_TTL)
    /\ UNCHANGED <<certAdmin, backendKey, certMinter, pendingKey, pendingMinter,
                   certPaused, tokenVars>>

\* Called by the proposed administrator; an expired proposal fails and stays stored.
AcceptAdminTransfer ==
    /\ Open(pendingAdmin)
    /\ certAdmin' = Proposed(pendingAdmin)
    /\ pendingAdmin' = {}
    /\ UNCHANGED <<backendKey, certMinter, pendingKey, pendingMinter, certPaused, tokenVars>>

CancelAdminTransfer ==
    /\ pendingAdmin # {}
    /\ pendingAdmin' = {}
    /\ UNCHANGED <<certAdmin, backendKey, certMinter, pendingKey, pendingMinter,
                   certPaused, tokenVars>>

ProposeKeyRotation(new_key) ==
    /\ pendingKey' = ProposalUntil(new_key, ROTATION_PROPOSAL_TTL)
    /\ UNCHANGED <<certAdmin, backendKey, certMinter, pendingAdmin, pendingMinter,
                   certPaused, tokenVars>>

ActivateKeyRotation ==
    /\ Open(pendingKey)
    /\ backendKey' = Proposed(pendingKey)
    /\ pendingKey' = {}
    /\ UNCHANGED <<certAdmin, certMinter, pendingAdmin, pendingMinter, certPaused, tokenVars>>

CancelKeyRotation ==
    /\ pendingKey # {}
    /\ pendingKey' = {}
    /\ UNCHANGED <<certAdmin, backendKey, certMinter, pendingAdmin, pendingMinter,
                   certPaused, tokenVars>>

ProposeMinterRotation(new_minter) ==
    /\ pendingMinter' = ProposalUntil(new_minter, ROTATION_PROPOSAL_TTL)
    /\ UNCHANGED <<certAdmin, backendKey, certMinter, pendingAdmin, pendingKey,
                   certPaused, tokenVars>>

ActivateMinterRotation ==
    /\ Open(pendingMinter)
    /\ certMinter' = Proposed(pendingMinter)
    /\ pendingMinter' = {}
    /\ UNCHANGED <<certAdmin, backendKey, pendingAdmin, pendingKey, certPaused, tokenVars>>

CancelMinterRotation ==
    /\ pendingMinter # {}
    /\ pendingMinter' = {}
    /\ UNCHANGED <<certAdmin, backendKey, certMinter, pendingAdmin, pendingKey,
                   certPaused, tokenVars>>

-----------------------------------------------------------------------------
Proofs == [recipient : Recipients, course : CertCourses, nonce : Nonces,
           expires_at : ProofTimes, key : BackendKeys]

\* Minting reads the pause and the backend's key, and nothing of the other two roles.
MintNext ==
    /\ \/ \E p \in BOOLEAN : TogglePause(p)
       \/ \E proof \in Proofs : Mint(proof)
       \/ \E r \in Recipients, c \in CertCourses : MintCertificate(r, c) \/ RevokeImpl(r, c)
       \/ \E k \in BackendKeys : ProposeKeyRotation(k)
       \/ ActivateKeyRotation \/ CancelKeyRotation
    /\ UNCHANGED now

RoleNext ==
    /\ \/ \E a \in CertAdmins : ProposeAdminTransfer(a)
       \/ AcceptAdminTransfer \/ CancelAdminTransfer
       \/ \E m \in Minters : ProposeMinterRotation(m)
       \/ ActivateMinterRotation \/ CancelMinterRotation
    /\ UNCHANGED now

-----------------------------------------------------------------------------
\* Every stored value has the shape of its Rust type.
TypeOK ==
    /\ certAdmin \in CertAdmins /\ backendKey \in BackendKeys /\ certMinter \in Minters
    /\ certPaused \in BOOLEAN
    /\ pendingAdmin \subseteq Proposal(CertAdmins) /\ Cardinality(pendingAdmin) <= 1
    /\ pendingKey \subseteq Proposal(BackendKeys) /\ Cardinality(pendingKey) <= 1
    /\ pendingMinter \subseteq Proposal(Minters) /\ Cardinality(pendingMinter) <= 1
    /\ certificates \in [DOMAIN certificates -> 0..MaxTokens]
    /\ nextTokenId \in 0..MaxTokens /\ usedNonces \subseteq Nonces

\* A backend proof mints at most one certificate, ever: revoking the certificate, rotating
\* the key and minting again by the minter give the same proof no second use.
NonceMintsOnce ==
    \A i, j \in DOMAIN mintedBy :
        i # j => mintedBy[i].nonce \cap mintedBy[j].nonce = {}

\* Two certificates never share a token id, and every token id that exists was minted.
TokenIdsUnique ==
    /\ \A k, l \in DOMAIN certificates : certificates[k] = certificates[l] => k = l
    /\ \A k \in DOMAIN certificates : certificates[k] \in DOMAIN mintedBy

\* A certificate never moves: a step removes it or leaves it with its recipient under its
\* token id, and who administers, signs and mints only changes by taking up a proposal that
\* has not expired.
RolesChangeByProposal ==
    [][/\ \A k \in DOMAIN certificates \cap DOMAIN certificates' :
              certificates'[k] = certificates[k]
       /\ \A k \in DOMAIN certificates' \ DOMAIN certificates :
              certificates'[k] \notin {certificates[l] : l \in DOMAIN certificates}
       /\ certAdmin' # certAdmin =>
              \E p \in pendingAdmin : p.who = certAdmin' /\ now <= p.expiry
       /\ backendKey' # backendKey =>
              \E p \in pendingKey : p.who = backendKey' /\ now <= p.expiry
       /\ certMinter' # certMinter =>
              \E p \in pendingMinter : p.who = certMinter' /\ now <= p.expiry]_certificateVars
=============================================================================
