---------------------------- MODULE Engagements ----------------------------
(***************************************************************************)
(* contracts/mentorship: one-to-one engagements.  The parties open an      *)
(* engagement, a guardian may have to consent, sessions are counted, the   *)
(* engagement is paused and resumed, and it ends by completion or by one   *)
(* of several kinds of termination.                                        *)
(*                                                                         *)
(* Payment terms and reason hashes are stored and never read, and left     *)
(* out; the outcome's hash is the number of the outcome, so that a second  *)
(* outcome is told from the first.  Feedback is counted.                   *)
(***************************************************************************)
EXTENDS Integers, FiniteSets, Storage

CONSTANTS
    Admin, Mentors, Mentees, Guardians, Strangers,
    Threshold, PausePolicies,       \* the inactivity threshold and the policies the admin may set
    Plans, PauseDates, ConsentEnds, \* sessions planned, effective dates, expiries (0 is none)
    MaxEngagements, MaxOutcomes, MaxFeedback, MaxEngagementTime

VARIABLES
    now,
    mutualPause,  \* DataKey::PauseRequiresMutualApproval
    engagements,  \* DataKey::Engagement: id -> record, ids 1, 2, ...
    consentOf,    \* DataKey::GuardianConsent: engagement -> consent
    outcomes,     \* DataKey::TerminationOutcome: engagement -> outcome
    outcomeCount, \* how often an outcome was written
    feedback      \* DataKey::NextFeedbackId - 1

engagementVars == <<mutualPause, engagements, consentOf, outcomes, outcomeCount, feedback>>

Callers == Mentors \cup Mentees \cup Guardians \cup Strangers \cup {Admin}
Statuses == {"PendingConsent", "Active", "Paused", "Completed", "Terminated",
             "SafeguardingTermination"}
Reasons == {"Mutual", "Completed", "PolicyViolation", "Inactivity", "Safeguarding",
            "ConsentRevoked"}

PauseRequest ==
    [requester : Callers, effective : Nat, mutual : BOOLEAN, approved : BOOLEAN,
     present : BOOLEAN]
Engagement ==
    [mentor : Mentors, mentee : Mentees, planned : Nat, done : Nat, guarded : BOOLEAN,
     pause : PauseRequest, activity : Nat, status : Statuses]
GuardianConsent == [guardian : Guardians, active : BOOLEAN, until : Nat, changed : BOOLEAN]
TerminationOutcome ==
    [reason : Reasons, by : Callers, sessions : Nat, at : Nat, hash : Nat]

\* Option<PauseRequest>
NoPause == [requester |-> Admin, effective |-> 0, mutual |-> FALSE, approved |-> FALSE,
            present |-> FALSE]

Init ==
    /\ mutualPause = TRUE
    /\ engagements = Empty
    /\ consentOf = Empty
    /\ outcomes = Empty
    /\ outcomeCount = 0
    /\ feedback = 0

-----------------------------------------------------------------------------
(* Configuration *)

SetPauseApprovalPolicy(mutual) ==
    /\ mutualPause' = mutual
    /\ UNCHANGED <<engagements, consentOf, outcomes, outcomeCount, feedback>>

-----------------------------------------------------------------------------
(* Engagements *)

Participant(caller, id) ==
    Has(engagements, id) /\ caller \in {engagements[id].mentor, engagements[id].mentee}

\* Fault: an engagement that needs a guardian starts at once.
FaultFirstStatus(guarded) == "Active"
FirstStatus(guarded) == IF guarded THEN "PendingConsent" ELSE "Active"

\* Nothing keeps the mentor and the mentee apart.
CreateEngagement(mentor, mentee, planned, guarded) ==
    LET id == Cardinality(DOMAIN engagements) + 1 IN
    /\ id <= MaxEngagements
    /\ planned # 0
    /\ engagements' = Set(engagements, id,
           [mentor |-> mentor, mentee |-> mentee, planned |-> planned, done |-> 0,
            guarded |-> guarded, pause |-> NoPause, activity |-> now,
            status |-> FirstStatus(guarded)])
    /\ UNCHANGED <<mutualPause, consentOf, outcomes, outcomeCount, feedback>>

\* Write the engagement with the outcome of its end.
End(id, e, reason, caller) ==
    /\ outcomeCount < MaxOutcomes
    /\ engagements' = [engagements EXCEPT ![id] = e]
    /\ outcomeCount' = outcomeCount + 1
    /\ outcomes' = Set(outcomes, id, [reason |-> reason, by |-> caller, sessions |-> e.done,
                                      at |-> now, hash |-> outcomeCount + 1])

RecordSession(caller, id) ==
    /\ Participant(caller, id)
    /\ engagements[id].status = "Active"
    /\ LET e == [engagements[id] EXCEPT !.done = @ + 1, !.activity = now] IN
       \/ /\ e.done < e.planned
          /\ engagements' = [engagements EXCEPT ![id] = e]
          /\ UNCHANGED <<outcomes, outcomeCount>>
       \/ /\ e.done >= e.planned
          /\ End(id, [e EXCEPT !.status = "Completed"], "Completed", caller)
    /\ UNCHANGED <<mutualPause, consentOf, feedback>>

CompleteEngagement(caller, id) ==
    /\ Participant(caller, id)
    /\ engagements[id].status \in {"Active", "Paused"}
    /\ End(id, [engagements[id] EXCEPT !.status = "Completed"], "Completed", caller)
    /\ UNCHANGED <<mutualPause, consentOf, feedback>>

\* Who may terminate for which reason: a session count ("Completed") is nobody's
\* privilege.  The status is not looked at.
MayTerminate(caller, id, reason) ==
    \/ reason = "Mutual" /\ Participant(caller, id)
    \/ reason \in {"PolicyViolation", "Safeguarding"} /\ caller = Admin
    \/ reason = "Inactivity" /\ now >= engagements[id].activity + Threshold
    \/ reason = "Completed"

TerminateEngagement(caller, id, reason) ==
    /\ Has(engagements, id)
    /\ MayTerminate(caller, id, reason)
    /\ End(id, [engagements[id] EXCEPT !.status =
                    IF reason = "Safeguarding" THEN "SafeguardingTermination" ELSE "Terminated"],
           reason, caller)
    /\ UNCHANGED <<mutualPause, consentOf, feedback>>

-----------------------------------------------------------------------------
(* Guardian consent *)

AwaitsConsent(id) ==
    /\ Has(engagements, id)
    /\ engagements[id].guarded
    /\ engagements[id].status = "PendingConsent"

GrantGuardianConsent(guardian, id, until) ==
    /\ AwaitsConsent(id)
    /\ until = 0 \/ until > now
    /\ consentOf' = Set(consentOf, id, [guardian |-> guardian, active |-> TRUE,
                                        until |-> until, changed |-> FALSE])
    /\ engagements' = [engagements EXCEPT ![id].status = "Active", ![id].activity = now]
    /\ UNCHANGED <<mutualPause, outcomes, outcomeCount, feedback>>

IsGuardian(guardian, id) == Has(consentOf, id) /\ consentOf[id].guardian = guardian

\* Only the consent is looked at, not the engagement's status.
RevokeGuardianConsent(guardian, id) ==
    /\ IsGuardian(guardian, id)
    /\ consentOf[id].active
    /\ consentOf' = [consentOf EXCEPT ![id].active = FALSE]
    /\ End(id, [engagements[id] EXCEPT !.status = "Terminated"], "ConsentRevoked", guardian)
    /\ UNCHANGED <<mutualPause, feedback>>

MarkMaterialChange(caller, id) ==
    /\ Participant(caller, id)
    /\ engagements[id].guarded
    /\ Has(consentOf, id)
    /\ consentOf' = [consentOf EXCEPT ![id].changed = TRUE]
    /\ UNCHANGED <<mutualPause, engagements, outcomes, outcomeCount, feedback>>

\* A consent given anew keeps its revocation and its expiry.
Reconsent(guardian, id) ==
    /\ IsGuardian(guardian, id)
    /\ consentOf[id].changed
    /\ consentOf' = [consentOf EXCEPT ![id].changed = FALSE]
    /\ UNCHANGED <<mutualPause, engagements, outcomes, outcomeCount, feedback>>

IsConsentValid(id) ==
    /\ Has(consentOf, id)
    /\ consentOf[id].active
    /\ consentOf[id].until # 0 => now < consentOf[id].until
    /\ ~consentOf[id].changed

-----------------------------------------------------------------------------
(* Pause and resume *)

\* A pause dated in the future stays on file and leaves the status alone.
PausedOn(date, status) == IF date <= now THEN "Paused" ELSE status

RequestPause(caller, id, date) ==
    LET e == engagements[id] IN
    /\ Participant(caller, id)
    /\ e.status = "Active"
    /\ ~e.pause.present
    /\ date >= now
    /\ engagements' = [engagements EXCEPT ![id] =
           [e EXCEPT !.pause = [requester |-> caller, effective |-> date, mutual |-> mutualPause,
                                approved |-> ~mutualPause, present |-> TRUE],
                     !.status = IF mutualPause THEN @ ELSE PausedOn(date, @)]]
    /\ UNCHANGED <<mutualPause, consentOf, outcomes, outcomeCount, feedback>>

\* Fault: the party that asked for the pause approves it.
FaultMayApprovePause(caller, id) ==
    /\ Participant(caller, id)
    /\ engagements[id].pause.present
    /\ engagements[id].pause.mutual /\ ~engagements[id].pause.approved
MayApprovePause(caller, id) ==
    /\ Participant(caller, id)
    /\ engagements[id].pause.present
    /\ caller # engagements[id].pause.requester
    /\ engagements[id].pause.mutual /\ ~engagements[id].pause.approved

\* The status the engagement has by now is not looked at.
ApprovePause(caller, id) ==
    LET e == engagements[id] IN
    /\ MayApprovePause(caller, id)
    /\ engagements' = [engagements EXCEPT ![id] =
           [e EXCEPT !.pause.approved = TRUE, !.status = PausedOn(e.pause.effective, @)]]
    /\ UNCHANGED <<mutualPause, consentOf, outcomes, outcomeCount, feedback>>

ResumeEngagement(caller, id) ==
    /\ Participant(caller, id)
    /\ engagements[id].status = "Paused"
    /\ engagements' = [engagements EXCEPT ![id] =
           [@ EXCEPT !.status = "Active", !.pause = NoPause, !.activity = now]]
    /\ UNCHANGED <<mutualPause, consentOf, outcomes, outcomeCount, feedback>>

SubmitFeedback ==
    /\ feedback < MaxFeedback
    /\ feedback' = feedback + 1
    /\ UNCHANGED <<mutualPause, engagements, consentOf, outcomes, outcomeCount>>

AdvanceTime ==
    /\ now < MaxEngagementTime
    /\ now' = now + 1
    /\ UNCHANGED engagementVars

Next ==
    \/ \E mutual \in PausePolicies : SetPauseApprovalPolicy(mutual)
    \/ \E mentor \in Mentors, mentee \in Mentees, planned \in Plans, guarded \in BOOLEAN :
           CreateEngagement(mentor, mentee, planned, guarded)
    \/ \E id \in DOMAIN engagements, caller \in Callers :
           \/ RecordSession(caller, id)
           \/ CompleteEngagement(caller, id)
           \/ \E reason \in Reasons : TerminateEngagement(caller, id, reason)
           \/ MarkMaterialChange(caller, id)
           \/ \E date \in PauseDates : RequestPause(caller, id, date)
           \/ ApprovePause(caller, id)
           \/ ResumeEngagement(caller, id)
    \/ \E id \in DOMAIN engagements, guardian \in Guardians :
           \/ \E until \in ConsentEnds : GrantGuardianConsent(guardian, id, until)
           \/ RevokeGuardianConsent(guardian, id)
           \/ Reconsent(guardian, id)
    \/ SubmitFeedback

Spec == now = 1 /\ Init /\ [][(Next /\ UNCHANGED now) \/ AdvanceTime]_<<now, engagementVars>>

-----------------------------------------------------------------------------
(* Properties *)

\* Every stored value stays in its type.
TypeOK ==
    /\ \A id \in DOMAIN engagements : engagements[id] \in Engagement
    /\ DOMAIN consentOf \subseteq DOMAIN engagements
    /\ \A id \in DOMAIN consentOf : consentOf[id] \in GuardianConsent
    /\ DOMAIN outcomes \subseteq DOMAIN engagements
    /\ \A id \in DOMAIN outcomes : outcomes[id] \in TerminationOutcome

\* No guarded engagement starts without a guardian: a session is only ever counted, and a
\* pause only ever asked for, after a consent is on record (grant_guardian_consent).
GuardedUntilConsent ==
    \A id \in DOMAIN engagements :
        engagements[id].guarded /\ ~Has(consentOf, id) =>
            /\ engagements[id].status \notin {"Active", "Paused", "Completed"}
            /\ engagements[id].done = 0
            /\ ~engagements[id].pause.present

\* A paused engagement is paused on a date that has come, with the approval the policy
\* of the day of the request asked for (request_pause, approve_pause).
PausedWithApproval ==
    \A id \in DOMAIN engagements :
        engagements[id].status = "Paused" =>
            /\ engagements[id].pause.present
            /\ engagements[id].pause.approved
            /\ engagements[id].pause.effective <= now

\* A pause that needs the other party's approval becomes approved only in a step the
\* other party takes: an engagement of a person with themselves is never paused that way.
NobodyApprovesTheirOwnPause ==
    \A id \in DOMAIN engagements :
        LET e == engagements[id] IN
        e.pause.present /\ e.pause.mutual /\ e.pause.approved => e.mentor # e.mentee

\* The parties of a guarded engagement cannot bypass the guardian: while it is active,
\* the guardian's consent is not revoked.  approve_pause breaks it: the pause asked for
\* before the revocation is approved after it, and resume_engagement makes the terminated
\* engagement active again.
GuardianProtection ==
    \A id \in DOMAIN engagements :
        engagements[id].guarded /\ engagements[id].status = "Active" =>
            Has(consentOf, id) /\ consentOf[id].active
=============================================================================
