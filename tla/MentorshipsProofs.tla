-------------------------- MODULE MentorshipsProofs --------------------------
(***************************************************************************)
(* What the contracts of a mentorship keep, for every instance: nothing    *)
(* takes effect without the people it needs, what was agreed stands, the   *)
(* counters are exact, and there is one of a kind.                         *)
(***************************************************************************)
EXTENDS Mentorships, SumTheorems, SequenceTheorems, FiniteSetTheorems

-----------------------------------------------------------------------------
(* Engagements *)

\* What is kept of one engagement: the parts of GuardedUntilConsent, PausedWithApproval
\* and NobodyApprovesTheirOwnPause, and that a party asked for the pause.
SoundEngagement(e, consented, time) ==
    /\ e.guarded /\ ~consented =>
         e.status \notin {"Active", "Paused", "Completed"} /\ e.done = 0 /\ ~e.pause.present
    /\ e.status = "Paused" => e.pause.present /\ e.pause.approved /\ e.pause.effective <= time
    /\ e.pause.present /\ e.pause.mutual /\ e.pause.approved => e.mentor # e.mentee
    /\ e.pause.present => e.pause.requester \in {e.mentor, e.mentee}
EngagementsInv ==
    /\ now \in Nat /\ mutualPause \in BOOLEAN /\ outcomeCount \in Nat
    /\ G!TypeOK
    /\ \A id \in DOMAIN engagements :
         SoundEngagement(engagements[id], id \in DOMAIN consentOf, now)

LEMMA EngagementsInitial == G!Init /\ now = 1 => EngagementsInv
BY DEF G!Init, EngagementsInv, G!TypeOK, G!Empty

\* One engagement is written; consents only appear, and stay those of stored engagements.
LEMMA EngagementWritten ==
  ASSUME EngagementsInv, now' = now, mutualPause' = mutualPause, outcomeCount' \in Nat,
         NEW id, NEW e \in G!Engagement, 
         DOMAIN engagements' = DOMAIN engagements \cup {id},
         engagements'[id] = e,
         \A x \in DOMAIN engagements \ {id} : engagements'[x] = engagements[x],
         DOMAIN consentOf \subseteq DOMAIN consentOf',
         DOMAIN consentOf' \subseteq DOMAIN engagements',
         \A x \in DOMAIN consentOf' : consentOf'[x] \in G!GuardianConsent,
         DOMAIN outcomes' \subseteq DOMAIN engagements',
         \A x \in DOMAIN outcomes' : outcomes'[x] \in G!TerminationOutcome,
         SoundEngagement(e, id \in DOMAIN consentOf', now)
  PROVE  EngagementsInv'
<1>1. G!TypeOK'
  BY DEF EngagementsInv, G!TypeOK
<1>2. ASSUME NEW x \in DOMAIN engagements'
      PROVE  SoundEngagement(engagements'[x], x \in DOMAIN consentOf', now')
  <2>1. CASE x = id
    BY <2>1
  <2>2. CASE x # id
    <3>1. SoundEngagement(engagements[x], x \in DOMAIN consentOf, now) /\ engagements'[x] = engagements[x]
      BY <2>2 DEF EngagementsInv
    <3>2. QED BY <3>1 DEF SoundEngagement
  <2>3. QED BY <2>1, <2>2
<1>3. QED BY <1>1, <1>2 DEF EngagementsInv

LEMMA EngagementsClock ==
  ASSUME EngagementsInv, UNCHANGED engagementVars, now' \in Nat, now' >= now
  PROVE  EngagementsInv'
<1>1. G!TypeOK'
  BY DEF EngagementsInv, G!TypeOK, engagementVars
<1>2. ASSUME NEW x \in DOMAIN engagements'
      PROVE  SoundEngagement(engagements'[x], x \in DOMAIN consentOf', now')
  <2>1. SoundEngagement(engagements[x], x \in DOMAIN consentOf, now) /\ engagements[x] \in G!Engagement
    BY DEF EngagementsInv, G!TypeOK, engagementVars
  <2>2. engagements[x].pause.effective \in Nat
    BY <2>1 DEF G!Engagement, G!PauseRequest
  <2>3. QED BY <2>1, <2>2 DEF SoundEngagement, engagementVars, EngagementsInv
<1>3. QED BY <1>1, <1>2 DEF EngagementsInv, engagementVars

LEMMA NoPauseType == G!NoPause \in G!PauseRequest
BY DEF G!NoPause, G!PauseRequest, G!Callers

LEMMA CreateEngagementPreserves ==
  ASSUME EngagementsInv, UNCHANGED now,
         NEW mentor \in Mentors, NEW mentee \in EngagedMentees, NEW planned \in Plans,
         NEW guarded \in BOOLEAN,
         G!CreateEngagement(mentor, mentee, planned, guarded)
  PROVE  EngagementsInv'
<1> DEFINE id == G!Cardinality(DOMAIN engagements) + 1
           e == [mentor |-> mentor, mentee |-> mentee, planned |-> planned, done |-> 0,
                 guarded |-> guarded, pause |-> G!NoPause, activity |-> now,
                 status |-> G!FirstStatus(guarded)]
<1>1. e \in G!Engagement
  BY NoPauseType, RecordConstants DEF EngagementsInv, G!Engagement, G!FirstStatus, G!Statuses
<1>2. SoundEngagement(e, id \in DOMAIN consentOf', now)
  BY DEF SoundEngagement, G!NoPause, G!FirstStatus
<1>3. /\ UNCHANGED <<mutualPause, consentOf, outcomes, outcomeCount>>
      /\ engagements' = G!Set(engagements, id, e)
  BY DEF G!CreateEngagement
<1> HIDE DEF id, e
<1>4. QED BY <1>1, <1>2, <1>3, EngagementWritten DEF G!Set, EngagementsInv, G!TypeOK

\* An engagement ends with its outcome on record.
LEMMA EndPreserves ==
  ASSUME EngagementsInv, now' = now, mutualPause' = mutualPause,
         NEW id \in DOMAIN engagements, NEW e \in G!Engagement,
         NEW reason \in G!Reasons, NEW caller \in G!Callers,
         DOMAIN consentOf' = DOMAIN consentOf,
         \A x \in DOMAIN consentOf' : consentOf'[x] \in G!GuardianConsent,
         SoundEngagement(e, id \in DOMAIN consentOf, now),
         G!End(id, e, reason, caller)
  PROVE  EngagementsInv'
<1> DEFINE o == [reason |-> reason, by |-> caller, sessions |-> e.done, at |-> now,
                 hash |-> outcomeCount + 1]
<1>1. o \in G!TerminationOutcome
  BY DEF EngagementsInv, G!TerminationOutcome, G!Engagement
<1>2. /\ engagements' = [engagements EXCEPT ![id] = e]
      /\ outcomes' = G!Set(outcomes, id, o)
      /\ outcomeCount' \in Nat
  BY DEF G!End, EngagementsInv
<1> HIDE DEF o
<1>3. DOMAIN outcomes' \subseteq DOMAIN engagements'
  BY <1>2 DEF G!Set, EngagementsInv, G!TypeOK
<1>4. \A x \in DOMAIN outcomes' : outcomes'[x] \in G!TerminationOutcome
  BY <1>1, <1>2 DEF G!Set, EngagementsInv, G!TypeOK
<1>5. QED BY <1>2, <1>3, <1>4, EngagementWritten DEF EngagementsInv, G!TypeOK

LEMMA RecordSessionPreserves ==
  ASSUME EngagementsInv, UNCHANGED now, NEW caller \in G!Callers, NEW id,
         G!RecordSession(caller, id)
  PROVE  EngagementsInv'
<1> DEFINE e == [engagements[id] EXCEPT !.done = @ + 1, !.activity = now]
<1>1. /\ id \in DOMAIN engagements /\ engagements[id] \in G!Engagement
      /\ engagements[id].status = "Active"
      /\ SoundEngagement(engagements[id], id \in DOMAIN consentOf, now)
  BY DEF EngagementsInv, G!TypeOK, G!RecordSession, G!Participant, G!Has
<1>2. e \in G!Engagement /\ SoundEngagement(e, id \in DOMAIN consentOf, now)
  <2> DEFINE done == engagements[id].done + 1
  <2>1. done \in Nat
    BY <1>1 DEF G!Engagement
  <2>2. e = [engagements[id] EXCEPT !.done = done, !.activity = now]
    BY <1>1 DEF G!Engagement
  <2> HIDE DEF done, e
  <2>3. e \in G!Engagement
    BY <1>1, <2>1, <2>2 DEF G!Engagement, EngagementsInv
  <2>4. /\ e.guarded = engagements[id].guarded /\ e.status = "Active"
        /\ e.pause = engagements[id].pause
        /\ e.mentor = engagements[id].mentor /\ e.mentee = engagements[id].mentee
    BY <1>1, <2>2 DEF G!Engagement
  <2>5. QED BY <1>1, <2>3, <2>4 DEF SoundEngagement
<1>3. CASE e.done < e.planned
  <2>1. engagements' = [engagements EXCEPT ![id] = e] /\ UNCHANGED <<outcomes, outcomeCount, consentOf, mutualPause>>
    BY <1>1, <1>2, <1>3 DEF G!RecordSession, G!Engagement
  <2> HIDE DEF e
  <2>2. QED BY <1>1, <1>2, <2>1, EngagementWritten DEF EngagementsInv, G!TypeOK
<1>4. CASE ~(e.done < e.planned)
  <2> DEFINE f == [e EXCEPT !.status = "Completed"]
  <2>1. f \in G!Engagement /\ SoundEngagement(f, id \in DOMAIN consentOf, now)
    BY <1>1, <1>2 DEF G!Engagement, SoundEngagement, G!Statuses
  <2>2. G!End(id, f, "Completed", caller) /\ UNCHANGED <<consentOf, mutualPause>>
    BY <1>4 DEF G!RecordSession
  <2> HIDE DEF f, e
  <2>3. QED BY <1>1, <2>1, <2>2, EndPreserves DEF EngagementsInv, G!TypeOK, G!Reasons
<1>5. QED BY <1>3, <1>4

LEMMA CompleteEngagementPreserves ==
  ASSUME EngagementsInv, UNCHANGED now, NEW caller \in G!Callers, NEW id,
         G!CompleteEngagement(caller, id)
  PROVE  EngagementsInv'
<1> DEFINE f == [engagements[id] EXCEPT !.status = "Completed"]
<1>1. /\ id \in DOMAIN engagements /\ engagements[id] \in G!Engagement
      /\ engagements[id].status \in {"Active", "Paused"}
      /\ SoundEngagement(engagements[id], id \in DOMAIN consentOf, now)
  BY DEF EngagementsInv, G!TypeOK, G!CompleteEngagement, G!Participant, G!Has
<1>2. f \in G!Engagement /\ SoundEngagement(f, id \in DOMAIN consentOf, now)
  BY <1>1 DEF G!Engagement, SoundEngagement, G!Statuses
<1>3. G!End(id, f, "Completed", caller) /\ UNCHANGED <<consentOf, mutualPause>>
  BY DEF G!CompleteEngagement
<1> HIDE DEF f
<1>4. QED BY <1>1, <1>2, <1>3, EndPreserves DEF EngagementsInv, G!TypeOK, G!Reasons

LEMMA TerminateEngagementPreserves ==
  ASSUME EngagementsInv, UNCHANGED now, NEW caller \in G!Callers, NEW id, NEW reason \in G!Reasons,
         G!TerminateEngagement(caller, id, reason)
  PROVE  EngagementsInv'
<1> DEFINE s == IF reason = "Safeguarding" THEN "SafeguardingTermination" ELSE "Terminated"
           f == [engagements[id] EXCEPT !.status = s]
<1>1. /\ id \in DOMAIN engagements /\ engagements[id] \in G!Engagement
      /\ SoundEngagement(engagements[id], id \in DOMAIN consentOf, now)
  BY DEF EngagementsInv, G!TypeOK, G!TerminateEngagement, G!Has
<1>2. G!End(id, f, reason, caller) /\ UNCHANGED <<consentOf, mutualPause>>
  BY DEF G!TerminateEngagement
<1>3. s \in {"SafeguardingTermination", "Terminated"}
  OBVIOUS
<1> HIDE DEF s
<1>4. f \in G!Engagement /\ SoundEngagement(f, id \in DOMAIN consentOf, now)
  BY <1>1, <1>3 DEF G!Engagement, SoundEngagement, G!Statuses
<1> HIDE DEF f
<1>5. QED BY <1>1, <1>2, <1>4, EndPreserves DEF EngagementsInv, G!TypeOK

LEMMA GrantGuardianConsentPreserves ==
  ASSUME EngagementsInv, UNCHANGED now, NEW guardian \in Guardians, NEW id, NEW until \in ConsentEnds,
         G!GrantGuardianConsent(guardian, id, until)
  PROVE  EngagementsInv'
<1> DEFINE c == [guardian |-> guardian, active |-> TRUE, until |-> until, changed |-> FALSE]
           f == [engagements[id] EXCEPT !.status = "Active", !.activity = now]
<1>1. /\ id \in DOMAIN engagements /\ engagements[id] \in G!Engagement
      /\ engagements[id].status = "PendingConsent"
      /\ SoundEngagement(engagements[id], id \in DOMAIN consentOf, now)
  BY DEF EngagementsInv, G!TypeOK, G!GrantGuardianConsent, G!AwaitsConsent, G!Has
<1>2. /\ consentOf' = G!Set(consentOf, id, c)
      /\ engagements' = [engagements EXCEPT ![id] = f]
      /\ UNCHANGED <<mutualPause, outcomes, outcomeCount>>
  BY <1>1 DEF G!GrantGuardianConsent, G!Engagement
<1>3. c \in G!GuardianConsent
  BY RecordConstants DEF G!GuardianConsent
<1>4. f \in G!Engagement /\ SoundEngagement(f, TRUE, now)
  BY <1>1 DEF G!Engagement, SoundEngagement, G!Statuses, EngagementsInv
<1> HIDE DEF f, c
<1>5. id \in DOMAIN consentOf' /\ DOMAIN consentOf \subseteq DOMAIN consentOf'
  BY <1>2 DEF G!Set
<1>6. \A x \in DOMAIN consentOf' : consentOf'[x] \in G!GuardianConsent
  BY <1>2, <1>3 DEF G!Set, EngagementsInv, G!TypeOK
<1>7. DOMAIN consentOf' \subseteq DOMAIN engagements'
  BY <1>1, <1>2 DEF G!Set, EngagementsInv, G!TypeOK
<1>8. SoundEngagement(f, id \in DOMAIN consentOf', now)
  BY <1>4, <1>5 DEF SoundEngagement
<1>9. QED BY <1>1, <1>2, <1>4, <1>5, <1>6, <1>7, <1>8, EngagementWritten DEF EngagementsInv, G!TypeOK

LEMMA RevokeGuardianConsentPreserves ==
  ASSUME EngagementsInv, UNCHANGED now, NEW guardian \in Guardians, NEW id,
         G!RevokeGuardianConsent(guardian, id)
  PROVE  EngagementsInv'
<1> DEFINE f == [engagements[id] EXCEPT !.status = "Terminated"]
<1>1. /\ id \in DOMAIN consentOf /\ id \in DOMAIN engagements /\ engagements[id] \in G!Engagement
      /\ SoundEngagement(engagements[id], id \in DOMAIN consentOf, now)
  BY DEF EngagementsInv, G!TypeOK, G!RevokeGuardianConsent, G!IsGuardian, G!Has
<1>2. /\ DOMAIN consentOf' = DOMAIN consentOf
      /\ \A x \in DOMAIN consentOf' : consentOf'[x] \in G!GuardianConsent
  BY DEF EngagementsInv, G!TypeOK, G!RevokeGuardianConsent, G!GuardianConsent
<1>3. G!End(id, f, "ConsentRevoked", guardian) /\ UNCHANGED mutualPause
  BY DEF G!RevokeGuardianConsent
<1>4. f \in G!Engagement /\ SoundEngagement(f, id \in DOMAIN consentOf, now)
  BY <1>1 DEF G!Engagement, SoundEngagement, G!Statuses
<1> HIDE DEF f
<1>5. QED BY <1>1, <1>2, <1>3, <1>4, EndPreserves DEF G!Reasons, G!Callers

\* Only what a consent says changes, not who has one.
LEMMA ConsentNotesPreserve ==
  ASSUME EngagementsInv, UNCHANGED now, NEW caller, NEW id,
         G!MarkMaterialChange(caller, id) \/ G!Reconsent(caller, id)
  PROVE  EngagementsInv'
<1>1. /\ DOMAIN consentOf' = DOMAIN consentOf
      /\ \A x \in DOMAIN consentOf' : consentOf'[x] \in G!GuardianConsent
      /\ UNCHANGED <<mutualPause, engagements, outcomes, outcomeCount>>
  BY DEF EngagementsInv, G!TypeOK, G!MarkMaterialChange, G!Reconsent, G!GuardianConsent
<1>2. QED BY <1>1 DEF EngagementsInv, G!TypeOK

LEMMA RequestPausePreserves ==
  ASSUME EngagementsInv, UNCHANGED now, NEW caller \in G!Callers, NEW id, NEW date \in PauseDates,
         G!RequestPause(caller, id, date)
  PROVE  EngagementsInv'
<1> DEFINE p == [requester |-> caller, effective |-> date, mutual |-> mutualPause,
                 approved |-> ~mutualPause, present |-> TRUE]
           s == IF mutualPause THEN engagements[id].status
                ELSE G!PausedOn(date, engagements[id].status)
           f == [engagements[id] EXCEPT !.pause = p, !.status = s]
<1>1. /\ id \in DOMAIN engagements /\ engagements[id] \in G!Engagement
      /\ engagements[id].status = "Active"
      /\ caller \in {engagements[id].mentor, engagements[id].mentee}
      /\ SoundEngagement(engagements[id], id \in DOMAIN consentOf, now)
  BY DEF EngagementsInv, G!TypeOK, G!RequestPause, G!Participant, G!Has
<1>2. /\ engagements' = [engagements EXCEPT ![id] = f]
      /\ UNCHANGED <<mutualPause, consentOf, outcomes, outcomeCount>>
  BY <1>1 DEF G!RequestPause, G!Engagement
<1>3. /\ p \in G!PauseRequest
      /\ p.requester = caller /\ p.effective = date /\ p.mutual = mutualPause
      /\ p.approved = ~mutualPause /\ p.present = TRUE
  BY RecordConstants DEF G!PauseRequest, EngagementsInv
<1>4. s \in {"Active", "Paused"} /\ (s = "Paused" => ~mutualPause /\ date <= now)
  BY <1>1 DEF G!PausedOn
<1> HIDE DEF p, s
<1>5. f \in G!Engagement /\ SoundEngagement(f, id \in DOMAIN consentOf, now)
  BY <1>1, <1>3, <1>4 DEF G!Engagement, SoundEngagement, G!Statuses, EngagementsInv
<1> HIDE DEF f
<1>6. QED BY <1>1, <1>2, <1>5, EngagementWritten DEF EngagementsInv, G!TypeOK

LEMMA ApprovePausePreserves ==
  ASSUME EngagementsInv, UNCHANGED now, NEW caller, NEW id, G!ApprovePause(caller, id)
  PROVE  EngagementsInv'
<1> DEFINE e == engagements[id]
           p == [e.pause EXCEPT !.approved = TRUE]
           s == G!PausedOn(e.pause.effective, e.status)
           f == [e EXCEPT !.pause = p, !.status = s]
<1>1. /\ id \in DOMAIN engagements /\ e \in G!Engagement
      /\ e.pause.present /\ ~e.pause.approved /\ e.pause.mutual
      /\ caller \in {e.mentor, e.mentee} /\ caller # e.pause.requester
      /\ SoundEngagement(e, id \in DOMAIN consentOf, now)
  BY DEF EngagementsInv, G!TypeOK, G!ApprovePause, G!MayApprovePause, G!Participant, G!Has
<1>2. /\ engagements' = [engagements EXCEPT ![id] = f]
      /\ UNCHANGED <<mutualPause, consentOf, outcomes, outcomeCount>>
  BY <1>1 DEF G!ApprovePause, G!Engagement, G!PauseRequest
<1>3. /\ p \in G!PauseRequest
      /\ p.requester = e.pause.requester /\ p.effective = e.pause.effective
      /\ p.mutual = e.pause.mutual /\ p.approved = TRUE /\ p.present = e.pause.present
  BY <1>1 DEF G!PauseRequest, G!Engagement
<1>4. s \in G!Statuses /\ (s # e.status => s = "Paused" /\ e.pause.effective <= now)
  BY <1>1 DEF G!PausedOn, G!Engagement, G!Statuses
<1> HIDE DEF p, s, e
<1>5. f \in G!Engagement /\ SoundEngagement(f, id \in DOMAIN consentOf, now)
  BY <1>1, <1>3, <1>4 DEF G!Engagement, SoundEngagement
<1> HIDE DEF f
<1>6. QED BY <1>1, <1>2, <1>5, EngagementWritten DEF EngagementsInv, G!TypeOK

LEMMA ResumeEngagementPreserves ==
  ASSUME EngagementsInv, UNCHANGED now, NEW caller, NEW id, G!ResumeEngagement(caller, id)
  PROVE  EngagementsInv'
<1> DEFINE f == [engagements[id] EXCEPT !.status = "Active", !.pause = G!NoPause, !.activity = now]
<1>1. /\ id \in DOMAIN engagements /\ engagements[id] \in G!Engagement
      /\ engagements[id].status = "Paused"
      /\ SoundEngagement(engagements[id], id \in DOMAIN consentOf, now)
  BY DEF EngagementsInv, G!TypeOK, G!ResumeEngagement, G!Participant, G!Has
<1>2. /\ engagements' = [engagements EXCEPT ![id] = f]
      /\ UNCHANGED <<mutualPause, consentOf, outcomes, outcomeCount>>
  BY DEF G!ResumeEngagement
<1>3. ~G!NoPause.present
  BY DEF G!NoPause
<1>4. f \in G!Engagement /\ SoundEngagement(f, id \in DOMAIN consentOf, now)
  BY <1>1, <1>3, NoPauseType DEF G!Engagement, SoundEngagement, G!Statuses, EngagementsInv
<1> HIDE DEF f
<1>5. QED BY <1>1, <1>2, <1>4, EngagementWritten DEF EngagementsInv, G!TypeOK

LEMMA EngagementsNext == ASSUME EngagementsInv, G!Next, UNCHANGED now PROVE EngagementsInv'
<1>1. ASSUME NEW mutual \in PausePolicies, G!SetPauseApprovalPolicy(mutual) PROVE EngagementsInv'
  BY <1>1, RecordConstants DEF G!SetPauseApprovalPolicy, EngagementsInv, G!TypeOK
<1>2. CASE G!SubmitFeedback
  BY <1>2 DEF G!SubmitFeedback, EngagementsInv, G!TypeOK
<1>3. QED BY <1>1, <1>2, CreateEngagementPreserves, RecordSessionPreserves,
             CompleteEngagementPreserves, TerminateEngagementPreserves,
             ConsentNotesPreserve, RequestPausePreserves, ApprovePausePreserves,
             ResumeEngagementPreserves, GrantGuardianConsentPreserves,
             RevokeGuardianConsentPreserves, Zenon DEF G!Next

LEMMA EngagementsHold ==
  EngagementsInv => G!TypeOK /\ G!GuardedUntilConsent /\ G!PausedWithApproval
                    /\ G!NobodyApprovesTheirOwnPause
BY DEF EngagementsInv, SoundEngagement, G!GuardedUntilConsent, G!PausedWithApproval,
       G!NobodyApprovesTheirOwnPause, G!Has

-----------------------------------------------------------------------------
(* Agreements *)

\* Beside the property: agreements are numbered without gaps, a nonce grows with each
\* acceptance of its owner, and an amendment is approved once both parties approve it.
PactsInv ==
    /\ A!TypeOK
    /\ \E n \in Nat : DOMAIN pacts = 1..n
    /\ nonces \in [Signers -> Nat]
    /\ \A a \in DOMAIN acceptances :
         a[2] \in Signers /\ acceptances[a] \in Nat /\ acceptances[a] <= nonces[a[2]]
    /\ A!InForceByBoth
    /\ \A n \in DOMAIN amendments : amendments[n].status = "Approved" =>
         {pacts[amendments[n].agreement].mentor, pacts[amendments[n].agreement].mentee}
             \subseteq amendments[n].approved

\* The body of TermsByConsent.
ConsentedTerms ==
    \A id \in DOMAIN pacts : pacts'[id].terms # pacts[id].terms =>
         /\ pacts[id].status = "Active"
         /\ \E n \in DOMAIN amendments :
                /\ amendments[n].agreement = id
                /\ amendments'[n].status = "Activated"
                /\ amendments[n].status # "Activated"
                /\ {pacts[id].mentor, pacts[id].mentee} \subseteq amendments[n].approved

LEMMA PactsInitial == A!Init => PactsInv
<1> SUFFICES ASSUME A!Init PROVE PactsInv
  OBVIOUS
<1>1. DOMAIN pacts = {} /\ DOMAIN acceptances = {} /\ DOMAIN amendments = {}
      /\ nonces \in [Signers -> Nat]
  BY DEF A!Init, A!Empty
<1>2. DOMAIN pacts = 1..0
  BY <1>1
<1>3. QED BY <1>1, <1>2 DEF PactsInv, A!TypeOK, A!InForceByBoth

LEMMA NextNumber ==
  ASSUME NEW n \in Nat
  PROVE  A!Cardinality(1..n) = n
<1>1. Cardinality(1..n) = n
  BY FS_Interval
<1>2. A!Cardinality(1..n) = Cardinality(1..n)
  BY Zenon DEF Cardinality, A!Cardinality
<1>3. QED BY <1>1, <1>2

LEMMA BlocksPreserve ==
  ASSUME PactsInv, UNCHANGED <<pacts, acceptances, nonces, amendments>>
  PROVE  PactsInv' /\ ConsentedTerms
BY DEF PactsInv, ConsentedTerms, A!TypeOK, A!InForceByBoth, A!Has

LEMMA CreateAgreementPreserves ==
  ASSUME PactsInv, NEW mentor \in Signers, NEW mentee \in Signers,
         NEW start \in TermTimes, NEW end \in TermTimes, NEW price \in Prices,
         A!CreateAgreement(mentor, mentee, start, end, price)
  PROVE  PactsInv' /\ ConsentedTerms
<1> DEFINE id == A!Cardinality(DOMAIN pacts) + 1
           a == [mentor |-> mentor, mentee |-> mentee, status |-> "Pending",
                 terms |-> [start |-> start, end |-> end, price |-> price]]
<1>1. PICK n \in Nat : DOMAIN pacts = 1..n
  BY DEF PactsInv
<1>2. id = n + 1
  BY <1>1, NextNumber
<1>3. a \in A!Agreement
  <2>1. start \in Nat /\ end \in Nat /\ price \in Nat
    BY RecordConstants DEF A!CreateAgreement, A!ValidPrice
  <2>2. [start |-> start, end |-> end, price |-> price] \in [A!Term -> Nat]
    BY <2>1 DEF A!Term
  <2>3. QED BY <2>2 DEF A!Agreement
<1>4. pacts' = A!Set(pacts, id, a) /\ UNCHANGED <<acceptances, nonces, amendments>>
  BY DEF A!CreateAgreement
<1>5. a.status = "Pending"
  OBVIOUS
<1> HIDE DEF a, id
<1>6. /\ DOMAIN pacts' = 1..(n + 1)
      /\ pacts'[id] = a
      /\ \A x \in DOMAIN pacts : pacts'[x] = pacts[x]
  BY <1>1, <1>2, <1>4 DEF A!Set
<1>7. \A x \in DOMAIN pacts' : x \in DOMAIN pacts \/ x = id
  BY <1>1, <1>2, <1>6
<1>8. A!TypeOK'
  BY <1>1, <1>3, <1>4, <1>6, <1>7 DEF PactsInv, A!TypeOK, A!Has
<1>9. A!InForceByBoth'
  BY <1>4, <1>5, <1>6, <1>7 DEF PactsInv, A!InForceByBoth
<1>10. PactsInv'
  BY <1>1, <1>4, <1>6, <1>8, <1>9 DEF PactsInv, A!TypeOK, A!Has
<1>11. QED BY <1>6, <1>10 DEF ConsentedTerms

\* The status of one agreement changes, to one that is in force only with both acceptances.
LEMMA PactStatusStep ==
  ASSUME PactsInv, NEW id \in DOMAIN pacts,
         NEW s \in {"Pending", "Active", "Completed", "Cancelled"},
         pacts' = [pacts EXCEPT ![id].status = s],
         UNCHANGED amendments,
         nonces' \in [Signers -> Nat],
         \A a \in DOMAIN acceptances' :
             a[2] \in Signers /\ acceptances'[a] \in Nat /\ acceptances'[a] <= nonces'[a[2]],
         DOMAIN acceptances \subseteq DOMAIN acceptances',
         \A a, b \in DOMAIN acceptances' : a[2] = b[2] /\ acceptances'[a] = acceptances'[b] => a = b,
         s \in {"Active", "Completed"} =>
             {<<id, pacts[id].mentor>>, <<id, pacts[id].mentee>>} \subseteq DOMAIN acceptances'
  PROVE  PactsInv' /\ ConsentedTerms
<1>1. /\ DOMAIN pacts' = DOMAIN pacts
      /\ \A x \in DOMAIN pacts : pacts[x] \in A!Agreement
  BY DEF PactsInv, A!TypeOK
<1>2. \A x \in DOMAIN pacts :
         /\ pacts'[x] \in A!Agreement
         /\ pacts'[x].terms = pacts[x].terms
         /\ pacts'[x].mentor = pacts[x].mentor /\ pacts'[x].mentee = pacts[x].mentee
         /\ pacts'[x].status = IF x = id THEN s ELSE pacts[x].status
  BY <1>1 DEF A!Agreement
<1>3. A!TypeOK'
  BY <1>1, <1>2 DEF PactsInv, A!TypeOK, A!Has
<1>4. A!InForceByBoth'
  <2>1. ASSUME NEW x \in DOMAIN pacts', pacts'[x].status \in {"Active", "Completed"}
        PROVE  {<<x, pacts'[x].mentor>>, <<x, pacts'[x].mentee>>} \subseteq DOMAIN acceptances'
    <3>1. CASE x = id
      <4>1. s \in {"Active", "Completed"}
        BY <1>1, <1>2, <2>1, <3>1
      <4>2. pacts'[id].mentor = pacts[id].mentor /\ pacts'[id].mentee = pacts[id].mentee
        BY <1>1, <1>2, <3>1
      <4>3. QED BY <3>1, <4>1, <4>2
    <3>2. CASE x # id
      <4>1. {<<x, pacts[x].mentor>>, <<x, pacts[x].mentee>>} \subseteq DOMAIN acceptances
        BY <1>1, <1>2, <2>1, <3>2 DEF PactsInv, A!InForceByBoth
      <4>2. QED BY <1>1, <1>2, <4>1
    <3>3. QED BY <3>1, <3>2
  <2>2. QED BY <2>1, Zenon DEF A!InForceByBoth
<1>5. PactsInv'
  <2>1. ASSUME NEW n \in DOMAIN amendments', amendments'[n].status = "Approved"
        PROVE  {pacts'[amendments'[n].agreement].mentor, pacts'[amendments'[n].agreement].mentee}
                   \subseteq amendments'[n].approved
    <3>1. amendments[n].agreement \in DOMAIN pacts
      BY <2>1 DEF PactsInv, A!TypeOK, A!Has
    <3>2. QED BY <1>2, <2>1, <3>1 DEF PactsInv
  <2>2. QED BY <1>1, <1>3, <1>4, <2>1 DEF PactsInv
<1>6. QED BY <1>2, <1>5 DEF ConsentedTerms

LEMMA AcceptAgreementPreserves ==
  ASSUME PactsInv, NEW actor \in Signers, NEW id, NEW nonce, A!AcceptAgreement(actor, id, nonce)
  PROVE  PactsInv' /\ ConsentedTerms
<1>1. /\ id \in DOMAIN pacts /\ pacts[id] \in A!Agreement
      /\ actor \in {pacts[id].mentor, pacts[id].mentee}
      /\ <<id, actor>> \notin DOMAIN acceptances
      /\ nonces \in [Signers -> Nat] /\ nonce = nonces[actor] + 1
      /\ nonces' = [nonces EXCEPT ![actor] = nonce]
      /\ acceptances' = A!Set(acceptances, <<id, actor>>, nonce)
      /\ UNCHANGED amendments
  BY DEF A!AcceptAgreement, A!IsParty, A!Has, PactsInv, A!TypeOK
<1>2. nonce \in Nat /\ nonces' \in [Signers -> Nat] /\ nonces'[actor] = nonce
      /\ \A u \in Signers : nonces'[u] >= nonces[u]
  BY <1>1
<1>3. DOMAIN acceptances' = DOMAIN acceptances \cup {<<id, actor>>}
      /\ acceptances'[<<id, actor>>] = nonce
      /\ \A a \in DOMAIN acceptances : acceptances'[a] = acceptances[a]
  BY <1>1 DEF A!Set
<1>4. \A a \in DOMAIN acceptances :
         /\ a[2] \in Signers /\ acceptances[a] \in Nat /\ acceptances[a] <= nonces[a[2]]
         /\ a[2] = actor => acceptances[a] # nonce
  BY <1>1, <1>2 DEF PactsInv
<1>5. ASSUME NEW a \in DOMAIN acceptances'
      PROVE  a[2] \in Signers /\ acceptances'[a] \in Nat /\ acceptances'[a] <= nonces'[a[2]]
  <2>1. CASE a \in DOMAIN acceptances
    <3>1. nonces'[a[2]] \in Nat /\ nonces[a[2]] \in Nat /\ nonces'[a[2]] >= nonces[a[2]]
      BY <1>1, <1>2, <1>4, <2>1
    <3>2. QED BY <1>3, <1>4, <2>1, <3>1
  <2>2. CASE a = <<id, actor>>
    BY <1>2, <1>3, <2>2
  <2>3. QED BY <1>3, <2>1, <2>2
<1>6. ASSUME NEW a \in DOMAIN acceptances', NEW b \in DOMAIN acceptances',
             a[2] = b[2], acceptances'[a] = acceptances'[b]
      PROVE  a = b
  <2>1. CASE a \in DOMAIN acceptances /\ b \in DOMAIN acceptances
    BY <1>3, <1>6, <2>1 DEF PactsInv, A!InForceByBoth
  <2>2. CASE a = <<id, actor>> /\ b \in DOMAIN acceptances
    BY <1>3, <1>4, <1>6, <2>2
  <2>3. CASE b = <<id, actor>> /\ a \in DOMAIN acceptances
    BY <1>3, <1>4, <1>6, <2>3
  <2>4. QED BY <1>3, <2>1, <2>2, <2>3
<1>7. CASE A!AllAccepted(id, acceptances') /\ pacts[id].status = "Pending"
  <2>1. pacts' = [pacts EXCEPT ![id].status = "Active"]
    BY <1>7 DEF A!AcceptAgreement
  <2>2. {<<id, pacts[id].mentor>>, <<id, pacts[id].mentee>>} \subseteq DOMAIN acceptances'
    BY <1>7 DEF A!AllAccepted, A!Has
  <2>3. QED BY <1>1, <1>2, <1>3, <1>5, <1>6, <2>1, <2>2, PactStatusStep
<1>8. CASE ~(A!AllAccepted(id, acceptances') /\ pacts[id].status = "Pending")
  <2>1. pacts' = pacts
    BY <1>8 DEF A!AcceptAgreement
  <2>2. A!InForceByBoth'
    BY <1>3, <1>6, <2>1 DEF PactsInv, A!InForceByBoth
  <2>3. A!TypeOK'
    BY <1>1, <2>1 DEF PactsInv, A!TypeOK, A!Has
  <2>4. PactsInv'
    BY <1>1, <1>2, <1>5, <2>1, <2>2, <2>3 DEF PactsInv
  <2>5. QED BY <2>1, <2>4 DEF ConsentedTerms
<1>9. QED BY <1>7, <1>8

LEMMA EndAgreementPreserves ==
  ASSUME PactsInv, NEW caller, NEW id,
         A!CancelAgreement(caller, id) \/ A!CompleteAgreement(caller, id)
  PROVE  PactsInv' /\ ConsentedTerms
<1>1. /\ id \in DOMAIN pacts /\ UNCHANGED <<acceptances, nonces, amendments>>
      /\ \/ pacts' = [pacts EXCEPT ![id].status = "Cancelled"]
         \/ pacts[id].status = "Active" /\ pacts' = [pacts EXCEPT ![id].status = "Completed"]
  BY DEF A!CancelAgreement, A!CompleteAgreement, A!IsParty, A!Has
<1>2. /\ nonces' \in [Signers -> Nat]
      /\ \A a \in DOMAIN acceptances' :
             a[2] \in Signers /\ acceptances'[a] \in Nat /\ acceptances'[a] <= nonces'[a[2]]
      /\ \A a, b \in DOMAIN acceptances' : a[2] = b[2] /\ acceptances'[a] = acceptances'[b] => a = b
  BY <1>1 DEF PactsInv, A!InForceByBoth
<1>3. CASE pacts' = [pacts EXCEPT ![id].status = "Cancelled"]
  BY <1>1, <1>2, <1>3, PactStatusStep
<1>4. CASE pacts[id].status = "Active" /\ pacts' = [pacts EXCEPT ![id].status = "Completed"]
  <2>1. {<<id, pacts[id].mentor>>, <<id, pacts[id].mentee>>} \subseteq DOMAIN acceptances'
    BY <1>1, <1>4 DEF PactsInv, A!InForceByBoth
  <2>2. QED BY <1>1, <1>2, <1>4, <2>1, PactStatusStep
<1>5. QED BY <1>1, <1>3, <1>4

\* Amendments change and the agreements do not.
LEMMA AmendmentsStep ==
  ASSUME PactsInv, UNCHANGED <<pacts, acceptances, nonces>>,
         \A n \in DOMAIN amendments' :
             /\ A!IsAmendment(amendments'[n])
             /\ amendments'[n].agreement \in DOMAIN pacts
             /\ amendments'[n].status = "Approved" =>
                  {pacts[amendments'[n].agreement].mentor, pacts[amendments'[n].agreement].mentee}
                      \subseteq amendments'[n].approved
  PROVE  PactsInv' /\ ConsentedTerms
<1>1. A!TypeOK' /\ A!InForceByBoth'
  BY DEF PactsInv, A!TypeOK, A!InForceByBoth, A!Has
<1>2. PactsInv'
  BY <1>1 DEF PactsInv
<1>3. QED BY <1>2 DEF ConsentedTerms

LEMMA ProposeAmendmentPreserves ==
  ASSUME PactsInv, NEW proposer \in Signers, NEW id, NEW change \in A!Changes,
         A!ProposeAmendment(proposer, id, change)
  PROVE  PactsInv' /\ ConsentedTerms
<1> DEFINE m == A!Cardinality(DOMAIN amendments) + 1
           a == [agreement |-> id, change |-> change, status |-> "Proposed",
                 approved |-> {proposer}]
<1>1. id \in DOMAIN pacts /\ id \in Nat
  BY DEF PactsInv, A!ProposeAmendment, A!IsParty, A!Has
<1>2. \E S \in SUBSET A!Term : change \in [S -> Nat]
  <2>1. PICK S \in AmendedTerms : change \in [S -> TermTimes \cup Prices]
    BY DEF A!Changes
  <2>2. \A t \in S : change[t] \in A!ValuesOf(t)
    BY <2>1 DEF A!Changes
  <2>3. S \in SUBSET A!Term
    BY RecordConstants DEF A!Term
  <2>4. ASSUME NEW t \in S PROVE change[t] \in Nat
    <3>1. CASE t = "price"
      <4>1. A!ValidPrice(change["price"]) /\ change["price"] \in Prices
        BY <2>1, <2>2, <3>1 DEF A!ProposeAmendment, A!Get, A!ValuesOf
      <4>2. change["price"] \in Int
        BY <4>1, RecordConstants
      <4>3. QED BY <3>1, <4>1, <4>2 DEF A!ValidPrice
    <3>2. CASE t # "price"
      BY <2>2, <3>2, RecordConstants DEF A!ValuesOf
    <3>3. QED BY <3>1, <3>2
  <2>5. change \in [S -> Nat]
    BY <2>1, <2>4
  <2>6. QED BY <2>3, <2>5
<1>3. A!IsAmendment(a) /\ a.agreement = id /\ a.status = "Proposed"
  BY <1>1, <1>2 DEF A!IsAmendment
<1>4. amendments' = A!Set(amendments, m, a) /\ UNCHANGED <<pacts, acceptances, nonces>>
  BY DEF A!ProposeAmendment
<1> HIDE DEF a, m
<1>5. \A n \in DOMAIN amendments' :
         (n \in DOMAIN amendments /\ amendments'[n] = amendments[n]) \/ amendments'[n] = a
  BY <1>4 DEF A!Set
<1>6. QED BY <1>1, <1>3, <1>4, <1>5, AmendmentsStep DEF PactsInv, A!TypeOK, A!Has

LEMMA ApproveAmendmentPreserves ==
  ASSUME PactsInv, NEW approver \in Signers, NEW n, A!ApproveAmendment(approver, n)
  PROVE  PactsInv' /\ ConsentedTerms
<1> DEFINE both == amendments[n].approved \cup {approver}
           s == IF {A!Amended(n).mentor, A!Amended(n).mentee} \subseteq both
                THEN "Approved" ELSE amendments[n].status
           a == [amendments[n] EXCEPT !.approved = both, !.status = s]
<1>1. n \in DOMAIN amendments /\ A!IsAmendment(amendments[n])
      /\ amendments[n].status = "Proposed"
  BY DEF PactsInv, A!TypeOK, A!ApproveAmendment, A!AmendmentParty, A!Has
<1>2. amendments' = [amendments EXCEPT ![n] = a] /\ UNCHANGED <<pacts, acceptances, nonces>>
  BY <1>1 DEF A!ApproveAmendment, A!IsAmendment
<1>3. /\ both \in SUBSET Signers
      /\ s \in {"Proposed", "Approved"}
      /\ s = "Approved" =>
           {pacts[amendments[n].agreement].mentor, pacts[amendments[n].agreement].mentee}
               \subseteq both
  BY <1>1 DEF A!IsAmendment, A!Amended
<1> HIDE DEF both, s
<1>4. A!IsAmendment(a) /\ a.agreement = amendments[n].agreement /\ a.status = s /\ a.approved = both
  BY <1>1, <1>3 DEF A!IsAmendment
<1> HIDE DEF a
<1>5. \A x \in DOMAIN amendments' : x \in DOMAIN amendments
         /\ amendments'[x] = IF x = n THEN a ELSE amendments[x]
  BY <1>1, <1>2
<1>6. QED BY <1>1, <1>2, <1>3, <1>4, <1>5, AmendmentsStep DEF PactsInv, A!TypeOK, A!Has

LEMMA RejectAmendmentPreserves ==
  ASSUME PactsInv, NEW rejector, NEW n, A!RejectAmendment(rejector, n)
  PROVE  PactsInv' /\ ConsentedTerms
<1> DEFINE a == [amendments[n] EXCEPT !.status = "Rejected"]
<1>1. n \in DOMAIN amendments /\ A!IsAmendment(amendments[n])
  BY DEF PactsInv, A!TypeOK, A!RejectAmendment, A!AmendmentParty, A!Has
<1>2. amendments' = [amendments EXCEPT ![n] = a] /\ UNCHANGED <<pacts, acceptances, nonces>>
  BY DEF A!RejectAmendment
<1>3. A!IsAmendment(a) /\ a.agreement = amendments[n].agreement /\ a.status = "Rejected"
  BY <1>1 DEF A!IsAmendment
<1> HIDE DEF a
<1>4. \A x \in DOMAIN amendments' : x \in DOMAIN amendments
         /\ amendments'[x] = IF x = n THEN a ELSE amendments[x]
  BY <1>1, <1>2
<1>5. QED BY <1>1, <1>2, <1>3, <1>4, AmendmentsStep DEF PactsInv, A!TypeOK, A!Has

LEMMA ActivateAmendmentPreserves ==
  ASSUME PactsInv, NEW caller, NEW n, A!ActivateAmendment(caller, n)
  PROVE  PactsInv' /\ ConsentedTerms
<1> DEFINE a == [amendments[n] EXCEPT !.status = "Activated"]
           id == amendments[n].agreement
           t == A!Apply(pacts[id].terms, amendments[n].change)
           p == [pacts[id] EXCEPT !.terms = t]
<1>1. /\ n \in DOMAIN amendments /\ A!IsAmendment(amendments[n])
      /\ amendments[n].status = "Approved"
      /\ id \in DOMAIN pacts /\ pacts[id] \in A!Agreement /\ pacts[id].status = "Active"
      /\ {pacts[id].mentor, pacts[id].mentee} \subseteq amendments[n].approved
  BY DEF PactsInv, A!TypeOK, A!ActivateAmendment, A!AmendmentParty, A!Amended, A!ReadyToActivate, A!Has
<1>2. /\ amendments' = [amendments EXCEPT ![n] = a]
      /\ pacts' = [pacts EXCEPT ![id] = p]
      /\ UNCHANGED <<acceptances, nonces>>
  BY DEF A!ActivateAmendment
<1>3. t \in [A!Term -> Nat]
  <2>1. pacts[id].terms \in [A!Term -> Nat]
    BY <1>1 DEF A!Agreement
  <2>2. PICK S \in SUBSET A!Term : amendments[n].change \in [S -> Nat]
    BY <1>1 DEF A!IsAmendment
  <2>3. QED BY <2>1, <2>2 DEF A!Apply, A!Get
<1>4. A!IsAmendment(a) /\ a.agreement = id /\ a.status = "Activated"
  BY <1>1 DEF A!IsAmendment
<1> HIDE DEF a, t
<1>5. p \in A!Agreement /\ p.mentor = pacts[id].mentor /\ p.mentee = pacts[id].mentee
      /\ p.status = pacts[id].status
  BY <1>1, <1>3 DEF A!Agreement
<1> HIDE DEF p, id
<1>6. DOMAIN amendments' = DOMAIN amendments /\ amendments'[n] = a
      /\ \A x \in DOMAIN amendments \ {n} : amendments'[x] = amendments[x]
  BY <1>1, <1>2
<1>7. DOMAIN pacts' = DOMAIN pacts /\ pacts'[id] = p
      /\ \A x \in DOMAIN pacts \ {id} : pacts'[x] = pacts[x]
  BY <1>1, <1>2
<1>8. \A x \in DOMAIN pacts : pacts'[x].mentor = pacts[x].mentor /\ pacts'[x].mentee = pacts[x].mentee
         /\ pacts'[x].status = pacts[x].status /\ pacts'[x] \in A!Agreement
  BY <1>1, <1>5, <1>7 DEF PactsInv, A!TypeOK
<1>9. A!TypeOK'
  BY <1>1, <1>4, <1>6, <1>7, <1>8 DEF PactsInv, A!TypeOK, A!Has
<1>10. A!InForceByBoth'
  BY <1>2, <1>7, <1>8 DEF PactsInv, A!InForceByBoth
<1>11. ASSUME NEW x \in DOMAIN amendments', amendments'[x].status = "Approved"
       PROVE  {pacts'[amendments'[x].agreement].mentor, pacts'[amendments'[x].agreement].mentee}
                  \subseteq amendments'[x].approved
  <2>1. x # n /\ x \in DOMAIN amendments /\ amendments'[x] = amendments[x]
    BY <1>4, <1>6, <1>11
  <2>2. amendments[x].agreement \in DOMAIN pacts
    BY <2>1 DEF PactsInv, A!TypeOK, A!Has
  <2>3. QED BY <1>8, <1>11, <2>1, <2>2 DEF PactsInv
<1>12. PactsInv'
  BY <1>2, <1>7, <1>9, <1>10, <1>11 DEF PactsInv
<1>13. ConsentedTerms
  <2>1. ASSUME NEW x \in DOMAIN pacts, pacts'[x].terms # pacts[x].terms PROVE x = id
    BY <1>7, <2>1
  <2>2. amendments[n].agreement = id
    BY DEF id
  <2>3. QED BY <1>1, <1>4, <1>6, <2>1, <2>2 DEF ConsentedTerms
<1>14. QED BY <1>12, <1>13

LEMMA PactsNext == ASSUME PactsInv, A!Next PROVE PactsInv' /\ ConsentedTerms
<1>1. ASSUME NEW u, NEW v, A!BlockUser(u, v) \/ A!UnblockUser(u, v) PROVE PactsInv' /\ ConsentedTerms
  BY <1>1, BlocksPreserve DEF A!BlockUser, A!UnblockUser
<1>2. QED BY <1>1, CreateAgreementPreserves, AcceptAgreementPreserves, EndAgreementPreserves,
             ProposeAmendmentPreserves, ApproveAmendmentPreserves, RejectAmendmentPreserves,
             ActivateAmendmentPreserves, Zenon DEF A!Next

-----------------------------------------------------------------------------
(* Code of conduct *)

\* What holds of an engagement under policies and acceptances.
Accepted(e, ps, acc) ==
    e.state \in {"Active", "Suspended"} =>
        \A r \in C!Role :
            /\ e.versions[r] \in 1..Len(ps)
            /\ C!AppliesTo(ps[e.versions[r]].audience, r)
            /\ ps[e.versions[r]].mandatory =>
                 <<IF r = "Mentor" THEN e.mentor ELSE e.mentee, e.versions[r], r>> \in acc
ConductInv ==
    /\ conductPolicies \in Seq(C!Policy)
    /\ latestPolicy \in [C!Role -> Nat]
    /\ \A r \in C!Role : latestPolicy[r] # 0 =>
         /\ latestPolicy[r] \in 1..Len(conductPolicies)
         /\ C!AppliesTo(conductPolicies[latestPolicy[r]].audience, r)
    /\ \A r \in C!Role, v \in 1..Len(conductPolicies) :
         C!AppliesTo(conductPolicies[v].audience, r) => latestPolicy[r] >= v
    /\ \A id \in DOMAIN conductEngagements :
         /\ conductEngagements[id] \in C!Engagement
         /\ Accepted(conductEngagements[id], conductPolicies, policyAcceptances)
    /\ \A ref \in DOMAIN breaches : breaches[ref] \in C!BreachRecord

\* The body of ConductFinal.
ConductStands ==
    /\ \A id \in DOMAIN conductEngagements : conductEngagements[id].state = "Ended" =>
          conductEngagements'[id] = conductEngagements[id]
    /\ \A ref \in DOMAIN breaches : breaches[ref].resolved => breaches'[ref] = breaches[ref]
    /\ \A v \in 1..Len(conductPolicies) :
         /\ conductPolicies'[v].mandatory = conductPolicies[v].mandatory
         /\ conductPolicies[v].retired => conductPolicies'[v].retired

LEMMA ConductInitial == C!Init => ConductInv
<1> SUFFICES ASSUME C!Init PROVE ConductInv
  OBVIOUS
<1>1. /\ conductPolicies = <<>> /\ latestPolicy = [r \in C!Role |-> 0]
      /\ DOMAIN conductEngagements = {} /\ DOMAIN breaches = {}
  BY DEF C!Init, C!Empty
<1>2. conductPolicies \in Seq(C!Policy) /\ Len(conductPolicies) = 0
  BY <1>1
<1>3. QED BY <1>1, <1>2 DEF ConductInv

\* Policies keep their audience and their duty, acceptances stay, one engagement changes.
LEMMA ConductStep ==
  ASSUME ConductInv,
         conductPolicies' \in Seq(C!Policy), Len(conductPolicies') >= Len(conductPolicies),
         \A v \in 1..Len(conductPolicies) :
             /\ conductPolicies'[v].audience = conductPolicies[v].audience
             /\ conductPolicies'[v].mandatory = conductPolicies[v].mandatory
             /\ conductPolicies[v].retired => conductPolicies'[v].retired,
         latestPolicy' \in [C!Role -> Nat],
         \A r \in C!Role : latestPolicy'[r] # 0 =>
             /\ latestPolicy'[r] \in 1..Len(conductPolicies')
             /\ C!AppliesTo(conductPolicies'[latestPolicy'[r]].audience, r),
         \A r \in C!Role, v \in 1..Len(conductPolicies') :
             C!AppliesTo(conductPolicies'[v].audience, r) => latestPolicy'[r] >= v,
         policyAcceptances \subseteq policyAcceptances',
         \A id \in DOMAIN conductEngagements' :
             \/ id \in DOMAIN conductEngagements
                   /\ conductEngagements'[id] = conductEngagements[id]
             \/ /\ conductEngagements'[id] \in C!Engagement
                /\ Accepted(conductEngagements'[id], conductPolicies, policyAcceptances),
         \A id \in DOMAIN conductEngagements : conductEngagements[id].state = "Ended" =>
             conductEngagements'[id] = conductEngagements[id],
         \A ref \in DOMAIN breaches' : breaches'[ref] \in C!BreachRecord,
         \A ref \in DOMAIN breaches : breaches[ref].resolved => breaches'[ref] = breaches[ref]
  PROVE  ConductInv' /\ ConductStands
<1>1. ASSUME NEW id \in DOMAIN conductEngagements'
      PROVE  /\ conductEngagements'[id] \in C!Engagement
             /\ Accepted(conductEngagements'[id], conductPolicies', policyAcceptances')
  <2> DEFINE e == conductEngagements'[id]
  <2>1. e \in C!Engagement /\ Accepted(e, conductPolicies, policyAcceptances)
    BY DEF ConductInv
  <2> HIDE DEF e
  <2>2. Len(conductPolicies) \in Nat /\ Len(conductPolicies') \in Nat
    BY DEF ConductInv
  <2>3. \A v \in 1..Len(conductPolicies) : v \in 1..Len(conductPolicies')
    BY <2>2
  <2>4. Accepted(e, conductPolicies', policyAcceptances')
    BY <2>1, <2>3 DEF Accepted
  <2>5. QED BY <2>1, <2>4 DEF e
<1>2. ConductInv'
  BY <1>1 DEF ConductInv
<1>3. QED BY <1>2 DEF ConductStands

LEMMA PublishPolicyPreserves ==
  ASSUME ConductInv, NEW caller, NEW audience \in C!Audience, NEW effective, NEW mandatory \in BOOLEAN,
         C!PublishPolicy(caller, audience, effective, mandatory)
  PROVE  ConductInv' /\ ConductStands
<1> DEFINE p == [audience |-> audience, mandatory |-> mandatory, retired |-> FALSE]
           n == Len(conductPolicies)
<1>1. p \in C!Policy /\ p.audience = audience
  BY DEF C!Policy
<1>2. /\ conductPolicies' = Append(conductPolicies, p)
      /\ latestPolicy' = [r \in C!Role |-> IF C!AppliesTo(audience, r) THEN n + 1 ELSE latestPolicy[r]]
      /\ UNCHANGED <<policyAcceptances, conductEngagements, breaches>>
  BY DEF C!PublishPolicy
<1> HIDE DEF p
<1>3. /\ conductPolicies \in Seq(C!Policy) /\ n \in Nat
      /\ conductPolicies' \in Seq(C!Policy) /\ Len(conductPolicies') = n + 1
      /\ \A v \in 1..n : conductPolicies'[v] = conductPolicies[v]
      /\ conductPolicies'[n + 1] = p
  BY <1>1, <1>2 DEF ConductInv
<1> HIDE DEF n
<1>4. \A r \in C!Role : latestPolicy'[r] = IF C!AppliesTo(audience, r) THEN n + 1 ELSE latestPolicy[r]
  BY <1>2
<1>5. latestPolicy \in [C!Role -> Nat] /\ latestPolicy' \in [C!Role -> Nat]
  BY <1>2, <1>3 DEF ConductInv
<1>6. ASSUME NEW r \in C!Role, latestPolicy'[r] # 0
      PROVE  /\ latestPolicy'[r] \in 1..Len(conductPolicies')
             /\ C!AppliesTo(conductPolicies'[latestPolicy'[r]].audience, r)
  <2>1. CASE C!AppliesTo(audience, r)
    BY <1>1, <1>3, <1>4, <2>1
  <2>2. CASE ~C!AppliesTo(audience, r)
    <3>1. latestPolicy'[r] = latestPolicy[r] /\ latestPolicy[r] \in 1..n
            /\ C!AppliesTo(conductPolicies[latestPolicy[r]].audience, r)
      BY <1>4, <1>6, <2>2 DEF ConductInv, n
    <3>2. QED BY <1>3, <3>1
  <2>3. QED BY <2>1, <2>2
<1>7. ASSUME NEW r \in C!Role, NEW v \in 1..Len(conductPolicies'),
             C!AppliesTo(conductPolicies'[v].audience, r)
      PROVE  latestPolicy'[r] >= v
  <2>1. CASE v = n + 1
    BY <1>1, <1>3, <1>4, <1>7, <2>1
  <2>2. CASE v \in 1..n
    <3>1. latestPolicy[r] >= v /\ latestPolicy[r] \in Nat
      BY <1>3, <1>5, <1>7, <2>2 DEF ConductInv, n
    <3>2. QED BY <1>3, <1>4, <2>2, <3>1
  <2>3. QED BY <1>3, <2>1, <2>2
<1>8. Len(conductPolicies') >= Len(conductPolicies)
  BY <1>3 DEF n
<1>9. \A v \in 1..Len(conductPolicies) : conductPolicies'[v] = conductPolicies[v]
  BY <1>3 DEF n
<1>10. \A ref \in DOMAIN breaches' : breaches'[ref] \in C!BreachRecord
  BY <1>2 DEF ConductInv
<1>11. QED
  BY <1>2, <1>3, <1>5, <1>6, <1>7, <1>8, <1>9, <1>10, ConductStep

\* The policies stay: what the other steps have to show.
LEMMA UnderPolicies ==
  ASSUME ConductInv, UNCHANGED <<conductPolicies, latestPolicy>>,
         policyAcceptances \subseteq policyAcceptances',
         \A id \in DOMAIN conductEngagements' :
             \/ id \in DOMAIN conductEngagements
                   /\ conductEngagements'[id] = conductEngagements[id]
             \/ /\ conductEngagements'[id] \in C!Engagement
                /\ Accepted(conductEngagements'[id], conductPolicies, policyAcceptances),
         \A id \in DOMAIN conductEngagements : conductEngagements[id].state = "Ended" =>
             conductEngagements'[id] = conductEngagements[id],
         \A ref \in DOMAIN breaches' : breaches'[ref] \in C!BreachRecord,
         \A ref \in DOMAIN breaches : breaches[ref].resolved => breaches'[ref] = breaches[ref]
  PROVE  ConductInv' /\ ConductStands
<1>1. Len(conductPolicies') >= Len(conductPolicies)
  BY DEF ConductInv
<1>2. /\ conductPolicies' \in Seq(C!Policy)
      /\ latestPolicy' \in [C!Role -> Nat]
      /\ \A r \in C!Role : latestPolicy'[r] # 0 =>
             /\ latestPolicy'[r] \in 1..Len(conductPolicies')
             /\ C!AppliesTo(conductPolicies'[latestPolicy'[r]].audience, r)
      /\ \A r \in C!Role, v \in 1..Len(conductPolicies') :
             C!AppliesTo(conductPolicies'[v].audience, r) => latestPolicy'[r] >= v
  BY DEF ConductInv
<1>3. \A v \in 1..Len(conductPolicies) :
             /\ conductPolicies'[v].audience = conductPolicies[v].audience
             /\ conductPolicies'[v].mandatory = conductPolicies[v].mandatory
             /\ conductPolicies[v].retired => conductPolicies'[v].retired
  OBVIOUS
<1>4. QED BY <1>1, <1>2, <1>3, ConductStep

LEMMA RetirePolicyPreserves ==
  ASSUME ConductInv, NEW caller, NEW version, C!RetirePolicy(caller, version)
  PROVE  ConductInv' /\ ConductStands
<1>1. /\ version \in 1..Len(conductPolicies)
      /\ conductPolicies' = [conductPolicies EXCEPT ![version].retired = TRUE]
      /\ UNCHANGED <<latestPolicy, policyAcceptances, conductEngagements, breaches>>
  BY DEF C!RetirePolicy, C!HasPolicy
<1>2. conductPolicies \in Seq(C!Policy)
  BY DEF ConductInv
<1>3. \A v \in 1..Len(conductPolicies) : conductPolicies[v] \in C!Policy
  BY <1>2
<1> DEFINE p == [conductPolicies[version] EXCEPT !.retired = TRUE]
<1>10. /\ p \in C!Policy /\ p.audience = conductPolicies[version].audience
       /\ p.mandatory = conductPolicies[version].mandatory /\ p.retired
  BY <1>1, <1>3 DEF C!Policy
<1>11. conductPolicies' = [conductPolicies EXCEPT ![version] = p]
  BY <1>1
<1> HIDE DEF p
<1>5. conductPolicies' \in Seq(C!Policy) /\ Len(conductPolicies') = Len(conductPolicies)
  <2>1. /\ [conductPolicies EXCEPT ![version] = p] \in Seq(C!Policy)
        /\ Len([conductPolicies EXCEPT ![version] = p]) = Len(conductPolicies)
    BY <1>1, <1>2, <1>10, ExceptSeq, Zenon
  <2>2. QED BY ONLY <1>11, <2>1, Zenon
<1>12. \A v \in 1..Len(conductPolicies) :
         conductPolicies'[v] = IF v = version THEN p ELSE conductPolicies[v]
  BY <1>2, <1>11
<1>4. \A v \in 1..Len(conductPolicies) :
         /\ conductPolicies'[v].audience = conductPolicies[v].audience
         /\ conductPolicies'[v].mandatory = conductPolicies[v].mandatory
         /\ conductPolicies[v].retired => conductPolicies'[v].retired
  BY <1>10, <1>12
<1>6. Len(conductPolicies') >= Len(conductPolicies)
  BY <1>2, <1>5
<1>7. \A ref \in DOMAIN breaches' : breaches'[ref] \in C!BreachRecord
  BY <1>1 DEF ConductInv
<1>8. /\ latestPolicy' \in [C!Role -> Nat]
      /\ \A r \in C!Role : latestPolicy'[r] # 0 =>
             /\ latestPolicy'[r] \in 1..Len(conductPolicies')
             /\ C!AppliesTo(conductPolicies'[latestPolicy'[r]].audience, r)
      /\ \A r \in C!Role, v \in 1..Len(conductPolicies') :
             C!AppliesTo(conductPolicies'[v].audience, r) => latestPolicy'[r] >= v
  BY <1>1, <1>4, <1>5 DEF ConductInv
<1>9. QED BY <1>1, <1>4, <1>5, <1>6, <1>7, <1>8, ConductStep

LEMMA AcceptPolicyPreserves ==
  ASSUME ConductInv, NEW actor, NEW version, NEW role, C!AcceptPolicy(actor, version, role)
  PROVE  ConductInv' /\ ConductStands
<1>1. /\ policyAcceptances \subseteq policyAcceptances'
      /\ UNCHANGED <<conductPolicies, latestPolicy, conductEngagements, breaches>>
  BY DEF C!AcceptPolicy
<1>2. QED BY <1>1, UnderPolicies DEF ConductInv

\* One engagement that has not ended is written.
LEMMA EngagementOfConduct ==
  ASSUME ConductInv, UNCHANGED <<conductPolicies, latestPolicy, policyAcceptances, breaches>>,
         NEW id, NEW e \in C!Engagement,
         id \in DOMAIN conductEngagements => conductEngagements[id].state # "Ended",
         Accepted(e, conductPolicies, policyAcceptances),
         DOMAIN conductEngagements' = DOMAIN conductEngagements \cup {id},
         conductEngagements'[id] = e,
         \A x \in DOMAIN conductEngagements \ {id} : conductEngagements'[x] = conductEngagements[x]
  PROVE  ConductInv' /\ ConductStands
<1>1. \A x \in DOMAIN conductEngagements' :
         \/ x \in DOMAIN conductEngagements /\ conductEngagements'[x] = conductEngagements[x]
         \/ /\ conductEngagements'[x] \in C!Engagement
            /\ Accepted(conductEngagements'[x], conductPolicies, policyAcceptances)
  OBVIOUS
<1>2. \A x \in DOMAIN conductEngagements : conductEngagements[x].state = "Ended" =>
         conductEngagements'[x] = conductEngagements[x]
  OBVIOUS
<1>3. QED BY <1>1, <1>2, UnderPolicies DEF ConductInv

LEMMA CreateConductEngagementPreserves ==
  ASSUME ConductInv, NEW id, NEW mentor \in ConductPersons, NEW mentee \in ConductPersons,
         C!CreateEngagement(id, mentor, mentee)
  PROVE  ConductInv' /\ ConductStands
<1> DEFINE e == [mentor |-> mentor, mentee |-> mentee, state |-> "Pending",
                 versions |-> [r \in C!Role |-> 0]]
<1>1. e \in C!Engagement /\ Accepted(e, conductPolicies, policyAcceptances)
  BY DEF C!Engagement, Accepted
<1>2. /\ id \notin DOMAIN conductEngagements
      /\ conductEngagements' = C!Set(conductEngagements, id, e)
      /\ UNCHANGED <<conductPolicies, latestPolicy, policyAcceptances, breaches>>
  BY DEF C!CreateEngagement, C!Has
<1> HIDE DEF e
<1>3. QED BY <1>1, <1>2, EngagementOfConduct DEF C!Set

LEMMA ActivatePreserves ==
  ASSUME ConductInv, NEW caller, NEW id, NEW from \in {"Pending", "Suspended"},
         C!Activate(caller, id, from)
  PROVE  ConductInv' /\ ConductStands
<1> DEFINE e == [conductEngagements[id] EXCEPT !.state = "Active", !.versions = latestPolicy]
<1>1. /\ id \in DOMAIN conductEngagements /\ conductEngagements[id] \in C!Engagement
      /\ conductEngagements[id].state = from
      /\ UNCHANGED <<conductPolicies, latestPolicy, policyAcceptances, breaches>>
  BY DEF C!Activate, C!Has, ConductInv
<1>2. conductEngagements' = [conductEngagements EXCEPT ![id] = e]
  BY <1>1 DEF C!Activate, C!Engagement
<1>3. latestPolicy \in [C!Role -> Nat]
  BY DEF ConductInv
<1>4. /\ e \in C!Engagement
      /\ e.mentor = conductEngagements[id].mentor /\ e.mentee = conductEngagements[id].mentee
      /\ e.versions = latestPolicy
  BY <1>1, <1>3 DEF C!Engagement
<1> HIDE DEF e
<1>5. /\ C!CurrentAcceptance(e.mentor, "Mentor") /\ C!CurrentAcceptance(e.mentee, "Mentee")
  BY <1>4 DEF C!Activate
<1>6. ASSUME NEW r \in C!Role
      PROVE  /\ e.versions[r] \in 1..Len(conductPolicies)
             /\ C!AppliesTo(conductPolicies[e.versions[r]].audience, r)
             /\ conductPolicies[e.versions[r]].mandatory =>
                 <<IF r = "Mentor" THEN e.mentor ELSE e.mentee, e.versions[r], r>> \in policyAcceptances
  <2>1. latestPolicy[r] # 0
    BY <1>5 DEF C!CurrentAcceptance, C!Role
  <2>2. /\ latestPolicy[r] \in 1..Len(conductPolicies)
        /\ C!AppliesTo(conductPolicies[latestPolicy[r]].audience, r)
    BY <2>1 DEF ConductInv
  <2>3. CASE r = "Mentor"
    BY <1>4, <1>5, <2>2, <2>3 DEF C!CurrentAcceptance
  <2>4. CASE r = "Mentee"
    BY <1>4, <1>5, <2>2, <2>4 DEF C!CurrentAcceptance
  <2>5. QED BY <2>3, <2>4 DEF C!Role
<1>7. Accepted(e, conductPolicies, policyAcceptances)
  BY <1>6 DEF Accepted
<1>8. QED BY <1>1, <1>2, <1>4, <1>7, EngagementOfConduct

LEMMA StateOfConductPreserves ==
  ASSUME ConductInv, NEW caller, NEW id,
         C!SuspendEngagement(caller, id) \/ C!EndEngagement(caller, id)
  PROVE  ConductInv' /\ ConductStands
<1>1. PICK s \in {"Suspended", "Ended"} :
         /\ id \in DOMAIN conductEngagements
         /\ conductEngagements[id].state # "Ended"
         /\ s = "Suspended" => conductEngagements[id].state = "Active"
         /\ conductEngagements' = [conductEngagements EXCEPT ![id].state = s]
         /\ UNCHANGED <<conductPolicies, latestPolicy, policyAcceptances, breaches>>
  BY DEF C!SuspendEngagement, C!EndEngagement, C!Has
<1> DEFINE e == [conductEngagements[id] EXCEPT !.state = s]
<1>2. /\ conductEngagements[id] \in C!Engagement
      /\ Accepted(conductEngagements[id], conductPolicies, policyAcceptances)
  BY <1>1 DEF ConductInv
<1>3. /\ e \in C!Engagement /\ e.state = s
      /\ e.mentor = conductEngagements[id].mentor /\ e.mentee = conductEngagements[id].mentee
      /\ e.versions = conductEngagements[id].versions
  BY <1>1, <1>2 DEF C!Engagement
<1>4. conductEngagements' = [conductEngagements EXCEPT ![id] = e]
  BY <1>1
<1> HIDE DEF e
<1>5. Accepted(e, conductPolicies, policyAcceptances)
  BY <1>1, <1>2, <1>3 DEF Accepted
<1>6. QED BY <1>1, <1>3, <1>4, <1>5, EngagementOfConduct

LEMMA RecordBreachPreserves ==
  ASSUME ConductInv, NEW caller, NEW ref, NEW subject \in BreachSubjects, NEW version,
         C!RecordBreach(caller, ref, subject, version)
  PROVE  ConductInv' /\ ConductStands
<1> DEFINE b == [subject |-> subject, policy |-> version, resolved |-> FALSE]
<1>1. /\ UNCHANGED <<conductPolicies, latestPolicy, policyAcceptances, conductEngagements>>
      /\ ref \notin DOMAIN breaches /\ breaches' = C!Set(breaches, ref, b)
      /\ version \in 1..Len(conductPolicies)
  BY DEF C!RecordBreach, C!Has, C!HasPolicy
<1>2. b \in C!BreachRecord
  BY <1>1, RecordConstants DEF C!BreachRecord
<1> HIDE DEF b
<1>3. \A x \in DOMAIN breaches' : breaches'[x] \in C!BreachRecord
  BY <1>1, <1>2 DEF C!Set, ConductInv
<1>4. \A x \in DOMAIN breaches : breaches'[x] = breaches[x]
  BY <1>1 DEF C!Set
<1>5. QED BY <1>1, <1>3, <1>4, UnderPolicies

LEMMA ResolveBreachPreserves ==
  ASSUME ConductInv, NEW caller, NEW ref, C!ResolveBreach(caller, ref)
  PROVE  ConductInv' /\ ConductStands
<1>1. /\ UNCHANGED <<conductPolicies, latestPolicy, policyAcceptances, conductEngagements>>
      /\ ref \in DOMAIN breaches /\ ~breaches[ref].resolved
      /\ breaches' = [breaches EXCEPT ![ref].resolved = TRUE]
  BY DEF C!ResolveBreach, C!Has
<1>2. \A x \in DOMAIN breaches' : breaches'[x] \in C!BreachRecord
  BY <1>1 DEF C!BreachRecord, ConductInv
<1>3. \A x \in DOMAIN breaches : breaches[x].resolved => breaches'[x] = breaches[x]
  BY <1>1
<1>4. QED BY <1>1, <1>2, <1>3, UnderPolicies

LEMMA ConductNext == ASSUME ConductInv, C!Next PROVE ConductInv' /\ ConductStands
<1>2. ASSUME NEW actor, NEW id, C!ActivateEngagement(actor, id) \/ C!ResumeEngagement(actor, id)
      PROVE  ConductInv' /\ ConductStands
  BY <1>2, ActivatePreserves DEF C!ActivateEngagement, C!ResumeEngagement
<1>3. ASSUME NEW id, NEW pair \in Mentors \X EngagedMentees, C!CreateEngagement(id, pair[1], pair[2])
      PROVE  ConductInv' /\ ConductStands
  <2>1. pair[1] \in ConductPersons /\ pair[2] \in ConductPersons
    BY RecordConstants
  <2>2. QED BY <1>3, <2>1, CreateConductEngagementPreserves
<1>4. QED BY <1>2, <1>3, PublishPolicyPreserves, RetirePolicyPreserves, AcceptPolicyPreserves,
             StateOfConductPreserves, RecordBreachPreserves, ResolveBreachPreserves, Zenon DEF C!Next

LEMMA ConductHolds == ConductInv => C!TypeOK /\ C!ActiveUnderAcceptedPolicies
<1> SUFFICES ASSUME ConductInv PROVE C!TypeOK /\ C!ActiveUnderAcceptedPolicies
  OBVIOUS
<1>1. C!TypeOK
  BY DEF ConductInv, C!TypeOK
<1>2. C!ActiveUnderAcceptedPolicies
  BY DEF ConductInv, Accepted, C!ActiveUnderAcceptedPolicies, C!HasPolicy
<1>3. QED BY <1>1, <1>2

-----------------------------------------------------------------------------
(* Intake of applications *)

\* Beside the properties: published versions and terms count from 1, a draft is
\* kept under the applicant and the program, and an application that
\* was assigned or decided has an entry in its trail.
IntakeInv ==
    /\ I!TypeOK
    /\ submitted \in Seq(I!Submission)
    /\ \A p \in DOMAIN forms : forms[p] \in Seq(Forms)
    /\ \A p \in DOMAIN terms : terms[p] \in Nat \ {0}
    /\ \A a \in DOMAIN reviews :
           reviews[a].assignee # Nobody \/ reviews[a].status = "Decided" => a \in DOMAIN audit
    /\ \A k \in DOMAIN drafts : k = <<k[1], k[2]>>
    /\ I!OneSubmission
    /\ I!DecidedWithoutConflict

LEMMA IntakeInitial == I!Init => IntakeInv
<1> SUFFICES ASSUME I!Init PROVE IntakeInv
  OBVIOUS
<1>1. /\ intakePrograms = I!Empty /\ forms = I!Empty /\ terms = I!Empty /\ consents = I!Empty
      /\ drafts = I!Empty /\ reviewerOf = I!Empty /\ reviews = I!Empty /\ audit = I!Empty
      /\ submitted = <<>>
  BY DEF I!Init
<1>2. DOMAIN I!Empty = {} /\ \A S : I!Empty \in [{} -> S]
  BY DEF I!Empty
<1>3. submitted \in Seq(I!Submission) /\ DOMAIN submitted = {}
  BY <1>1
<1>4. I!TypeOK
  BY <1>1, <1>2, <1>3 DEF I!TypeOK
<1>5. QED BY <1>1, <1>2, <1>3, <1>4 DEF IntakeInv, I!OneSubmission, I!DecidedWithoutConflict


LEMMA SetType ==
  ASSUME NEW S, NEW f, f \in [DOMAIN f -> S], NEW k, NEW v \in S
  PROVE  /\ I!Set(f, k, v) \in [DOMAIN I!Set(f, k, v) -> S]
         /\ DOMAIN I!Set(f, k, v) = DOMAIN f \cup {k}
         /\ I!Set(f, k, v)[k] = v
         /\ \A x \in DOMAIN f \ {k} : I!Set(f, k, v)[x] = f[x]
BY DEF I!Set

\* The same of a map that was written.
LEMMA SetWrites ==
  ASSUME NEW S, NEW f, f \in [DOMAIN f -> S], NEW k, NEW v \in S, NEW g, g = I!Set(f, k, v)
  PROVE  /\ g \in [DOMAIN g -> S]
         /\ DOMAIN g = DOMAIN f \cup {k}
         /\ g[k] = v
         /\ \A x \in DOMAIN f \ {k} : g[x] = f[x]
BY DEF I!Set

\* What the admin, the applicants and the grants of reviewers write.
IntakeRecords ==
    /\ intakePrograms \in [DOMAIN intakePrograms -> [active : BOOLEAN, deadline : Deadlines]]
    /\ \A q \in DOMAIN forms : forms[q] \in Seq(Forms)
    /\ \A q \in DOMAIN terms : terms[q] \in Nat \ {0}
    /\ consents \in [DOMAIN consents -> [version : Nat \ {0}, revoked : BOOLEAN]]
    /\ drafts \in [DOMAIN drafts -> I!Draft]
    /\ \A k \in DOMAIN drafts : k = <<k[1], k[2]>>
    /\ reviewerOf \in [DOMAIN reviewerOf -> [capacity : Capacities \ {0}, active : BOOLEAN]]

LEMMA IntakeRecordsTyped == IntakeInv => IntakeRecords
BY DEF IntakeInv, IntakeRecords, I!TypeOK

\* The queue stays as it is: programs, forms, terms, consents, drafts and reviewers change.
LEMMA ApplicantStep ==
  ASSUME IntakeInv, UNCHANGED <<submitted, reviews, conflictOf, audit>>, IntakeRecords',
         \A k \in DOMAIN drafts' : k \in DOMAIN drafts \/ ~I!HasApplied(k[1], k[2])
  PROVE  IntakeInv'
<1>1. I!TypeOK'
  <2>1. \A p \in DOMAIN forms' : \A v \in DOMAIN forms'[p] : forms'[p][v] \in Forms
    BY DEF IntakeRecords
  <2>2. QED BY <2>1 DEF IntakeInv, IntakeRecords, I!TypeOK
<1>2. I!OneSubmission'
  BY DEF IntakeInv, I!OneSubmission, I!HasApplied
<1>3. I!DecidedWithoutConflict'
  BY DEF IntakeInv, I!DecidedWithoutConflict
<1>4. QED BY <1>1, <1>2, <1>3 DEF IntakeInv, IntakeRecords

LEMMA RegisterProgramPreserves ==
  ASSUME IntakeInv, NEW p, NEW d \in Deadlines, I!RegisterProgram(p, d)
  PROVE  IntakeInv'
<1>1. IntakeRecords
  BY IntakeRecordsTyped
<1>2. intakePrograms' = I!Set(intakePrograms, p, [active |-> TRUE, deadline |-> d])
      /\ UNCHANGED <<forms, terms, consents, drafts, submitted, reviewerOf, reviews, conflictOf, audit>>
  BY DEF I!RegisterProgram, I!queueVars
<1>3. [active |-> TRUE, deadline |-> d] \in [active : BOOLEAN, deadline : Deadlines]
  OBVIOUS
<1>4. intakePrograms \in [DOMAIN intakePrograms -> [active : BOOLEAN, deadline : Deadlines]]
  BY <1>1 DEF IntakeRecords
<1>5. intakePrograms' \in [DOMAIN intakePrograms' -> [active : BOOLEAN, deadline : Deadlines]]
  <2> DEFINE T == [active : BOOLEAN, deadline : Deadlines]
             r == [active |-> TRUE, deadline |-> d]
  <2>1. r \in T /\ intakePrograms \in [DOMAIN intakePrograms -> T] /\ intakePrograms' = I!Set(intakePrograms, p, r)
    BY <1>2, <1>3, <1>4
  <2> HIDE DEF T, r
  <2>2. intakePrograms' \in [DOMAIN intakePrograms' -> T]
    BY ONLY <2>1, SetWrites, Zenon
  <2>3. QED BY ONLY <2>2, Zenon DEF T
<1>6. IntakeRecords'
  BY <1>1, <1>2, <1>5 DEF IntakeRecords
<1>7. QED BY <1>2, <1>6, ApplicantStep

LEMMA SetProgramActivePreserves ==
  ASSUME IntakeInv, NEW p, NEW active \in BOOLEAN, I!SetProgramActive(p, active)
  PROVE  IntakeInv'
<1>1. IntakeRecords
  BY IntakeRecordsTyped
<1>2. p \in DOMAIN intakePrograms /\ intakePrograms' = [intakePrograms EXCEPT ![p].active = active]
      /\ UNCHANGED <<forms, terms, consents, drafts, submitted, reviewerOf, reviews, conflictOf, audit>>
  BY DEF I!SetProgramActive, I!Has, I!queueVars
<1>3. intakePrograms' \in [DOMAIN intakePrograms' -> [active : BOOLEAN, deadline : Deadlines]]
  <2> DEFINE T == [active : BOOLEAN, deadline : Deadlines]
             r == [intakePrograms[p] EXCEPT !.active = active]
  <2>1. intakePrograms \in [DOMAIN intakePrograms -> T]
    BY <1>1 DEF IntakeRecords
  <2>2. intakePrograms[p] \in T
    BY <1>2, <2>1
  <2>3. r \in T
    BY <2>2
  <2>4. intakePrograms' = [intakePrograms EXCEPT ![p] = r]
    BY <1>2
  <2> HIDE DEF T, r
  <2>5. intakePrograms' \in [DOMAIN intakePrograms' -> T]
    BY <2>1, <2>3, <2>4
  <2>6. QED BY ONLY <2>5, Zenon DEF T
<1>4. IntakeRecords'
  BY <1>1, <1>2, <1>3 DEF IntakeRecords
<1>5. QED BY <1>2, <1>4, ApplicantStep

LEMMA PublishFormPreserves ==
  ASSUME IntakeInv, NEW p, NEW form \in Forms, I!PublishForm(p, form)
  PROVE  IntakeInv'
<1>1. IntakeRecords
  BY IntakeRecordsTyped
<1>2. forms' = I!Set(forms, p, Append(I!Get(forms, p, <<>>), form))
      /\ UNCHANGED <<intakePrograms, terms, consents, drafts, submitted, reviewerOf, reviews, conflictOf, audit>>
  BY DEF I!PublishForm, I!queueVars
<1>3. I!Get(forms, p, <<>>) \in Seq(Forms)
  BY <1>1 DEF I!Get, IntakeRecords
<1>4. Append(I!Get(forms, p, <<>>), form) \in Seq(Forms)
  BY <1>3
<1>5. \A q \in DOMAIN forms' : forms'[q] \in Seq(Forms)
  BY <1>1, <1>2, <1>4 DEF I!Set, IntakeRecords
<1>6. IntakeRecords'
  BY <1>1, <1>2, <1>5 DEF IntakeRecords
<1>7. QED BY <1>2, <1>6, ApplicantStep

LEMMA PublishConsentTermsPreserves ==
  ASSUME IntakeInv, NEW p, I!PublishConsentTerms(p)
  PROVE  IntakeInv'
<1>1. IntakeRecords
  BY IntakeRecordsTyped
<1>2. terms' = I!Set(terms, p, I!Get(terms, p, 0) + 1)
      /\ UNCHANGED <<intakePrograms, forms, consents, drafts, submitted, reviewerOf, reviews, conflictOf, audit>>
  BY DEF I!PublishConsentTerms, I!queueVars
<1>3. I!Get(terms, p, 0) \in Nat
  BY <1>1 DEF I!Get, IntakeRecords
<1>4. \A q \in DOMAIN terms' : terms'[q] \in Nat \ {0}
  BY <1>1, <1>2, <1>3 DEF I!Set, IntakeRecords
<1>5. IntakeRecords'
  BY <1>1, <1>2, <1>4 DEF IntakeRecords
<1>6. QED BY <1>2, <1>5, ApplicantStep

LEMMA RevokeReviewerPreserves ==
  ASSUME IntakeInv, NEW p, NEW who, I!RevokeReviewer(p, who)
  PROVE  IntakeInv'
<1>1. IntakeRecords
  BY IntakeRecordsTyped
<1>2. reviewerOf' = [reviewerOf EXCEPT ![<<who, p>>].active = FALSE]
      /\ UNCHANGED <<intakePrograms, forms, terms, consents, drafts, submitted, reviews, conflictOf, audit>>
  BY DEF I!RevokeReviewer, I!applicantVars
<1>3. reviewerOf' \in [DOMAIN reviewerOf' -> [capacity : Capacities \ {0}, active : BOOLEAN]]
  BY <1>1, <1>2 DEF IntakeRecords
<1>4. IntakeRecords'
  BY <1>1, <1>2, <1>3 DEF IntakeRecords
<1>5. QED BY <1>2, <1>4, ApplicantStep

LEMMA GrantReviewerPreserves ==
  ASSUME IntakeInv, NEW p, NEW who, NEW c \in Capacities, I!GrantReviewer(p, who, c)
  PROVE  IntakeInv'
<1>1. IntakeRecords
  BY IntakeRecordsTyped
<1>2. reviewerOf' = I!Set(reviewerOf, <<who, p>>, [capacity |-> c, active |-> TRUE])
      /\ UNCHANGED <<intakePrograms, forms, terms, consents, drafts, submitted, reviews, conflictOf, audit>>
      /\ c # 0
  BY DEF I!GrantReviewer, I!applicantVars
<1>3. [capacity |-> c, active |-> TRUE] \in [capacity : Capacities \ {0}, active : BOOLEAN]
  BY <1>2
<1>4. reviewerOf \in [DOMAIN reviewerOf -> [capacity : Capacities \ {0}, active : BOOLEAN]]
  BY <1>1 DEF IntakeRecords
<1>5. reviewerOf' \in [DOMAIN reviewerOf' -> [capacity : Capacities \ {0}, active : BOOLEAN]]
  BY ONLY <1>2, <1>3, <1>4, SetWrites, Zenon
<1>6. IntakeRecords'
  BY <1>1, <1>2, <1>5 DEF IntakeRecords
<1>7. QED BY <1>2, <1>6, ApplicantStep

LEMMA RecordConsentPreserves ==
  ASSUME IntakeInv, NEW who, NEW p, I!RecordConsent(who, p)
  PROVE  IntakeInv'
<1>1. IntakeRecords
  BY IntakeRecordsTyped
<1>2. /\ p \in DOMAIN terms
      /\ consents' = I!Set(consents, <<who, p>>, [version |-> terms[p], revoked |-> FALSE])
      /\ UNCHANGED <<intakePrograms, forms, terms, drafts, submitted, reviewerOf, reviews, conflictOf, audit>>
  BY DEF I!RecordConsent, I!Has, I!queueVars
<1>3. [version |-> terms[p], revoked |-> FALSE] \in [version : Nat \ {0}, revoked : BOOLEAN]
  BY <1>1, <1>2 DEF IntakeRecords
<1>4. consents \in [DOMAIN consents -> [version : Nat \ {0}, revoked : BOOLEAN]]
  BY <1>1 DEF IntakeRecords
<1>5. consents' \in [DOMAIN consents' -> [version : Nat \ {0}, revoked : BOOLEAN]]
  BY ONLY <1>2, <1>3, <1>4, SetWrites, Zenon
<1>6. IntakeRecords'
  BY <1>1, <1>2, <1>5 DEF IntakeRecords
<1>7. QED BY <1>2, <1>6, ApplicantStep

LEMMA RevokeConsentPreserves ==
  ASSUME IntakeInv, NEW who, NEW p, I!RevokeConsent(who, p)
  PROVE  IntakeInv'
<1>1. IntakeRecords
  BY IntakeRecordsTyped
<1>2. /\ consents' = [consents EXCEPT ![<<who, p>>].revoked = TRUE]
      /\ UNCHANGED <<intakePrograms, forms, terms, drafts, submitted, reviewerOf, reviews, conflictOf, audit>>
  BY DEF I!RevokeConsent, I!queueVars
<1>3. consents' \in [DOMAIN consents' -> [version : Nat \ {0}, revoked : BOOLEAN]]
  BY <1>1, <1>2 DEF IntakeRecords
<1>4. IntakeRecords'
  BY <1>1, <1>2, <1>3 DEF IntakeRecords
<1>5. QED BY <1>2, <1>4, ApplicantStep

\* A save is refused once the applicant has applied: no draft comes back.
LEMMA AutosaveDraftPreserves ==
  ASSUME IntakeInv, NEW who, NEW p, NEW base \in Nat, NEW token \in Tokens, NEW patch,
         I!AutosaveDraft(who, p, base, token, patch)
  PROVE  IntakeInv'
<1>1. IntakeRecords
  BY IntakeRecordsTyped
<1> DEFINE new == ~I!Has(drafts, <<who, p>>)
           form == IF new THEN Len(I!Get(forms, p, <<>>)) ELSE drafts[<<who, p>>].form
           d == [form |-> form, revision |-> base + 1, token |-> token]
<1>2. /\ form # 0 /\ ~I!HasApplied(who, p) /\ drafts' = I!Set(drafts, <<who, p>>, d)
      /\ UNCHANGED <<intakePrograms, forms, terms, consents, submitted, reviewerOf, reviews, conflictOf, audit>>
  BY DEF I!AutosaveDraft, I!queueVars
<1>3. form \in Nat \ {0}
  <2>1. I!Get(forms, p, <<>>) \in Seq(Forms)
    BY <1>1 DEF I!Get, IntakeRecords
  <2>2. Len(I!Get(forms, p, <<>>)) \in Nat
    BY <2>1
  <2>3. QED BY <1>1, <1>2, <2>2 DEF I!Has, I!Draft, IntakeRecords
<1> HIDE DEF form
<1>4. d \in I!Draft
  BY <1>3 DEF I!Draft
<1> HIDE DEF d
<1>5. drafts \in [DOMAIN drafts -> I!Draft]
  BY <1>1 DEF IntakeRecords
<1>6. drafts' \in [DOMAIN drafts' -> I!Draft] /\ DOMAIN drafts' = DOMAIN drafts \cup {<<who, p>>}
  <2>1. drafts' = I!Set(drafts, <<who, p>>, d)
    BY <1>2
  <2>2. drafts' \in [DOMAIN drafts' -> I!Draft]
    BY ONLY <2>1, <1>4, <1>5, SetWrites, Zenon
  <2>3. DOMAIN drafts' = DOMAIN drafts \cup {<<who, p>>}
    BY ONLY <2>1, Zenon DEF I!Set
  <2>4. QED BY ONLY <2>2, <2>3, Zenon
<1>7. IntakeRecords'
  BY <1>1, <1>2, <1>6 DEF IntakeRecords
<1>8. \A k \in DOMAIN drafts' : k \in DOMAIN drafts \/ ~I!HasApplied(k[1], k[2])
  BY <1>2, <1>6
<1>9. QED BY <1>2, <1>7, <1>8, ApplicantStep

LEMMA DiscardDraftPreserves ==
  ASSUME IntakeInv, NEW who, NEW p, NEW expected, I!DiscardDraft(who, p, expected)
  PROVE  IntakeInv'
<1>1. IntakeRecords
  BY IntakeRecordsTyped
<1>2. /\ drafts' = I!Remove(drafts, {<<who, p>>})
      /\ UNCHANGED <<intakePrograms, forms, terms, consents, submitted, reviewerOf, reviews, conflictOf, audit>>
  BY DEF I!DiscardDraft, I!queueVars
<1>3. drafts' \in [DOMAIN drafts' -> I!Draft] /\ DOMAIN drafts' \subseteq DOMAIN drafts
  BY <1>1, <1>2 DEF I!Remove, IntakeRecords
<1>4. IntakeRecords'
  BY <1>1, <1>2, <1>3 DEF IntakeRecords
<1>5. QED BY <1>2, <1>3, <1>4, ApplicantStep

\* The application is the applicant's first for the program, and its draft goes with it.
LEMMA SubmitApplicationPreserves ==
  ASSUME IntakeInv, NEW who \in Applicants, NEW p \in Programs, NEW version \in Nat \ {0},
         NEW sheet \in AnswerSheets, NEW affirmed, I!SubmitApplication(who, p, version, sheet, affirmed)
  PROVE  IntakeInv'
<1>1. IntakeRecords
  BY IntakeRecordsTyped
<1> DEFINE s == [applicant |-> who, program |-> p, form |-> version,
                 consent |-> consents[<<who, p>>].version, answers |-> I!Cardinality(DOMAIN sheet)]
           r == [priority |-> "Normal", status |-> "Pending", assignee |-> Nobody, due |-> 0,
                 decided_by |-> Nobody, outcome |-> "Undecided"]
           id == Len(submitted) + 1
<1>2. /\ <<who, p>> \in DOMAIN consents /\ ~I!HasApplied(who, p)
      /\ submitted' = Append(submitted, s)
      /\ reviews' = I!Set(reviews, id, r)
      /\ drafts' = I!Remove(drafts, {<<who, p>>})
      /\ UNCHANGED <<intakePrograms, forms, terms, consents, reviewerOf, conflictOf, audit>>
  BY DEF I!SubmitApplication, I!HasValidConsent, I!Has, I!DropDraft
<1>3. I!Cardinality(DOMAIN sheet) \in Nat
  <2>1. IsFiniteSet(DOMAIN sheet)
    BY ApplicationConstants
  <2>2. Cardinality(DOMAIN sheet) \in Nat
    BY <2>1, FS_CardinalityType
  <2>3. I!Cardinality(DOMAIN sheet) = Cardinality(DOMAIN sheet)
    BY Zenon DEF Cardinality, I!Cardinality
  <2>4. QED BY <2>2, <2>3
<1>4. s \in I!Submission /\ s.applicant = who /\ s.program = p
  <2>1. consents[<<who, p>>].version \in Nat \ {0}
    BY <1>1, <1>2 DEF IntakeRecords
  <2>2. QED BY <1>3, <2>1 DEF I!Submission
<1>5. r \in I!ReviewState /\ r.status = "Pending" /\ r.assignee = Nobody
  BY ApplicationConstants DEF I!ReviewState
<1> HIDE DEF s, r
<1>6. submitted \in Seq(I!Submission) /\ reviews \in [DOMAIN submitted -> I!ReviewState]
  BY DEF IntakeInv, I!TypeOK
<1>7. /\ submitted' \in Seq(I!Submission) /\ id \notin DOMAIN submitted /\ id \in Nat
      /\ DOMAIN submitted' = DOMAIN submitted \cup {id}
      /\ \A a \in DOMAIN submitted : submitted'[a] = submitted[a]
      /\ submitted'[id] = s
  BY <1>2, <1>4, <1>6
<1> HIDE DEF id
<1>8. /\ reviews' \in [DOMAIN submitted' -> I!ReviewState] /\ reviews'[id] = r
      /\ \A a \in DOMAIN submitted : reviews'[a] = reviews[a]
  BY <1>2, <1>5, <1>6, <1>7 DEF I!Set
<1>9. drafts' \in [DOMAIN drafts' -> I!Draft] /\ DOMAIN drafts' = DOMAIN drafts \ {<<who, p>>}
      /\ drafts' \in [DOMAIN drafts \ {<<who, p>>} -> I!Draft]
  BY <1>1, <1>2 DEF I!Remove, IntakeRecords
<1>10. IntakeRecords'
  BY <1>1, <1>2, <1>9 DEF IntakeRecords
<1>11. I!TypeOK'
  <2>1. \A a \in DOMAIN submitted' : submitted'[a] \in I!Submission
    BY <1>4, <1>6, <1>7
  <2>2. QED BY <1>2, <1>8, <1>10, <2>1 DEF IntakeInv, IntakeRecords, I!TypeOK
<1>12. I!OneSubmission'
  <2>1. \A a, b \in DOMAIN submitted' :
           submitted'[a].applicant = submitted'[b].applicant
               /\ submitted'[a].program = submitted'[b].program => a = b
    <3>1. \A a \in DOMAIN submitted : ~(submitted[a].applicant = who /\ submitted[a].program = p)
      BY <1>2 DEF I!HasApplied
    <3>2. QED BY <1>4, <1>7, <3>1 DEF IntakeInv, I!OneSubmission
  <2>2. \A k \in DOMAIN drafts' : ~(I!HasApplied(k[1], k[2]))'
    <3> SUFFICES ASSUME NEW k \in DOMAIN drafts',
                        NEW a \in DOMAIN submitted', submitted'[a].applicant = k[1],
                        submitted'[a].program = k[2]
                 PROVE FALSE
      BY DEF I!HasApplied
    <3>1. k \in DOMAIN drafts /\ k # <<who, p>> /\ ~I!HasApplied(k[1], k[2])
      BY <1>9 DEF IntakeInv, I!OneSubmission
    <3>2. a = id
      BY <1>7, <3>1 DEF I!HasApplied
    <3>3. k[1] = who /\ k[2] = p
      BY <1>4, <1>7, <3>2
    <3>4. k = <<k[1], k[2]>>
      BY <3>1 DEF IntakeInv
    <3>5. QED BY <3>1, <3>3, <3>4
  <2>3. QED BY <2>1, <2>2 DEF I!OneSubmission
<1>13. I!DecidedWithoutConflict'
  BY <1>2, <1>5, <1>6, <1>7, <1>8 DEF IntakeInv, I!DecidedWithoutConflict
<1>14. \A a \in DOMAIN reviews' :
         reviews'[a].assignee # Nobody \/ reviews'[a].status = "Decided" => a \in DOMAIN audit'
  BY <1>2, <1>5, <1>6, <1>7, <1>8 DEF IntakeInv
<1>15. QED BY <1>7, <1>10, <1>11, <1>12, <1>13, <1>14 DEF IntakeInv, IntakeRecords

LEMMA AuditGrows ==
  ASSUME IntakeInv, NEW a, I!AppendAudit(a)
  PROVE  /\ audit' \in [DOMAIN audit' -> 1..MAX_INTAKE_AUDIT]
         /\ DOMAIN audit' = DOMAIN audit \cup {a}
         /\ \A b \in DOMAIN audit : audit'[b] >= audit[b]
         /\ a \in DOMAIN audit => audit'[a] >= 2
<1> DEFINE n == I!Get(audit, a, 0)
<1>1. audit \in [DOMAIN audit -> 1..MAX_INTAKE_AUDIT]
  BY DEF IntakeInv, I!TypeOK
<1>2. n < MAX_INTAKE_AUDIT /\ audit' = I!Set(audit, a, n + 1)
  BY DEF I!AppendAudit
<1>3. n \in Nat /\ (a \in DOMAIN audit => n = audit[a] /\ n >= 1)
  BY <1>1 DEF I!Get, I!Has
<1> HIDE DEF n
<1>4. n + 1 \in 1..MAX_INTAKE_AUDIT
  BY <1>2, <1>3, ApplicationConstants
<1>5. DOMAIN audit' = DOMAIN audit \cup {a} /\ audit'[a] = n + 1
      /\ \A b \in DOMAIN audit \ {a} : audit'[b] = audit[b]
  BY <1>2 DEF I!Set
<1>6. audit' \in [DOMAIN audit' -> 1..MAX_INTAKE_AUDIT]
  BY <1>1, <1>2, <1>4 DEF I!Set
<1>7. QED BY <1>1, <1>3, <1>5, <1>6

\* A decision stays good while the trail grows and no conflict is added on it.
LEMMA DecidedKept ==
  ASSUME IntakeInv, NEW a \in DOMAIN submitted, I!AppendAudit(a),
         NEW b \in DOMAIN submitted, reviews[b].status = "Decided"
  PROVE  /\ reviews[b].decided_by = reviews[b].assignee
         /\ <<reviews[b].decided_by, b>> \notin conflictOf
         /\ audit'[b] >= 2
<1>1. reviews \in [DOMAIN submitted -> I!ReviewState] /\ audit \in [DOMAIN audit -> 1..MAX_INTAKE_AUDIT]
  BY DEF IntakeInv, I!TypeOK
<1>2. /\ reviews[b].decided_by = reviews[b].assignee
      /\ <<reviews[b].decided_by, b>> \notin conflictOf
      /\ audit[b] >= 2 /\ b \in DOMAIN audit
  BY <1>1 DEF IntakeInv, I!DecidedWithoutConflict
<1>3. audit[b] \in Nat /\ audit'[b] \in Nat /\ audit'[b] >= audit[b]
  <2>1. /\ audit' \in [DOMAIN audit' -> 1..MAX_INTAKE_AUDIT]
        /\ b \in DOMAIN audit' /\ audit'[b] >= audit[b]
    BY <1>2, AuditGrows
  <2>2. audit[b] \in 1..MAX_INTAKE_AUDIT /\ audit'[b] \in 1..MAX_INTAKE_AUDIT
    BY <1>1, <1>2, <2>1
  <2>3. QED BY <2>1, <2>2, ApplicationConstants
<1>4. QED BY <1>2, <1>3

\* One review is written, with an entry in the trail: what a decision needs is checked on it.
LEMMA ReviewStep ==
  ASSUME IntakeInv, NEW a \in DOMAIN submitted, NEW r \in I!ReviewState, I!AppendAudit(a),
         reviews' = [reviews EXCEPT ![a] = r],
         UNCHANGED <<intakePrograms, forms, terms, consents, drafts, submitted, reviewerOf, conflictOf>>,
         r.status = "Decided" => /\ r.decided_by = r.assignee
                                 /\ <<r.decided_by, a>> \notin conflictOf
                                 /\ a \in DOMAIN audit
  PROVE  IntakeInv'
<1>1. reviews \in [DOMAIN submitted -> I!ReviewState]
  BY DEF IntakeInv, I!TypeOK
<1>2. /\ audit' \in [DOMAIN audit' -> 1..MAX_INTAKE_AUDIT]
      /\ DOMAIN audit' = DOMAIN audit \cup {a}
      /\ a \in DOMAIN audit => audit'[a] >= 2
  BY AuditGrows
<1>3. /\ reviews' \in [DOMAIN submitted -> I!ReviewState] /\ reviews'[a] = r
      /\ \A b \in DOMAIN submitted \ {a} : reviews'[b] = reviews[b]
  BY <1>1
<1>4. I!TypeOK'
  BY <1>2, <1>3 DEF IntakeInv, I!TypeOK
<1>5. I!OneSubmission'
  BY DEF IntakeInv, I!OneSubmission, I!HasApplied
<1>6. I!DecidedWithoutConflict'
  <2> SUFFICES ASSUME NEW b \in DOMAIN submitted, reviews'[b].status = "Decided"
               PROVE  /\ reviews'[b].decided_by = reviews'[b].assignee
                      /\ <<reviews'[b].decided_by, b>> \notin conflictOf
                      /\ audit'[b] >= 2
    BY <1>3 DEF I!DecidedWithoutConflict
  <2>1. CASE b = a
    BY <2>1, <1>2, <1>3
  <2>2. CASE b # a
    <3>1. reviews'[b] = reviews[b]
      BY <2>2, <1>3
    <3>2. QED BY <3>1, DecidedKept
  <2>3. QED BY <2>1, <2>2
<1>7. \A b \in DOMAIN reviews' :
         reviews'[b].assignee # Nobody \/ reviews'[b].status = "Decided" => b \in DOMAIN audit'
  BY <1>1, <1>2, <1>3 DEF IntakeInv
<1>8. QED BY <1>4, <1>5, <1>6, <1>7 DEF IntakeInv

LEMMA SetPriorityPreserves ==
  ASSUME IntakeInv, NEW caller, NEW a \in DOMAIN submitted, NEW priority \in Priorities,
         I!SetPriority(caller, a, priority)
  PROVE  IntakeInv'
<1> DEFINE r == [reviews[a] EXCEPT !.priority = priority]
<1>1. /\ reviews[a].status # "Decided" /\ I!AppendAudit(a)
      /\ reviews' = [reviews EXCEPT ![a] = r]
      /\ UNCHANGED <<intakePrograms, forms, terms, consents, drafts, submitted, reviewerOf, conflictOf>>
  BY DEF I!SetPriority, I!applicantVars
<1>2. reviews[a] \in I!ReviewState
  BY DEF IntakeInv, I!TypeOK
<1>3. r \in I!ReviewState /\ r.status # "Decided"
  BY <1>1, <1>2 DEF I!ReviewState
<1> HIDE DEF r
<1>4. QED BY <1>1, <1>3, ReviewStep

LEMMA AssignReviewerPreserves ==
  ASSUME IntakeInv, NEW caller, NEW a \in DOMAIN submitted, NEW who \in IntakeReviewers, NEW expected,
         NEW due \in DueDates, I!AssignReviewer(caller, a, who, expected, due)
  PROVE  IntakeInv'
<1> DEFINE r == [reviews[a] EXCEPT !.assignee = who, !.due = due, !.status = "Assigned"]
<1>1. /\ I!AppendAudit(a)
      /\ reviews' = [reviews EXCEPT ![a].assignee = who, ![a].due = due, ![a].status = "Assigned"]
      /\ UNCHANGED <<intakePrograms, forms, terms, consents, drafts, submitted, reviewerOf, conflictOf>>
  BY DEF I!AssignReviewer, I!applicantVars
<1>2. reviews[a] \in I!ReviewState /\ reviews \in [DOMAIN submitted -> I!ReviewState]
  BY DEF IntakeInv, I!TypeOK
<1>3. r \in I!ReviewState /\ r.status # "Decided"
  BY <1>2 DEF I!ReviewState
<1>4. reviews' = [reviews EXCEPT ![a] = r]
  BY <1>1, <1>2
<1> HIDE DEF r
<1>5. QED BY <1>1, <1>3, <1>4, ReviewStep

\* The assigned reviewer decides: the assignment left an entry in the trail.
LEMMA RecordDecisionPreserves ==
  ASSUME IntakeInv, NEW a \in DOMAIN submitted, NEW who \in IntakeReviewers,
         NEW outcome \in {"Accepted", "Rejected"}, I!RecordDecision(who, a, outcome)
  PROVE  IntakeInv'
<1> DEFINE r == [reviews[a] EXCEPT !.status = "Decided", !.decided_by = who, !.outcome = outcome]
<1>1. /\ I!AppendAudit(a) /\ reviews[a].assignee = who /\ <<who, a>> \notin conflictOf
      /\ reviews' = [reviews EXCEPT ![a].status = "Decided", ![a].decided_by = who,
                                    ![a].outcome = outcome]
      /\ UNCHANGED <<intakePrograms, forms, terms, consents, drafts, submitted, reviewerOf, conflictOf>>
  BY DEF I!RecordDecision, I!applicantVars
<1>2. reviews[a] \in I!ReviewState /\ reviews \in [DOMAIN submitted -> I!ReviewState]
  BY DEF IntakeInv, I!TypeOK
<1>3. r \in I!ReviewState /\ r.decided_by = who /\ r.assignee = who
  BY <1>1, <1>2 DEF I!ReviewState
<1>4. reviews' = [reviews EXCEPT ![a] = r]
  BY <1>1, <1>2
<1>5. a \in DOMAIN audit
  BY <1>1, <1>2, ApplicationConstants DEF IntakeInv
<1> HIDE DEF r
<1>6. QED BY <1>1, <1>3, <1>4, <1>5, ReviewStep

\* A conflict is declared only on an application that is not decided.
LEMMA DeclareConflictPreserves ==
  ASSUME IntakeInv, NEW a \in DOMAIN submitted, NEW who, NEW declared \in BOOLEAN,
         I!DeclareConflict(who, a, declared)
  PROVE  IntakeInv'
<1>1. /\ I!AppendAudit(a) /\ reviews[a].status # "Decided"
      /\ conflictOf' \subseteq conflictOf \cup {<<who, a>>}
      /\ UNCHANGED <<intakePrograms, forms, terms, consents, drafts, submitted, reviewerOf, reviews>>
  BY DEF I!DeclareConflict, I!Undecided, I!applicantVars
<1>2. /\ audit' \in [DOMAIN audit' -> 1..MAX_INTAKE_AUDIT]
      /\ DOMAIN audit' = DOMAIN audit \cup {a}
  BY <1>1, AuditGrows
<1>3. reviews \in [DOMAIN submitted -> I!ReviewState]
  BY DEF IntakeInv, I!TypeOK
<1>4. I!TypeOK'
  BY <1>1, <1>2 DEF IntakeInv, I!TypeOK
<1>5. I!OneSubmission'
  BY <1>1 DEF IntakeInv, I!OneSubmission, I!HasApplied
<1>6. I!DecidedWithoutConflict'
  <2> SUFFICES ASSUME NEW b \in DOMAIN submitted, reviews[b].status = "Decided"
               PROVE  /\ reviews[b].decided_by = reviews[b].assignee
                      /\ <<reviews[b].decided_by, b>> \notin conflictOf'
                      /\ audit'[b] >= 2
    BY <1>1, <1>3 DEF I!DecidedWithoutConflict
  <2>1. /\ reviews[b].decided_by = reviews[b].assignee
        /\ <<reviews[b].decided_by, b>> \notin conflictOf
        /\ audit'[b] >= 2
    BY <1>1, DecidedKept
  <2>2. QED BY <1>1, <2>1
<1>7. \A b \in DOMAIN reviews' :
         reviews'[b].assignee # Nobody \/ reviews'[b].status = "Decided" => b \in DOMAIN audit'
  BY <1>1, <1>2, <1>3 DEF IntakeInv
<1>8. QED BY <1>1, <1>4, <1>5, <1>6, <1>7 DEF IntakeInv

LEMMA IntakeNext ==
  ASSUME IntakeInv, I!Next
  PROVE  IntakeInv'
<1>1. CASE I!AdminNext
  BY <1>1, RegisterProgramPreserves, SetProgramActivePreserves, PublishFormPreserves,
     PublishConsentTermsPreserves, RevokeReviewerPreserves, GrantReviewerPreserves, Zenon DEF I!AdminNext
<1>2. CASE I!ApplicantNext
  <2>1. 0..MaxRevision \subseteq Nat /\ 1..MaxFormVersion \subseteq Nat \ {0}
    OBVIOUS
  <2>2. PICK who \in Applicants, p \in Programs :
           \/ I!RecordConsent(who, p)
           \/ I!RevokeConsent(who, p)
           \/ \E base \in 0..MaxRevision, token \in Tokens, sheet \in AnswerSheets :
                  I!AutosaveDraft(who, p, base, token, DOMAIN sheet)
           \/ \E expected \in 1..MaxRevision : I!DiscardDraft(who, p, expected)
           \/ \E version \in 1..MaxFormVersion, sheet \in AnswerSheets, affirmed \in BOOLEAN :
                  I!SubmitApplication(who, p, version, sheet, affirmed)
    BY <1>2, Zenon DEF I!ApplicantNext
  <2>3. CASE \E base \in 0..MaxRevision, token \in Tokens, sheet \in AnswerSheets :
                 I!AutosaveDraft(who, p, base, token, DOMAIN sheet)
    <3>1. PICK base \in 0..MaxRevision, token \in Tokens, sheet \in AnswerSheets :
              I!AutosaveDraft(who, p, base, token, DOMAIN sheet)
      BY <2>3, Zenon
    <3>2. base \in Nat
      BY <2>1
    <3>3. QED BY <3>1, <3>2, AutosaveDraftPreserves, Zenon
  <2>4. CASE \E version \in 1..MaxFormVersion, sheet \in AnswerSheets, affirmed \in BOOLEAN :
                 I!SubmitApplication(who, p, version, sheet, affirmed)
    <3>1. PICK version \in 1..MaxFormVersion, sheet \in AnswerSheets, affirmed \in BOOLEAN :
              I!SubmitApplication(who, p, version, sheet, affirmed)
      BY <2>4, Zenon
    <3>2. version \in Nat \ {0}
      BY <2>1
    <3>3. QED BY <3>1, <3>2, SubmitApplicationPreserves, Zenon
  <2>5. QED BY <2>2, <2>3, <2>4, RecordConsentPreserves, RevokeConsentPreserves,
               DiscardDraftPreserves, Zenon
<1>3. CASE I!ReviewerNext
  BY <1>3, SetPriorityPreserves, AssignReviewerPreserves, DeclareConflictPreserves,
     RecordDecisionPreserves, Zenon DEF I!ReviewerNext
<1>4. QED BY <1>1, <1>2, <1>3 DEF I!Next

LEMMA IntakeUnchanged == IntakeInv /\ UNCHANGED intakeVars => IntakeInv'
BY DEF IntakeInv, intakeVars, I!TypeOK, I!OneSubmission, I!HasApplied, I!DecidedWithoutConflict

\* The order compares ranks, then due dates with 0 last, then ids: one of two entries
\* comes first.
LEMMA QueueOrdered == IntakeInv => I!QueueTotallyOrdered
<1> SUFFICES ASSUME IntakeInv, NEW a \in DOMAIN submitted, NEW b \in DOMAIN submitted, a # b
             PROVE  I!QueueEntryBefore(a, b) <=> ~I!QueueEntryBefore(b, a)
  BY DEF I!QueueTotallyOrdered, I!Queue
<1>1. submitted \in Seq(I!Submission) /\ reviews \in [DOMAIN submitted -> I!ReviewState]
  BY DEF IntakeInv, I!TypeOK
<1>2. a \in Nat /\ b \in Nat
  BY <1>1
<1>3. /\ reviews[a].due \in Nat /\ reviews[b].due \in Nat
      /\ reviews[a].priority \in {"Low", "Normal", "High", "Urgent"}
      /\ reviews[b].priority \in {"Low", "Normal", "High", "Urgent"}
  <2>1. reviews[a] \in I!ReviewState /\ reviews[b] \in I!ReviewState
    BY <1>1
  <2>2. \A r \in I!ReviewState : r.due \in DueDates \cup {0} /\ r.priority \in Priorities
    BY DEF I!ReviewState
  <2>3. DueDates \cup {0} \subseteq Nat /\ Priorities \subseteq {"Low", "Normal", "High", "Urgent"}
    BY ApplicationConstants
  <2>4. QED BY <2>1, <2>2, <2>3, Zenon
<1>4. \A x, y \in {"Low", "Normal", "High", "Urgent"} :
        /\ I!PriorityRank[x] \in Nat
        /\ x # y => I!PriorityRank[x] > I!PriorityRank[y] \/ I!PriorityRank[y] > I!PriorityRank[x]
  BY DEF I!PriorityRank
<1> DEFINE x == reviews[a].priority
           y == reviews[b].priority
           u == reviews[a].due
           v == reviews[b].due
<1>5. I!QueueEntryBefore(a, b) <=>
         \/ I!PriorityRank[x] > I!PriorityRank[y]
         \/ x = y /\ (I!DueBefore(u, v) \/ (u = v /\ a < b))
  BY DEF I!QueueEntryBefore
<1>6. I!QueueEntryBefore(b, a) <=>
         \/ I!PriorityRank[y] > I!PriorityRank[x]
         \/ y = x /\ (I!DueBefore(v, u) \/ (v = u /\ b < a))
  BY DEF I!QueueEntryBefore
<1> HIDE DEF x, y, u, v
<1>7. u \in Nat /\ v \in Nat /\ x \in {"Low", "Normal", "High", "Urgent"}
      /\ y \in {"Low", "Normal", "High", "Urgent"}
  BY <1>3 DEF x, y, u, v
<1>8. I!DueBefore(u, v) \/ I!DueBefore(v, u) \/ u = v
  BY <1>7 DEF I!DueBefore
<1>9. ~(I!DueBefore(u, v) /\ I!DueBefore(v, u)) /\ (I!DueBefore(u, v) => u # v)
      /\ (I!DueBefore(v, u) => u # v)
  BY <1>7 DEF I!DueBefore
<1>10. CASE x = y
  <2>1. ~(I!PriorityRank[x] > I!PriorityRank[y]) /\ ~(I!PriorityRank[y] > I!PriorityRank[x])
    BY <1>10, <1>4, <1>7
  <2>2. (a < b) <=> ~(b < a)
    BY <1>2
  <2>3. QED BY <1>5, <1>6, <1>8, <1>9, <1>10, <2>1, <2>2
<1>11. CASE x # y
  <2>1. (I!PriorityRank[x] > I!PriorityRank[y]) <=> ~(I!PriorityRank[y] > I!PriorityRank[x])
    BY <1>11, <1>4, <1>7
  <2>2. QED BY <1>5, <1>6, <1>11, <2>1
<1>12. QED BY <1>10, <1>11

LEMMA IntakeHolds ==
  IntakeInv => I!TypeOK /\ I!OneSubmission /\ I!DecidedWithoutConflict /\ I!QueueTotallyOrdered
BY QueueOrdered DEF IntakeInv

-----------------------------------------------------------------------------
(* Admissions *)

OpenOf(list, p) == {a \in DOMAIN list : list[a].program = p /\ ~D!IsFinal(list[a].status)}

\* Beside the properties: an attempt before this one is recorded as reapplied from, which
\* is why no second reapplication can follow it.
AdmissionsInv ==
    /\ now \in Nat /\ D!TypeOK
    /\ \A p \in Programs : D!Get(activeCount, p, 0) = Cardinality(OpenOf(apps, p))
    /\ D!ChainedAttempts
    /\ \A a \in DOMAIN apps : apps[a].previous # 0 => apps[a].previous \in DOMAIN reappliedFrom

\* HistoryStands, for one step.
HistoryKept ==
    \A a \in DOMAIN apps :
        LET n == Len(apps[a].history)
        IN /\ SubSeq(apps'[a].history, 1, n) = apps[a].history
           /\ D!IsFinal(apps[a].status) => apps'[a] = apps[a]

LEMMA OpenFinite ==
  ASSUME NEW list \in Seq(D!Admission), NEW p
  PROVE  IsFiniteSet(OpenOf(list, p)) /\ Cardinality(OpenOf(list, p)) \in Nat
<1>1. OpenOf(list, p) \in SUBSET (1..Len(list)) /\ Len(list) \in Int
  BY DEF OpenOf
<1>2. IsFiniteSet(OpenOf(list, p))
  BY <1>1, FS_Interval, FS_Subset
<1>3. QED BY <1>2, FS_CardinalityType

LEMMA AdmissionsInitial == D!Init /\ now = 1 => AdmissionsInv
<1> SUFFICES ASSUME D!Init, now = 1 PROVE AdmissionsInv
  OBVIOUS
<1>1. /\ coordinatorRole = {} /\ policyOf = D!Empty /\ apps = <<>> /\ activeCount = D!Empty
      /\ reappliedFrom = D!Empty
  BY DEF D!Init
<1>2. DOMAIN D!Empty = {} /\ \A S : D!Empty \in [{} -> S]
  BY DEF D!Empty
<1>3. apps \in Seq(D!Admission) /\ DOMAIN apps = {}
  BY <1>1
<1>4. \A p : OpenOf(apps, p) = {}
  BY <1>3 DEF OpenOf
<1>5. \A p : D!Get(activeCount, p, 0) = 0
  BY <1>1, <1>2 DEF D!Get
<1>6. QED BY <1>1, <1>2, <1>3, <1>4, <1>5, FS_EmptySet
          DEF AdmissionsInv, D!TypeOK, D!ChainedAttempts

\* What a step that leaves every application alone keeps of the histories.
LEMMA HistoriesFull ==
  ASSUME AdmissionsInv, NEW a \in DOMAIN apps, apps'[a] = apps[a]
  PROVE  LET n == Len(apps[a].history)
         IN /\ SubSeq(apps'[a].history, 1, n) = apps[a].history
            /\ D!IsFinal(apps[a].status) => apps'[a] = apps[a]
<1>1. apps[a] \in D!Admission
  BY DEF AdmissionsInv, D!TypeOK
<1>2. apps[a].history \in Seq(D!DecisionRecord)
  BY <1>1 DEF D!Admission
<1>3. SubSeq(apps[a].history, 1, Len(apps[a].history)) = apps[a].history
  BY <1>2, SubSeqFull
<1>4. QED BY <1>3

\* The policies and the roles change, the applications do not.
LEMMA RulesStep ==
  ASSUME AdmissionsInv, now' \in Nat, UNCHANGED <<apps, activeCount, reappliedFrom>>,
         coordinatorRole' \subseteq Officers,
         policyOf' \in [DOMAIN policyOf' -> AdmissionPolicies], DOMAIN policyOf' \subseteq Programs
  PROVE  AdmissionsInv' /\ HistoryKept
<1>1. AdmissionsInv'
  BY DEF AdmissionsInv, D!TypeOK, D!ChainedAttempts
<1>2. HistoryKept
  BY HistoriesFull DEF HistoryKept
<1>3. QED BY <1>1, <1>2

LEMMA SetProgramPolicyPreserves ==
  ASSUME AdmissionsInv, UNCHANGED now, NEW p \in Programs, NEW policy \in AdmissionPolicies,
         D!SetProgramPolicy(p, policy)
  PROVE  AdmissionsInv' /\ HistoryKept
<1>1. /\ policyOf' = D!Set(policyOf, p, policy)
      /\ UNCHANGED <<coordinatorRole, apps, activeCount, reappliedFrom>>
  BY DEF D!SetProgramPolicy
<1>2. now \in Nat /\ coordinatorRole \subseteq Officers /\ DOMAIN policyOf \subseteq Programs
      /\ policyOf \in [DOMAIN policyOf -> AdmissionPolicies]
  BY DEF AdmissionsInv, D!TypeOK
<1>3. policyOf' \in [DOMAIN policyOf' -> AdmissionPolicies] /\ DOMAIN policyOf' \subseteq Programs
  BY <1>1, <1>2 DEF D!Set
<1>4. QED BY <1>1, <1>2, <1>3, RulesStep

LEMMA SetCoordinatorPreserves ==
  ASSUME AdmissionsInv, UNCHANGED now, NEW who \in Officers, NEW allowed, D!SetCoordinator(who, allowed)
  PROVE  AdmissionsInv' /\ HistoryKept
<1>1. /\ coordinatorRole' \subseteq coordinatorRole \cup {who}
      /\ UNCHANGED <<policyOf, apps, activeCount, reappliedFrom>>
  BY DEF D!SetCoordinator
<1>2. now \in Nat /\ coordinatorRole \subseteq Officers /\ DOMAIN policyOf \subseteq Programs
      /\ policyOf \in [DOMAIN policyOf -> AdmissionPolicies]
  BY DEF AdmissionsInv, D!TypeOK
<1>3. QED BY <1>1, <1>2, RulesStep

\* A new application takes the slot it reserved.
LEMMA SlotTaken ==
  ASSUME AdmissionsInv, NEW p \in Programs, NEW r \in D!Admission, r.program = p,
         r.status = "Submitted", D!ReserveSlot(p), apps' = Append(apps, r)
  PROVE  /\ activeCount' \in [DOMAIN activeCount' -> Nat]
         /\ \A q \in Programs : D!Get(activeCount', q, 0) = Cardinality(OpenOf(apps', q))
<1> DEFINE n == D!Get(activeCount, p, 0)
           id == Len(apps) + 1
<1>1. activeCount \in [DOMAIN activeCount -> Nat] /\ apps \in Seq(D!Admission)
  BY DEF AdmissionsInv, D!TypeOK
<1>2. n \in Nat /\ activeCount' = D!Set(activeCount, p, n + 1)
  BY <1>1 DEF D!ReserveSlot, D!Get
<1> HIDE DEF n
<1>3. activeCount' \in [DOMAIN activeCount' -> Nat] /\ D!Get(activeCount', p, 0) = n + 1
      /\ \A q \in Programs \ {p} : D!Get(activeCount', q, 0) = D!Get(activeCount, q, 0)
  BY <1>1, <1>2 DEF D!Set, D!Get
<1>4. /\ id \notin DOMAIN apps /\ DOMAIN apps' = DOMAIN apps \cup {id} /\ apps'[id] = r
      /\ \A a \in DOMAIN apps : apps'[a] = apps[a]
  BY <1>1
<1> HIDE DEF id
<1>5. ~D!IsFinal(r.status)
  BY DEF D!IsFinal
<1>6. OpenOf(apps', p) = OpenOf(apps, p) \cup {id} /\ id \notin OpenOf(apps, p)
  BY <1>4, <1>5 DEF OpenOf
<1>7. Cardinality(OpenOf(apps', p)) = Cardinality(OpenOf(apps, p)) + 1
  BY <1>1, <1>6, OpenFinite, FS_AddElement
<1>8. \A q \in Programs \ {p} : OpenOf(apps', q) = OpenOf(apps, q)
  BY <1>4 DEF OpenOf
<1>9. n = Cardinality(OpenOf(apps, p))
  BY DEF AdmissionsInv, n
<1>10. \A q \in Programs : D!Get(activeCount', q, 0) = Cardinality(OpenOf(apps', q))
  <2> TAKE q \in Programs
  <2>1. CASE q = p
    BY <1>3, <1>7, <1>9, <2>1
  <2>2. CASE q # p
    BY <1>3, <1>8, <2>2 DEF AdmissionsInv
  <2>3. QED BY <2>1, <2>2
<1>11. QED BY <1>3, <1>10

LEMMA OpenApplicationPreserves ==
  ASSUME AdmissionsInv, UNCHANGED now, NEW who \in Applicants, NEW p \in Programs,
         NEW c \in ConsentVersions, D!OpenApplication(who, p, c)
  PROVE  AdmissionsInv' /\ HistoryKept
<1> DEFINE r == [program |-> p, applicant |-> who, attempt |-> 1, status |-> "Submitted",
                 consent |-> c, previous |-> 0, closed |-> 0, history |-> <<>>]
<1>1. /\ D!ReserveSlot(p) /\ apps' = Append(apps, r)
      /\ UNCHANGED <<coordinatorRole, policyOf, reappliedFrom>>
  BY DEF D!OpenApplication, D!CreateApplication
<1>2. /\ r \in D!Admission /\ r.program = p /\ r.status = "Submitted" /\ r.previous = 0
      /\ r.attempt = 1
  BY DEF D!Admission, D!ApplicationStatus
<1> HIDE DEF r
<1>3. /\ activeCount' \in [DOMAIN activeCount' -> Nat]
      /\ \A q \in Programs : D!Get(activeCount', q, 0) = Cardinality(OpenOf(apps', q))
  BY <1>1, <1>2, SlotTaken
<1>4. apps \in Seq(D!Admission) /\ DOMAIN reappliedFrom \subseteq DOMAIN apps
  BY DEF AdmissionsInv, D!TypeOK
<1> DEFINE id == Len(apps) + 1
<1>5. /\ apps' \in Seq(D!Admission) /\ DOMAIN apps' = DOMAIN apps \cup {id} /\ apps'[id] = r
      /\ \A a \in DOMAIN apps : apps'[a] = apps[a]
  BY <1>1, <1>2, <1>4
<1> HIDE DEF id
<1>6. D!TypeOK'
  BY <1>1, <1>3, <1>4, <1>5 DEF AdmissionsInv, D!TypeOK
<1>7. \A a \in DOMAIN apps : apps[a].previous # 0 => apps[a].previous \in DOMAIN apps
  BY <1>4 DEF AdmissionsInv
<1>8. D!ChainedAttempts'
  <2> SUFFICES ASSUME NEW a \in DOMAIN apps'
               PROVE LET q == apps'[a].previous
                     IN IF q = 0
                          THEN apps'[a].attempt = 1
                          ELSE /\ reappliedFrom'[q] = a
                               /\ apps'[q].applicant = apps'[a].applicant
                               /\ apps'[q].program = apps'[a].program
                               /\ apps'[q].status \in {"Withdrawn", "Rejected"}
                               /\ apps'[a].attempt = apps'[q].attempt + 1
                               /\ apps'[a].consent >= apps'[q].consent
    BY DEF D!ChainedAttempts
  <2>1. CASE a = id
    BY <2>1, <1>2, <1>5
  <2>2. CASE a \in DOMAIN apps
    BY <2>2, <1>1, <1>5, <1>7 DEF AdmissionsInv, D!ChainedAttempts
  <2>3. QED BY <1>5, <2>1, <2>2
<1>9. \A a \in DOMAIN apps' : apps'[a].previous # 0 => apps'[a].previous \in DOMAIN reappliedFrom'
  BY <1>1, <1>2, <1>5 DEF AdmissionsInv
<1>10. HistoryKept
  BY <1>5, HistoriesFull DEF HistoryKept
<1>11. QED BY <1>3, <1>6, <1>8, <1>9, <1>10 DEF AdmissionsInv

\* The attempt that is followed was closed and not followed before.
LEMMA ReapplyPreserves ==
  ASSUME AdmissionsInv, UNCHANGED now, NEW caller \in Applicants, NEW b \in DOMAIN apps,
         NEW c \in ConsentVersions, D!Reapply(caller, b, c)
  PROVE  AdmissionsInv' /\ HistoryKept
<1> DEFINE r == [program |-> apps[b].program, applicant |-> caller, attempt |-> apps[b].attempt + 1,
                 status |-> "Submitted", consent |-> c, previous |-> b, closed |-> 0, history |-> <<>>]
<1>1. /\ D!ReserveSlot(apps[b].program) /\ apps' = Append(apps, r)
      /\ b \notin DOMAIN reappliedFrom /\ apps[b].applicant = caller
      /\ apps[b].status \in {"Withdrawn", "Rejected"} /\ c >= apps[b].consent
      /\ reappliedFrom' = D!Set(reappliedFrom, b, Len(apps) + 1)
      /\ UNCHANGED <<coordinatorRole, policyOf>>
  BY DEF D!Reapply, D!CreateApplication, D!NotReapplied, D!Has, D!ValidateReapplicationConsent
<1>2. apps \in Seq(D!Admission) /\ DOMAIN reappliedFrom \subseteq DOMAIN apps
  BY DEF AdmissionsInv, D!TypeOK
<1>3. apps[b] \in D!Admission /\ b \in Nat \ {0}
  BY <1>2
<1>4. apps[b].program \in Programs /\ apps[b].attempt + 1 \in Nat \ {0}
  BY <1>3 DEF D!Admission
<1>5. /\ r \in D!Admission /\ r.program = apps[b].program /\ r.status = "Submitted" /\ r.previous = b
      /\ r.attempt = apps[b].attempt + 1 /\ r.applicant = caller /\ r.consent = c
  BY <1>3, <1>4 DEF D!Admission, D!ApplicationStatus
<1> HIDE DEF r
<1>6. /\ activeCount' \in [DOMAIN activeCount' -> Nat]
      /\ \A q \in Programs : D!Get(activeCount', q, 0) = Cardinality(OpenOf(apps', q))
  BY <1>1, <1>4, <1>5, SlotTaken
<1> DEFINE id == Len(apps) + 1
<1>7. /\ apps' \in Seq(D!Admission) /\ DOMAIN apps' = DOMAIN apps \cup {id} /\ apps'[id] = r
      /\ \A a \in DOMAIN apps : apps'[a] = apps[a]
  BY <1>1, <1>2, <1>5
<1>8. /\ DOMAIN reappliedFrom' = DOMAIN reappliedFrom \cup {b} /\ reappliedFrom'[b] = id
      /\ \A a \in DOMAIN reappliedFrom : reappliedFrom'[a] = reappliedFrom[a]
  BY <1>1 DEF D!Set
<1> HIDE DEF id
<1>9. D!TypeOK'
  BY <1>1, <1>2, <1>6, <1>7, <1>8 DEF AdmissionsInv, D!TypeOK
<1>10. \A a \in DOMAIN apps : apps[a].previous # 0 =>
          apps[a].previous \in DOMAIN apps /\ apps[a].previous \in DOMAIN reappliedFrom
  BY <1>2 DEF AdmissionsInv
<1>11. D!ChainedAttempts'
  <2> SUFFICES ASSUME NEW a \in DOMAIN apps'
               PROVE LET q == apps'[a].previous
                     IN IF q = 0
                          THEN apps'[a].attempt = 1
                          ELSE /\ reappliedFrom'[q] = a
                               /\ apps'[q].applicant = apps'[a].applicant
                               /\ apps'[q].program = apps'[a].program
                               /\ apps'[q].status \in {"Withdrawn", "Rejected"}
                               /\ apps'[a].attempt = apps'[q].attempt + 1
                               /\ apps'[a].consent >= apps'[q].consent
    BY DEF D!ChainedAttempts
  <2>1. CASE a = id
    BY <2>1, <1>1, <1>3, <1>5, <1>7, <1>8
  <2>2. CASE a \in DOMAIN apps
    BY <2>2, <1>7, <1>8, <1>10 DEF AdmissionsInv, D!ChainedAttempts
  <2>3. QED BY <1>7, <2>1, <2>2
<1>12. \A a \in DOMAIN apps' : apps'[a].previous # 0 => apps'[a].previous \in DOMAIN reappliedFrom'
  BY <1>5, <1>7, <1>8, <1>10
<1>13. HistoryKept
  BY <1>7, HistoriesFull DEF HistoryKept
<1>14. QED BY <1>6, <1>9, <1>11, <1>12, <1>13 DEF AdmissionsInv

LEMMA PrefixOfAppend ==
  ASSUME NEW S, NEW h \in Seq(S), NEW e \in S
  PROVE  SubSeq(Append(h, e), 1, Len(h)) = h
<1> DEFINE g == Append(h, e)
<1>1. g \in Seq(S) /\ Len(g) = Len(h) + 1 /\ \A i \in 1..Len(h) : g[i] = h[i]
  BY AppendProperties
<1> HIDE DEF g
<1>2. \A i \in 1..Len(h) : g[i] \in S
  BY <1>1
<1>3. /\ SubSeq(g, 1, Len(h)) \in Seq(S)
      /\ Len(SubSeq(g, 1, Len(h))) = Len(h)
      /\ \A i \in 1..Len(h) : SubSeq(g, 1, Len(h))[i] = h[i]
  BY <1>1, <1>2
<1>4. SubSeq(g, 1, Len(h)) = h
  BY ONLY <1>3, h \in Seq(S), SeqEqual
<1>5. QED BY <1>4 DEF g

\* A decision: the history grows by it, and a final one gives the slot back.
LEMMA DecidePreserves ==
  ASSUME AdmissionsInv, UNCHANGED now, NEW b \in DOMAIN apps, NEW reason \in ReasonCodes,
         NEW action \in D!DecisionAction \cup {"Withdraw"}, NEW status \in D!ApplicationStatus,
         ~D!IsFinal(apps[b].status), D!Decide(b, action, reason, status)
  PROVE  AdmissionsInv' /\ HistoryKept
<1> DEFINE e == [action |-> action, reason |-> reason]
           closed == IF D!IsFinal(status) THEN now ELSE apps[b].closed
           h == Append(apps[b].history, e)
           r == [apps[b] EXCEPT !.status = status, !.closed = closed, !.history = h]
           p == apps[b].program
           n == D!Get(activeCount, p, 0)
<1>1. /\ apps' = [apps EXCEPT ![b].status = status,
                              ![b].closed = IF D!IsFinal(status) THEN now ELSE @,
                              ![b].history = Append(@, [action |-> action, reason |-> reason])]
      /\ D!ReleaseSlot(p, status)
      /\ UNCHANGED <<coordinatorRole, policyOf, reappliedFrom>>
  BY DEF D!Decide
<1>2. apps \in Seq(D!Admission) /\ activeCount \in [DOMAIN activeCount -> Nat] /\ now \in Nat
  BY DEF AdmissionsInv, D!TypeOK
<1>3. apps[b] \in D!Admission
  BY <1>2
<1>4. apps' = [apps EXCEPT ![b] = r]
  BY <1>1, <1>2
<1>5. apps[b].history \in Seq(D!DecisionRecord) /\ p \in Programs
  BY <1>3 DEF D!Admission
<1>6. e \in D!DecisionRecord
  BY DEF D!DecisionRecord
<1> HIDE DEF e
<1>7. h \in Seq(D!DecisionRecord) /\ SubSeq(h, 1, Len(apps[b].history)) = apps[b].history
  BY <1>5, <1>6, PrefixOfAppend
<1> HIDE DEF h
<1>8. closed \in Nat
  BY <1>2, <1>3 DEF D!Admission
<1> HIDE DEF closed
<1>9. /\ r \in D!Admission /\ r.program = p /\ r.status = status /\ r.history = h
      /\ r.applicant = apps[b].applicant /\ r.attempt = apps[b].attempt
      /\ r.consent = apps[b].consent /\ r.previous = apps[b].previous
  BY <1>3, <1>7, <1>8 DEF D!Admission
<1> HIDE DEF r
<1>10. apps' \in Seq(D!Admission) /\ Len(apps') = Len(apps)
  <2>1. [apps EXCEPT ![b] = r] \in Seq(D!Admission) /\ Len([apps EXCEPT ![b] = r]) = Len(apps)
    <3>1. b \in 1..Len(apps)
      BY <1>2
    <3>2. QED BY <3>1, <1>2, <1>9, ExceptSeq, Zenon
  <2>2. QED BY ONLY <1>4, <2>1, Zenon
<1>11. DOMAIN apps' = DOMAIN apps /\ apps'[b] = r /\ \A a \in DOMAIN apps \ {b} : apps'[a] = apps[a]
  BY <1>2, <1>4
<1>12. \A q \in Programs : D!Get(activeCount, q, 0) = Cardinality(OpenOf(apps, q))
  BY DEF AdmissionsInv
<1>13. b \in OpenOf(apps, p)
  BY DEF OpenOf
<1>14. n \in Nat /\ n = Cardinality(OpenOf(apps, p))
  BY <1>2, <1>5, <1>12, OpenFinite
<1>15. n > 0
  <2>1. IsFiniteSet(OpenOf(apps, p)) /\ OpenOf(apps, p) # {}
    BY <1>2, <1>13, OpenFinite
  <2>2. Cardinality(OpenOf(apps, p)) # 0
    BY <2>1, FS_EmptySet
  <2>3. QED BY <1>14, <2>2
<1> HIDE DEF p
<1>16. \A q \in Programs \ {p} : OpenOf(apps', q) = OpenOf(apps, q)
  BY <1>9, <1>11 DEF OpenOf, p
<1>17. /\ activeCount' \in [DOMAIN activeCount' -> Nat]
       /\ \A q \in Programs : D!Get(activeCount', q, 0) = Cardinality(OpenOf(apps', q))
  <2>1. CASE D!IsFinal(status)
    <3>1. p \in DOMAIN activeCount /\ n = activeCount[p]
      BY <1>15 DEF D!Get
    <3>2. activeCount' = D!Set(activeCount, p, activeCount[p] - 1)
      BY <1>1, <1>15, <2>1 DEF D!ReleaseSlot
    <3> HIDE DEF n
    <3>3. activeCount[p] - 1 \in Nat /\ activeCount[p] - 1 = n - 1
      BY <3>1, <1>14, <1>15
    <3>4. activeCount' \in [DOMAIN activeCount' -> Nat]
      BY <3>2, <3>3, <1>2 DEF D!Set
    <3>5. D!Get(activeCount', p, 0) = n - 1
          /\ \A q \in Programs \ {p} : D!Get(activeCount', q, 0) = D!Get(activeCount, q, 0)
      BY <3>2, <3>3 DEF D!Set, D!Get
    <3>6. OpenOf(apps', p) = OpenOf(apps, p) \ {b}
      BY <1>9, <1>11, <2>1 DEF OpenOf
    <3>7. Cardinality(OpenOf(apps', p)) = n - 1
      <4>1. IsFiniteSet(OpenOf(apps, p))
        BY <1>2, OpenFinite
      <4>2. Cardinality(OpenOf(apps, p) \ {b}) = Cardinality(OpenOf(apps, p)) - 1
        BY <4>1, <1>13, FS_RemoveElement DEF p
      <4>3. QED BY <3>6, <4>2, <1>14 DEF p
    <3>8. QED BY <3>4, <3>5, <3>7, <1>12, <1>16
  <2>2. CASE ~D!IsFinal(status)
    <3>1. activeCount' = activeCount
      BY <1>1, <2>2 DEF D!ReleaseSlot
    <3>2. OpenOf(apps', p) = OpenOf(apps, p)
      BY <1>9, <1>11, <1>13, <2>2 DEF OpenOf
    <3>3. QED BY <3>1, <3>2, <1>2, <1>12, <1>16
  <2>3. QED BY <2>1, <2>2
<1>18. D!TypeOK'
  BY <1>1, <1>10, <1>11, <1>17 DEF AdmissionsInv, D!TypeOK
<1>19. \A a \in DOMAIN apps : /\ apps'[a].previous = apps[a].previous
                              /\ apps'[a].attempt = apps[a].attempt
                              /\ apps'[a].applicant = apps[a].applicant
                              /\ apps'[a].program = apps[a].program
                              /\ apps'[a].consent = apps[a].consent
                              /\ D!IsFinal(apps[a].status) => apps'[a] = apps[a]
  BY <1>9, <1>11 DEF p
<1>20. \A a \in DOMAIN apps : apps[a].previous # 0 => apps[a].previous \in DOMAIN apps
  BY DEF AdmissionsInv, D!TypeOK
<1>21. D!ChainedAttempts'
  <2>1. \A q \in DOMAIN apps : apps[q].status \in {"Withdrawn", "Rejected"} =>
            apps'[q].status \in {"Withdrawn", "Rejected"}
    BY <1>19 DEF D!IsFinal
  <2>2. QED BY <1>1, <1>11, <1>19, <1>20, <2>1 DEF AdmissionsInv, D!ChainedAttempts
<1>22. \A a \in DOMAIN apps' : apps'[a].previous # 0 => apps'[a].previous \in DOMAIN reappliedFrom'
  BY <1>1, <1>11, <1>19 DEF AdmissionsInv
<1>23. HistoryKept
  <2> SUFFICES ASSUME NEW a \in DOMAIN apps
               PROVE LET k == Len(apps[a].history)
                     IN /\ SubSeq(apps'[a].history, 1, k) = apps[a].history
                        /\ D!IsFinal(apps[a].status) => apps'[a] = apps[a]
    BY DEF HistoryKept
  <2>1. CASE a = b
    BY <2>1, <1>7, <1>9, <1>11
  <2>2. CASE a # b
    BY <2>2, <1>11, HistoriesFull
  <2>3. QED BY <2>1, <2>2
<1>24. QED BY <1>2, <1>17, <1>18, <1>21, <1>22, <1>23 DEF AdmissionsInv

LEMMA AdmissionsNext ==
  ASSUME AdmissionsInv, D!Next
  PROVE  AdmissionsInv' /\ HistoryKept
<1>1. UNCHANGED now
  BY DEF D!Next
<1>2. ASSUME NEW caller, NEW b \in DOMAIN apps, NEW action \in D!DecisionAction, NEW reason \in ReasonCodes,
             D!RecordDecision(caller, b, action, reason)
      PROVE AdmissionsInv' /\ HistoryKept
  <2>1. ~D!IsFinal(apps[b].status) /\ D!Decide(b, action, reason, D!TargetStatus[action])
    BY <1>2 DEF D!RecordDecision
  <2>2. D!TargetStatus[action] \in D!ApplicationStatus
    BY DEF D!DecisionAction, D!TargetStatus, D!ApplicationStatus
  <2>3. QED BY <1>1, <2>1, <2>2, DecidePreserves
<1>3. ASSUME NEW caller, NEW b \in DOMAIN apps, NEW reason \in ReasonCodes, NEW ack,
             D!WithdrawApplication(caller, b, reason, ack)
      PROVE AdmissionsInv' /\ HistoryKept
  <2>1. ~D!IsFinal(apps[b].status) /\ D!Decide(b, "Withdraw", reason, "Withdrawn")
    BY <1>3 DEF D!WithdrawApplication
  <2>2. "Withdrawn" \in D!ApplicationStatus
    BY DEF D!ApplicationStatus
  <2>3. QED BY <1>1, <2>1, <2>2, DecidePreserves
<1>4. QED BY <1>1, <1>2, <1>3, SetCoordinatorPreserves, SetProgramPolicyPreserves,
             OpenApplicationPreserves, ReapplyPreserves, Zenon DEF D!Next

LEMMA AdmissionsUnchanged ==
  ASSUME AdmissionsInv, UNCHANGED admissionVars, now' \in Nat
  PROVE  AdmissionsInv' /\ HistoryKept
<1>1. UNCHANGED <<coordinatorRole, policyOf, apps, activeCount, reappliedFrom>>
  BY DEF admissionVars
<1>2. QED BY <1>1, RulesStep DEF AdmissionsInv, D!TypeOK

LEMMA AdmissionsHold == AdmissionsInv => D!TypeOK /\ D!ActiveExact /\ D!ChainedAttempts
<1> SUFFICES ASSUME AdmissionsInv PROVE D!ActiveExact
  BY DEF AdmissionsInv
<1>1. \A T : D!Cardinality(T) = Cardinality(T)
  BY Zenon DEF Cardinality, D!Cardinality
<1>2. \A p \in Programs : D!Get(activeCount, p, 0) = Cardinality(OpenOf(apps, p))
  BY DEF AdmissionsInv
<1>3. QED BY <1>1, <1>2, Zenon DEF D!ActiveExact, OpenOf

-----------------------------------------------------------------------------
(* Rematching *)

Settled == {"Rejected", "Closed", "Superseded"}
Named(status) == status \in {"SuccessorProposed", "ApprovedForClosure"}
WithStatus(reqs, S) == {r \in DOMAIN reqs : reqs[r].status \in S}
SupersededIn(ms) == {id \in DOMAIN ms : ms[id].status = "Superseded"}

MatchesTyped(ms) ==
    /\ IsFiniteSet(DOMAIN ms)
    /\ \A id \in DOMAIN ms : id \in MatchIds /\ ms[id] \in R!MatchRecord
\* A request is about a stored match, and names a successor once one is proposed.
RequestsTyped(reqs, ms) ==
    /\ IsFiniteSet(DOMAIN reqs)
    /\ \A r \in DOMAIN reqs : /\ reqs[r] \in R!RematchRequest
                              /\ reqs[r].match \in DOMAIN ms
                              /\ Named(reqs[r].status) => reqs[r].successor \in Successors
LiveOK(reqs, ms) ==
    \A r \in DOMAIN reqs :
        reqs[r].status \in R!LiveStatus =>
            /\ ms[reqs[r].match].status = "Active"
            /\ \A q \in DOMAIN reqs :
                 reqs[q].match = reqs[r].match /\ reqs[q].status \in R!LiveStatus => q = r
LinksOK(ms) ==
    \A id \in DOMAIN ms :
        ms[id].status = "Superseded" => /\ ms[id].successor \in DOMAIN ms
                                        /\ ms[ms[id].successor].supersedes = id
                                        /\ ms[ms[id].successor].mentee = ms[id].mentee
StatsOK(s, reqs, ms) ==
    /\ s \in [total : Nat, open : Nat, closed : Nat, superseded : Nat]
    /\ s.total = Cardinality(DOMAIN ms)
    /\ s.open = Cardinality(WithStatus(reqs, R!LiveStatus))
    /\ s.closed = Cardinality(WithStatus(reqs, Settled))
    /\ s.superseded = Cardinality(SupersededIn(ms))

RematchInv ==
    /\ now \in Nat /\ window \in Nat /\ coordinators \subseteq Officers \cup {Admin}
    /\ MatchesTyped(matches) /\ RequestsTyped(rematchRequests, matches)
    /\ LiveOK(rematchRequests, matches) /\ LinksOK(matches)
    /\ StatsOK(stats, rematchRequests, matches)

LEMMA RematchInitial == R!Init /\ now = 1 => RematchInv
<1> SUFFICES ASSUME R!Init, now = 1 PROVE RematchInv
  OBVIOUS
<1>1. /\ coordinators = {Admin} /\ window = InitialWindow /\ matches = R!Empty
      /\ rematchRequests = R!Empty /\ stats = [total |-> 0, open |-> 0, closed |-> 0, superseded |-> 0]
  BY DEF R!Init
<1>2. DOMAIN R!Empty = {}
  BY DEF R!Empty
<1>3. SupersededIn(matches) = {} /\ \A S : WithStatus(rematchRequests, S) = {}
  BY <1>1, <1>2 DEF SupersededIn, WithStatus
<1>4. StatsOK(stats, rematchRequests, matches)
  BY <1>1, <1>2, <1>3, FS_EmptySet DEF StatsOK
<1>5. QED BY <1>1, <1>2, <1>4, MatchConstants, FS_EmptySet
          DEF RematchInv, MatchesTyped, RequestsTyped, LiveOK, LinksOK

LEMMA StatusFinite ==
  ASSUME NEW reqs, NEW ms, RequestsTyped(reqs, ms), NEW S
  PROVE  IsFiniteSet(WithStatus(reqs, S)) /\ Cardinality(WithStatus(reqs, S)) \in Nat
<1>1. IsFiniteSet(DOMAIN reqs) /\ WithStatus(reqs, S) \in SUBSET DOMAIN reqs
  BY DEF RequestsTyped, WithStatus
<1>2. IsFiniteSet(WithStatus(reqs, S))
  BY <1>1, FS_Subset
<1>3. QED BY <1>2, FS_CardinalityType

\* The saturating subtraction is exact.
LEMMA StatsSettle ==
  ASSUME NEW reqs, NEW ms, NEW new, NEW s, StatsOK(s, reqs, ms),
         Cardinality(WithStatus(reqs, R!LiveStatus)) > 0,
         Cardinality(WithStatus(new, R!LiveStatus)) = Cardinality(WithStatus(reqs, R!LiveStatus)) - 1,
         Cardinality(WithStatus(new, Settled)) = Cardinality(WithStatus(reqs, Settled)) + 1
  PROVE  StatsOK(R!Settle(s), new, ms)
<1>1. s.open > 0 /\ s \in [total : Nat, open : Nat, closed : Nat, superseded : Nat]
  BY DEF StatsOK
<1>2. s.open - 1 \in Nat /\ s.closed + 1 \in Nat
  BY <1>1
<1> DEFINE o == s.open - 1
           c == s.closed + 1
<1>3. R!Settle(s) = [s EXCEPT !.open = o, !.closed = c]
  BY <1>1 DEF R!Settle
<1>4. o \in Nat /\ c \in Nat /\ o = Cardinality(WithStatus(new, R!LiveStatus))
      /\ c = Cardinality(WithStatus(new, Settled))
  BY <1>2 DEF StatsOK
<1> HIDE DEF o, c
<1>5. QED BY <1>1, <1>3, <1>4 DEF StatsOK

-----------------------------------------------------------------------------
LEMMA OfficersPreserve ==
  ASSUME RematchInv, now' \in Nat, UNCHANGED <<matches, rematchRequests, stats>>, window' \in Nat,
         coordinators' \subseteq Officers \cup {Admin}
  PROVE  RematchInv'
BY DEF RematchInv

LEMMA RegisterMatchPreserves ==
  ASSUME RematchInv, UNCHANGED now, NEW caller, NEW id \in MatchIds, NEW p \in Mentors \X EngagedMentees,
         R!RegisterMatch(caller, id, p[1], p[2])
  PROVE  RematchInv'
<1> DEFINE m == R!NewMatch(p[1], p[2], Nobody)
<1>1. /\ id \notin DOMAIN matches /\ matches' = R!Set(matches, id, m)
      /\ stats' = [stats EXCEPT !.total = @ + 1]
      /\ UNCHANGED <<coordinators, window, rematchRequests>>
  BY DEF R!RegisterMatch, R!Has
<1>2. p[1] \in Persons /\ p[2] \in Persons
  BY MatchConstants
<1>3. m \in R!MatchRecord /\ m.status = "Active"
  BY <1>2 DEF R!MatchRecord, R!NewMatch
<1> HIDE DEF m
<1>4. /\ DOMAIN matches' = DOMAIN matches \cup {id} /\ matches'[id] = m
      /\ \A x \in DOMAIN matches : matches'[x] = matches[x]
  BY <1>1 DEF R!Set
<1>5. /\ MatchesTyped(matches) /\ RequestsTyped(rematchRequests, matches)
      /\ LiveOK(rematchRequests, matches) /\ LinksOK(matches)
      /\ StatsOK(stats, rematchRequests, matches)
  BY DEF RematchInv
<1>6. MatchesTyped(matches')
  BY <1>3, <1>4, <1>5, FS_AddElement DEF MatchesTyped
<1>7. RequestsTyped(rematchRequests, matches') /\ LiveOK(rematchRequests, matches')
  BY <1>4, <1>5 DEF RequestsTyped, LiveOK
<1>8. LinksOK(matches')
  BY <1>3, <1>4, <1>5 DEF LinksOK
<1>9. Cardinality(DOMAIN matches') = Cardinality(DOMAIN matches) + 1
  BY <1>1, <1>4, <1>5, FS_AddElement DEF MatchesTyped
<1>10. SupersededIn(matches') = SupersededIn(matches)
  BY <1>1, <1>3, <1>4 DEF SupersededIn
<1>11. StatsOK(stats', rematchRequests, matches')
  <2> DEFINE t == stats.total + 1
  <2>1. stats \in [total : Nat, open : Nat, closed : Nat, superseded : Nat]
        /\ stats' = [stats EXCEPT !.total = t]
    BY <1>1, <1>5 DEF StatsOK
  <2>2. t \in Nat /\ t = Cardinality(DOMAIN matches')
    BY <1>5, <1>9, <2>1 DEF StatsOK
  <2> HIDE DEF t
  <2>3. QED BY <1>5, <1>10, <2>1, <2>2 DEF StatsOK
<1>12. QED BY <1>1, <1>6, <1>7, <1>8, <1>11 DEF RematchInv

LEMMA RequestRematchPreserves ==
  ASSUME RematchInv, UNCHANGED now, NEW caller, NEW id \in MatchIds, NEW r, R!RequestRematch(caller, id, r)
  PROVE  RematchInv'
<1> DEFINE q == [match |-> id, status |-> "Open", successor |-> Nobody, expires |-> 0]
<1>1. /\ id \in DOMAIN matches /\ matches[id].status = "Active" /\ r \notin DOMAIN rematchRequests
      /\ ~R!RematchOpen(id)
      /\ rematchRequests' = R!Set(rematchRequests, r, q)
      /\ stats' = [stats EXCEPT !.open = @ + 1]
      /\ UNCHANGED <<coordinators, window, matches>>
  BY DEF R!RequestRematch, R!Has
<1>2. q \in R!RematchRequest /\ q.match = id /\ q.status = "Open" /\ ~Named(q.status)
      /\ q.status \in R!LiveStatus /\ q.status \notin Settled
  BY DEF R!RematchRequest, Named, R!LiveStatus, Settled
<1> HIDE DEF q
<1>3. /\ DOMAIN rematchRequests' = DOMAIN rematchRequests \cup {r} /\ rematchRequests'[r] = q
      /\ \A x \in DOMAIN rematchRequests : rematchRequests'[x] = rematchRequests[x]
  BY <1>1 DEF R!Set
<1>4. /\ RequestsTyped(rematchRequests, matches) /\ LiveOK(rematchRequests, matches)
      /\ StatsOK(stats, rematchRequests, matches)
  BY DEF RematchInv
<1>5. RequestsTyped(rematchRequests', matches)
  BY <1>1, <1>2, <1>3, <1>4, FS_AddElement DEF RequestsTyped
<1>6. \A x \in DOMAIN rematchRequests : rematchRequests[x].match = id =>
          rematchRequests[x].status \notin R!LiveStatus
  BY <1>1 DEF R!RematchOpen, R!RequestsOf
<1>7. LiveOK(rematchRequests', matches)
  BY <1>1, <1>2, <1>3, <1>4, <1>6 DEF LiveOK
<1>8. WithStatus(rematchRequests', R!LiveStatus) = WithStatus(rematchRequests, R!LiveStatus) \cup {r}
      /\ r \notin WithStatus(rematchRequests, R!LiveStatus)
      /\ WithStatus(rematchRequests', Settled) = WithStatus(rematchRequests, Settled)
  BY <1>1, <1>2, <1>3 DEF WithStatus
<1>9. Cardinality(WithStatus(rematchRequests', R!LiveStatus)) =
        Cardinality(WithStatus(rematchRequests, R!LiveStatus)) + 1
  BY <1>4, <1>8, StatusFinite, FS_AddElement
<1>10. StatsOK(stats', rematchRequests', matches)
  <2> DEFINE t == stats.open + 1
  <2>1. stats \in [total : Nat, open : Nat, closed : Nat, superseded : Nat]
        /\ stats' = [stats EXCEPT !.open = t]
    BY <1>1, <1>4 DEF StatsOK
  <2>2. t \in Nat /\ t = Cardinality(WithStatus(rematchRequests', R!LiveStatus))
    BY <1>4, <1>9, <2>1 DEF StatsOK
  <2> HIDE DEF t
  <2>3. QED BY <1>4, <1>8, <2>1, <2>2 DEF StatsOK
<1>11. QED BY <1>1, <1>5, <1>7, <1>10 DEF RematchInv

\* A review, a proposal or an approval moves one live request on.
LEMMA LiveRequestMoves ==
  ASSUME RematchInv, UNCHANGED <<now, matches, stats, window, coordinators>>,
         NEW r \in DOMAIN rematchRequests, rematchRequests[r].status \in R!LiveStatus,
         NEW q \in R!RematchRequest, q.match = rematchRequests[r].match, q.status \in R!LiveStatus,
         Named(q.status) => q.successor \in Successors,
         rematchRequests' = [rematchRequests EXCEPT ![r] = q]
  PROVE  RematchInv'
<1>1. RequestsTyped(rematchRequests, matches) /\ LiveOK(rematchRequests, matches)
  BY DEF RematchInv
<1>2. /\ DOMAIN rematchRequests' = DOMAIN rematchRequests /\ rematchRequests'[r] = q
      /\ \A x \in DOMAIN rematchRequests \ {r} : rematchRequests'[x] = rematchRequests[x]
  OBVIOUS
<1>3. RequestsTyped(rematchRequests', matches)
  BY <1>1, <1>2 DEF RequestsTyped
<1>4. LiveOK(rematchRequests', matches)
  BY <1>1, <1>2 DEF LiveOK
<1>5. WithStatus(rematchRequests', R!LiveStatus) = WithStatus(rematchRequests, R!LiveStatus)
  BY <1>2 DEF WithStatus
<1>6. WithStatus(rematchRequests', Settled) = WithStatus(rematchRequests, Settled)
  BY <1>2 DEF WithStatus, R!LiveStatus, Settled
<1>7. QED BY <1>3, <1>4, <1>5, <1>6 DEF RematchInv, StatsOK

LEMMA StartReviewPreserves ==
  ASSUME RematchInv, UNCHANGED now, NEW caller, NEW r, R!StartReview(caller, r)
  PROVE  RematchInv'
<1> DEFINE q == [rematchRequests[r] EXCEPT !.status = "InReview"]
<1>1. /\ r \in DOMAIN rematchRequests /\ rematchRequests[r].status = "Open"
      /\ rematchRequests' = [rematchRequests EXCEPT ![r] = q]
      /\ UNCHANGED <<coordinators, window, matches, stats>>
  BY DEF R!StartReview, R!Has
<1>2. rematchRequests[r] \in R!RematchRequest
  BY <1>1 DEF RematchInv, RequestsTyped
<1>3. /\ q \in R!RematchRequest /\ q.match = rematchRequests[r].match
      /\ q.status \in R!LiveStatus /\ ~Named(q.status) /\ rematchRequests[r].status \in R!LiveStatus
  BY <1>1, <1>2 DEF R!RematchRequest, R!LiveStatus, Named
<1> HIDE DEF q
<1>4. QED BY <1>1, <1>3, LiveRequestMoves

LEMMA ProposeSuccessorPreserves ==
  ASSUME RematchInv, UNCHANGED now, NEW caller, NEW r, NEW who \in Successors, R!ProposeSuccessor(caller, r, who)
  PROVE  RematchInv'
<1> DEFINE t == now + window
           q == [rematchRequests[r] EXCEPT !.status = "SuccessorProposed", !.successor = who, !.expires = t]
<1>1. /\ r \in DOMAIN rematchRequests /\ rematchRequests[r].status \in {"InReview", "SuccessorProposed"}
      /\ rematchRequests' = [rematchRequests EXCEPT ![r].status = "SuccessorProposed",
                                ![r].successor = who, ![r].expires = now + window]
      /\ UNCHANGED <<coordinators, window, matches, stats>>
  BY DEF R!ProposeSuccessor, R!Has
<1>2. rematchRequests[r] \in R!RematchRequest
  BY <1>1 DEF RematchInv, RequestsTyped
<1>3. rematchRequests' = [rematchRequests EXCEPT ![r] = q]
  BY <1>1, <1>2 DEF R!RematchRequest
<1>4. t \in Nat
  BY DEF RematchInv
<1> HIDE DEF t
<1>5. /\ q \in R!RematchRequest /\ q.match = rematchRequests[r].match
      /\ q.status \in R!LiveStatus /\ q.successor \in Successors
      /\ rematchRequests[r].status \in R!LiveStatus
  BY <1>1, <1>2, <1>4 DEF R!RematchRequest, R!LiveStatus
<1> HIDE DEF q
<1>6. QED BY <1>1, <1>3, <1>5, LiveRequestMoves

LEMMA ApproveSuccessorPreserves ==
  ASSUME RematchInv, UNCHANGED now, NEW caller, NEW r, R!ApproveSuccessor(caller, r)
  PROVE  RematchInv'
<1> DEFINE q == [rematchRequests[r] EXCEPT !.status = "ApprovedForClosure"]
<1>1. /\ r \in DOMAIN rematchRequests /\ rematchRequests[r].status = "SuccessorProposed"
      /\ rematchRequests' = [rematchRequests EXCEPT ![r] = q]
      /\ UNCHANGED <<coordinators, window, matches, stats>>
  BY DEF R!ApproveSuccessor, R!Has
<1>2. rematchRequests[r] \in R!RematchRequest /\ rematchRequests[r].successor \in Successors
  BY <1>1 DEF RematchInv, RequestsTyped, Named
<1>3. /\ q \in R!RematchRequest /\ q.match = rematchRequests[r].match
      /\ q.status \in R!LiveStatus /\ q.successor \in Successors
      /\ rematchRequests[r].status \in R!LiveStatus
  BY <1>1, <1>2 DEF R!RematchRequest, R!LiveStatus
<1> HIDE DEF q
<1>4. QED BY <1>1, <1>3, LiveRequestMoves

\* The counters and the requests after a live request was settled, the match aside.
LEMMA SettleCounts ==
  ASSUME RematchInv, NEW r \in DOMAIN rematchRequests, rematchRequests[r].status \in R!LiveStatus,
         NEW status \in Settled, rematchRequests' = [rematchRequests EXCEPT ![r].status = status]
  PROVE  /\ RequestsTyped(rematchRequests', matches) /\ DOMAIN rematchRequests' = DOMAIN rematchRequests
         /\ StatsOK(R!Settle(stats), rematchRequests', matches)
         /\ \A x \in DOMAIN rematchRequests : rematchRequests'[x].status \in R!LiveStatus =>
                /\ x # r /\ rematchRequests'[x] = rematchRequests[x]
                /\ rematchRequests[x].match # rematchRequests[r].match
<1> DEFINE q == [rematchRequests[r] EXCEPT !.status = status]
<1>0. RequestsTyped(rematchRequests, matches) /\ StatsOK(stats, rematchRequests, matches)
  BY DEF RematchInv
<1>1. rematchRequests' = [rematchRequests EXCEPT ![r] = q] /\ rematchRequests[r] \in R!RematchRequest
  BY DEF RematchInv, RequestsTyped
<1>2. /\ q \in R!RematchRequest /\ q.match = rematchRequests[r].match /\ q.status = status
      /\ status \notin R!LiveStatus /\ ~Named(status)
  BY <1>1 DEF R!RematchRequest, Settled, R!LiveStatus, Named
<1> HIDE DEF q
<1>3. DOMAIN rematchRequests' = DOMAIN rematchRequests /\ rematchRequests'[r] = q /\ \A x \in DOMAIN rematchRequests \ {r} : rematchRequests'[x] = rematchRequests[x]
  BY <1>1
<1>4. RequestsTyped(rematchRequests', matches)
  BY <1>2, <1>3 DEF RematchInv, RequestsTyped
<1>5. WithStatus(rematchRequests', R!LiveStatus) = WithStatus(rematchRequests, R!LiveStatus) \ {r}
      /\ r \in WithStatus(rematchRequests, R!LiveStatus)
  BY <1>2, <1>3 DEF WithStatus
<1>6. WithStatus(rematchRequests', Settled) = WithStatus(rematchRequests, Settled) \cup {r} /\ r \notin WithStatus(rematchRequests, Settled)
  BY <1>2, <1>3 DEF WithStatus, R!LiveStatus, Settled
<1>7. Cardinality(WithStatus(rematchRequests', R!LiveStatus)) = Cardinality(WithStatus(rematchRequests, R!LiveStatus)) - 1
  BY <1>5, <1>0, StatusFinite, FS_RemoveElement
<1>8. Cardinality(WithStatus(rematchRequests, R!LiveStatus)) > 0
  <2>1. Cardinality(WithStatus(rematchRequests, R!LiveStatus)) # 0
        /\ Cardinality(WithStatus(rematchRequests, R!LiveStatus)) \in Nat
    BY <1>0, <1>5, StatusFinite, FS_EmptySet
  <2>2. QED BY <2>1
<1>9. Cardinality(WithStatus(rematchRequests', Settled)) = Cardinality(WithStatus(rematchRequests, Settled)) + 1
  BY <1>0, <1>6, StatusFinite, FS_AddElement
<1>10. \A x \in DOMAIN rematchRequests : rematchRequests'[x].status \in R!LiveStatus =>
          x # r /\ rematchRequests'[x] = rematchRequests[x] /\ rematchRequests[x].match # rematchRequests[r].match
  BY <1>2, <1>3 DEF RematchInv, LiveOK
<1>11. StatsOK(R!Settle(stats), rematchRequests', matches)
  BY <1>0, <1>7, <1>8, <1>9, StatsSettle
<1>12. QED BY <1>3, <1>4, <1>10, <1>11

LEMMA RejectRequestPreserves ==
  ASSUME RematchInv, UNCHANGED now, NEW caller, NEW r, R!RejectRequest(caller, r)
  PROVE  RematchInv'
<1>1. /\ r \in DOMAIN rematchRequests /\ rematchRequests[r].status \in {"Open", "InReview"}
      /\ rematchRequests' = [rematchRequests EXCEPT ![r].status = "Rejected"]
      /\ stats' = R!Settle(stats)
      /\ UNCHANGED <<coordinators, window, matches>>
  BY DEF R!RejectRequest, R!Has
<1>2. rematchRequests[r].status \in R!LiveStatus /\ "Rejected" \in Settled
  BY <1>1 DEF R!LiveStatus, Settled
<1>3. /\ RequestsTyped(rematchRequests', matches) /\ DOMAIN rematchRequests' = DOMAIN rematchRequests
      /\ StatsOK(stats', rematchRequests', matches)
      /\ \A x \in DOMAIN rematchRequests : rematchRequests'[x].status \in R!LiveStatus =>
             /\ x # r /\ rematchRequests'[x] = rematchRequests[x]
             /\ rematchRequests[x].match # rematchRequests[r].match
  BY <1>1, <1>2, SettleCounts
<1>4. LiveOK(rematchRequests', matches)
  BY <1>3 DEF RematchInv, LiveOK
<1>5. QED BY <1>1, <1>3, <1>4 DEF RematchInv

LEMMA CloseEngagementPreserves ==
  ASSUME RematchInv, UNCHANGED now, NEW caller, NEW r, R!CloseEngagement(caller, r)
  PROVE  RematchInv'
<1> DEFINE id == rematchRequests[r].match
           m == [matches[id] EXCEPT !.status = "Closed"]
<1>1. /\ r \in DOMAIN rematchRequests
      /\ rematchRequests[r].status \in {"InReview", "SuccessorProposed", "ApprovedForClosure"}
      /\ matches' = [matches EXCEPT ![id] = m]
      /\ rematchRequests' = [rematchRequests EXCEPT ![r].status = "Closed"]
      /\ stats' = R!Settle(stats)
      /\ UNCHANGED <<coordinators, window>>
  BY DEF R!CloseEngagement, R!Has
<1>2. rematchRequests[r].status \in R!LiveStatus /\ "Closed" \in Settled
  BY <1>1 DEF R!LiveStatus, Settled
<1>3. id \in DOMAIN matches /\ matches[id] \in R!MatchRecord /\ matches[id].status = "Active"
  BY <1>1, <1>2 DEF RematchInv, RequestsTyped, MatchesTyped, LiveOK
<1>4. /\ m \in R!MatchRecord /\ m.status = "Closed" /\ m.supersedes = matches[id].supersedes
      /\ m.mentee = matches[id].mentee
  BY <1>3 DEF R!MatchRecord
<1> HIDE DEF m
<1>5. DOMAIN matches' = DOMAIN matches /\ matches'[id] = m
      /\ \A x \in DOMAIN matches \ {id} : matches'[x] = matches[x]
  BY <1>1, <1>3
<1>6. /\ RequestsTyped(rematchRequests', matches) /\ DOMAIN rematchRequests' = DOMAIN rematchRequests
      /\ StatsOK(stats', rematchRequests', matches)
      /\ \A x \in DOMAIN rematchRequests : rematchRequests'[x].status \in R!LiveStatus =>
             /\ x # r /\ rematchRequests'[x] = rematchRequests[x]
             /\ rematchRequests[x].match # id
  BY <1>1, <1>2, SettleCounts
<1> HIDE DEF id
<1>7. MatchesTyped(matches') /\ LinksOK(matches')
  BY <1>3, <1>4, <1>5 DEF RematchInv, MatchesTyped, LinksOK
<1>8. RequestsTyped(rematchRequests', matches')
  BY <1>5, <1>6 DEF RequestsTyped
<1>9. LiveOK(rematchRequests', matches')
  BY <1>5, <1>6 DEF RematchInv, LiveOK, RequestsTyped
<1>10. SupersededIn(matches') = SupersededIn(matches)
  BY <1>3, <1>4, <1>5 DEF SupersededIn
<1>11. StatsOK(stats', rematchRequests', matches')
  BY <1>5, <1>6, <1>10 DEF StatsOK
<1>12. QED BY <1>1, <1>7, <1>8, <1>9, <1>11 DEF RematchInv

\* The old match and the new one are linked both ways, and the counters follow.
LEMMA ApplySuccessorPreserves ==
  ASSUME RematchInv, UNCHANGED now, NEW caller, NEW r, NEW new \in MatchIds, R!ApplySuccessor(caller, r, new)
  PROVE  RematchInv'
<1> DEFINE id == rematchRequests[r].match
           old == [matches EXCEPT ![id].status = "Superseded", ![id].successor = new]
           m == [matches[id] EXCEPT !.status = "Superseded", !.successor = new]
           n == R!NewMatch(rematchRequests[r].successor, matches[id].mentee, id)
           s == R!Settle(stats)
<1>1. /\ r \in DOMAIN rematchRequests /\ rematchRequests[r].status = "ApprovedForClosure"
      /\ new \notin DOMAIN matches
      /\ matches' = R!Set(old, new, n)
      /\ rematchRequests' = [rematchRequests EXCEPT ![r].status = "Superseded"]
      /\ stats' = [s EXCEPT !.total = @ + 1, !.superseded = @ + 1]
      /\ UNCHANGED <<coordinators, window>>
  BY DEF R!ApplySuccessor, R!Has
<1>2. rematchRequests[r].status \in R!LiveStatus /\ "Superseded" \in Settled
      /\ Named(rematchRequests[r].status)
  BY <1>1 DEF R!LiveStatus, Settled, Named
<1>3. /\ id \in DOMAIN matches /\ id \in MatchIds /\ matches[id] \in R!MatchRecord
      /\ matches[id].status = "Active" /\ rematchRequests[r].successor \in Successors
  BY <1>1, <1>2 DEF RematchInv, RequestsTyped, MatchesTyped, LiveOK
<1>4. rematchRequests[r].successor \in Persons
  BY <1>3, MatchConstants
<1>5. /\ m \in R!MatchRecord /\ m.status = "Superseded" /\ m.supersedes = matches[id].supersedes
      /\ m.mentee = matches[id].mentee /\ m.successor = new
  BY <1>3 DEF R!MatchRecord
<1>6. /\ n \in R!MatchRecord /\ n.status = "Active" /\ n.supersedes = id
      /\ n.mentee = matches[id].mentee
  BY <1>3, <1>4 DEF R!MatchRecord, R!NewMatch
<1>7. old = [matches EXCEPT ![id] = m]
  BY <1>3
<1> HIDE DEF m, n, old
<1>8. DOMAIN old = DOMAIN matches /\ old[id] = m /\ \A x \in DOMAIN matches \ {id} : old[x] = matches[x]
  BY <1>3, <1>7
<1>9. /\ DOMAIN matches' = DOMAIN matches \cup {new} /\ matches'[new] = n /\ matches'[id] = m
      /\ \A x \in DOMAIN matches \ {id} : matches'[x] = matches[x]
  BY <1>1, <1>3, <1>8 DEF R!Set
<1>10. /\ RequestsTyped(rematchRequests', matches) /\ DOMAIN rematchRequests' = DOMAIN rematchRequests
       /\ StatsOK(s, rematchRequests', matches)
       /\ \A x \in DOMAIN rematchRequests : rematchRequests'[x].status \in R!LiveStatus =>
             /\ x # r /\ rematchRequests'[x] = rematchRequests[x]
             /\ rematchRequests[x].match # id
  BY <1>1, <1>2, SettleCounts
<1> HIDE DEF id, s
<1>11. MatchesTyped(matches) /\ LinksOK(matches) /\ RequestsTyped(rematchRequests, matches)
       /\ LiveOK(rematchRequests, matches)
  BY DEF RematchInv
<1>12. MatchesTyped(matches')
  <2>1. IsFiniteSet(DOMAIN matches')
    BY <1>9, <1>11, FS_AddElement DEF MatchesTyped
  <2>2. \A x \in DOMAIN matches' : x \in MatchIds /\ matches'[x] \in R!MatchRecord
    BY <1>3, <1>5, <1>6, <1>9, <1>11 DEF MatchesTyped
  <2>3. QED BY <2>1, <2>2 DEF MatchesTyped
<1>13. LinksOK(matches')
  <2> SUFFICES ASSUME NEW x \in DOMAIN matches', matches'[x].status = "Superseded"
               PROVE  /\ matches'[x].successor \in DOMAIN matches'
                      /\ matches'[matches'[x].successor].supersedes = x
                      /\ matches'[matches'[x].successor].mentee = matches'[x].mentee
    BY DEF LinksOK
  <2>1. CASE x = id
    BY <2>1, <1>5, <1>6, <1>9
  <2>2. CASE x = new
    BY <2>2, <1>6, <1>9
  <2>3. CASE x \in DOMAIN matches /\ x # id
    <3>1. matches'[x] = matches[x]
      BY <2>3, <1>9
    <3> DEFINE k == matches[x].successor
    <3>2. k \in DOMAIN matches /\ matches[k].supersedes = x /\ matches[k].mentee = matches[x].mentee
      BY <2>3, <3>1, <1>11 DEF LinksOK
    <3>3. matches'[k].supersedes = matches[k].supersedes /\ matches'[k].mentee = matches[k].mentee
      BY <3>2, <1>5, <1>9
    <3>4. QED BY <3>1, <3>2, <3>3, <1>9
  <2>4. QED BY <1>9, <2>1, <2>2, <2>3
<1>14. RequestsTyped(rematchRequests', matches')
  BY <1>9, <1>10 DEF RequestsTyped
<1>15. LiveOK(rematchRequests', matches')
  BY <1>9, <1>10, <1>11 DEF LiveOK, RequestsTyped
<1>16. SupersededIn(matches') = SupersededIn(matches) \cup {id} /\ id \notin SupersededIn(matches)
  BY <1>1, <1>3, <1>5, <1>6, <1>9 DEF SupersededIn
<1>17. IsFiniteSet(SupersededIn(matches))
  <2>1. SupersededIn(matches) \in SUBSET DOMAIN matches
    BY DEF SupersededIn
  <2>2. QED BY <2>1, <1>11, FS_Subset DEF MatchesTyped
<1>18. /\ Cardinality(SupersededIn(matches')) = Cardinality(SupersededIn(matches)) + 1
       /\ Cardinality(DOMAIN matches') = Cardinality(DOMAIN matches) + 1
  BY <1>1, <1>9, <1>11, <1>16, <1>17, FS_AddElement DEF MatchesTyped
<1>19. StatsOK(stats', rematchRequests', matches')
  <2> DEFINE t == s.total + 1
             u == s.superseded + 1
  <2>1. s \in [total : Nat, open : Nat, closed : Nat, superseded : Nat]
        /\ stats' = [s EXCEPT !.total = t, !.superseded = u]
    BY <1>1, <1>10 DEF StatsOK
  <2>2. t \in Nat /\ t = Cardinality(DOMAIN matches') /\ u \in Nat /\ u = Cardinality(SupersededIn(matches'))
    BY <1>10, <1>18, <2>1 DEF StatsOK
  <2> HIDE DEF t, u
  <2>3. QED BY <1>10, <2>1, <2>2 DEF StatsOK
<1>20. QED BY <1>1, <1>12, <1>13, <1>14, <1>15, <1>19 DEF RematchInv

LEMMA RematchNext ==
  ASSUME RematchInv, R!Next, UNCHANGED now
  PROVE  RematchInv'
<1>1. now \in Nat /\ window \in Nat /\ coordinators \subseteq Officers \cup {Admin}
  BY DEF RematchInv
<1>2. ASSUME NEW caller, NEW who \in Officers \cup {Admin},
             \/ R!RegisterCoordinator(caller, who) \/ R!RevokeCoordinator(caller, who)
             \/ R!SetRegistrar(caller, who)
      PROVE  RematchInv'
  <2>1. UNCHANGED <<matches, rematchRequests, stats, window>>
        /\ coordinators' \subseteq coordinators \cup {who}
    BY <1>2 DEF R!RegisterCoordinator, R!RevokeCoordinator, R!SetRegistrar
  <2>2. QED BY <1>1, <2>1, OfficersPreserve
<1>3. ASSUME NEW caller, NEW new \in Windows, R!SetProposalWindow(caller, new) PROVE RematchInv'
  <2>1. UNCHANGED <<matches, rematchRequests, stats, coordinators>> /\ window' = new
    BY <1>3 DEF R!SetProposalWindow
  <2>2. QED BY <1>1, <2>1, MatchConstants, OfficersPreserve
<1>4. ASSUME NEW caller, NEW id, NEW open, R!SetCaseFlags(caller, id, open) PROVE RematchInv'
  <2>1. UNCHANGED <<matches, rematchRequests, stats, coordinators, window>>
    BY <1>4 DEF R!SetCaseFlags
  <2>2. QED BY <1>1, <2>1, OfficersPreserve
<1>5. QED BY <1>2, <1>3, <1>4, RegisterMatchPreserves, StartReviewPreserves, RejectRequestPreserves,
             ProposeSuccessorPreserves, CloseEngagementPreserves, ApplySuccessorPreserves,
             RequestRematchPreserves, ApproveSuccessorPreserves, Zenon DEF R!Next

LEMMA RematchUnchanged ==
  ASSUME RematchInv, UNCHANGED rematchVars, now' \in Nat
  PROVE  RematchInv'
BY OfficersPreserve DEF RematchInv, rematchVars

LEMMA RematchHolds == RematchInv => R!TypeOK /\ R!StatsExact /\ R!OneLiveRequest
<1> SUFFICES ASSUME RematchInv PROVE R!TypeOK /\ R!StatsExact /\ R!OneLiveRequest
  OBVIOUS
<1>1. R!TypeOK
  BY DEF RematchInv, MatchesTyped, RequestsTyped, R!TypeOK
<1>2. \A T : R!Cardinality(T) = Cardinality(T)
  BY Zenon DEF Cardinality, R!Cardinality
<1>3. R!StatsExact
  BY <1>2, Zenon DEF RematchInv, StatsOK, R!StatsExact, WithStatus, SupersededIn, Settled
<1>4. R!OneLiveRequest
  BY DEF RematchInv, LiveOK, LinksOK, R!OneLiveRequest, R!RequestsOf, R!Has
<1>5. QED BY <1>1, <1>3, <1>4

-----------------------------------------------------------------------------
(* Export of agreements *)

Since(gs, who, t) == {g \in DOMAIN gs : gs[g].requester = who /\ gs[g].created >= t}
After(gs, who, t) == {g \in DOMAIN gs : gs[g].requester = who /\ gs[g].created > t}
GrantsOf(gs, id) == {g \in DOMAIN gs : gs[g].agreement = id}

\* The grants, and the window of a quota, are of the past.
GrantsTyped(gs, time) ==
    /\ IsFiniteSet(DOMAIN gs)
    /\ \A g \in DOMAIN gs : gs[g] \in E!ExportGrant /\ gs[g].created <= time
QuotaOK(q, gs, who, time) ==
    /\ q \in E!ExportQuota /\ q.started <= time
    /\ q.used <= Cardinality(Since(gs, who, q.started))
    /\ q.used >= Cardinality(After(gs, who, q.started))
ExportInv ==
    /\ now \in Nat /\ exportPolicy \in ExportPolicies \cup {InitialExportPolicy}
    /\ \A id \in DOMAIN records : records[id] \in E!AgreementRecord
    /\ GrantsTyped(grants, now)
    /\ \A who \in DOMAIN quotas : QuotaOK(quotas[who], grants, who, now)
    /\ \A id \in DOMAIN exportAudit : exportAudit[id] \in Nat
    /\ \A id \in ExportedIds : Cardinality(GrantsOf(grants, id)) <= E!Get(exportAudit, id, 0)
    /\ E!RecordAddsUp

LEMMA ExportInitial == E!Init /\ now = 1 => ExportInv
<1> SUFFICES ASSUME E!Init, now = 1 PROVE ExportInv
  OBVIOUS
<1>1. /\ exportPolicy = InitialExportPolicy /\ records = E!Empty /\ grants = E!Empty
      /\ quotas = E!Empty /\ exportAudit = E!Empty
  BY DEF E!Init
<1>2. DOMAIN E!Empty = {}
  BY DEF E!Empty
<1>3. \A id : GrantsOf(grants, id) = {} /\ E!Get(exportAudit, id, 0) = 0
  BY <1>1, <1>2 DEF GrantsOf, E!Get
<1>4. QED BY <1>1, <1>2, <1>3, FS_EmptySet DEF ExportInv, GrantsTyped, E!RecordAddsUp

LEMMA SomeGrantsFinite ==
  ASSUME NEW gs, NEW time, GrantsTyped(gs, time), NEW S \in SUBSET DOMAIN gs
  PROVE  IsFiniteSet(S) /\ Cardinality(S) \in Nat
<1>1. IsFiniteSet(S)
  BY FS_Subset DEF GrantsTyped
<1>2. QED BY <1>1, FS_CardinalityType

\* Time passes, and the registrar, the policy or the records change.
LEMMA RecordsStep ==
  ASSUME ExportInv, now' \in Nat, now' >= now, UNCHANGED <<grants, quotas, exportAudit>>,
         exportPolicy' \in ExportPolicies \cup {InitialExportPolicy},
         \A id \in DOMAIN records' : records'[id] \in E!AgreementRecord, E!RecordAddsUp'
  PROVE  ExportInv'
<1>1. GrantsTyped(grants, now')
  BY DEF ExportInv, GrantsTyped, E!ExportGrant
<1>2. \A who \in DOMAIN quotas : QuotaOK(quotas[who], grants, who, now')
  <2> SUFFICES ASSUME NEW who \in DOMAIN quotas PROVE QuotaOK(quotas[who], grants, who, now')
    OBVIOUS
  <2>1. QuotaOK(quotas[who], grants, who, now)
    BY DEF ExportInv
  <2>2. quotas[who].started \in Nat /\ quotas[who].started <= now
    BY <2>1 DEF QuotaOK, E!ExportQuota
  <2>3. quotas[who].started <= now'
    BY <2>2 DEF ExportInv
  <2>4. QED BY <2>1, <2>3 DEF QuotaOK
<1>3. QED BY <1>1, <1>2 DEF ExportInv

\* One record is written.
LEMMA RecordStep ==
  ASSUME ExportInv, UNCHANGED <<now, grants, quotas, exportAudit, exportPolicy>>,
         NEW id, NEW r \in E!AgreementRecord,
         DOMAIN records' = DOMAIN records \cup {id}, records'[id] = r,
         \A x \in DOMAIN records \ {id} : records'[x] = records[x],
         r.net = r.gross - r.fees, r.net >= 0, \A a \in r.approvals : a[2] <= r.terms_version
  PROVE  ExportInv'
<1>1. \A x \in DOMAIN records' : records'[x] \in E!AgreementRecord
  BY DEF ExportInv
<1>2. E!RecordAddsUp'
  BY DEF ExportInv, E!RecordAddsUp
<1>3. now \in Nat /\ now >= now
  BY DEF ExportInv
<1>4. QED BY <1>1, <1>2, <1>3, RecordsStep DEF ExportInv

LEMMA RegisterAgreementPreserves ==
  ASSUME ExportInv, UNCHANGED now, NEW caller, NEW id, NEW pair \in Mentors \X EngagedMentees,
         NEW version \in TermsVersions, E!RegisterAgreement(caller, id, pair[1], pair[2], version)
  PROVE  ExportInv'
<1> DEFINE r == [mentor |-> pair[1], mentee |-> pair[2], terms_version |-> version,
                 amendments |-> 0, approvals |-> {}, summaries |-> 0,
                 gross |-> 0, fees |-> 0, net |-> 0]
<1>1. /\ records' = E!Set(records, id, r)
      /\ UNCHANGED <<exportPolicy, grants, quotas, exportAudit>>
  BY DEF E!RegisterAgreement
<1>2. pair[1] \in Persons /\ pair[2] \in Persons /\ version \in Nat
  BY MatchConstants, RecordConstants
<1>3. r \in E!AgreementRecord /\ r.net = 0 /\ r.gross = 0 /\ r.fees = 0 /\ r.approvals = {}
  BY <1>2 DEF E!AgreementRecord
<1> HIDE DEF r
<1>4. /\ DOMAIN records' = DOMAIN records \cup {id} /\ records'[id] = r
      /\ \A x \in DOMAIN records \ {id} : records'[x] = records[x]
  BY <1>1 DEF E!Set
<1>5. r.net = r.gross - r.fees /\ r.net >= 0 /\ \A a \in r.approvals : a[2] <= r.terms_version
  BY <1>3
<1>6. QED BY <1>1, <1>3, <1>4, <1>5, RecordStep

LEMMA RecordApprovalPreserves ==
  ASSUME ExportInv, UNCHANGED now, NEW caller \in Persons, NEW id, E!RecordApproval(caller, id)
  PROVE  ExportInv'
<1> DEFINE v == records[id].terms_version
           s == records[id].approvals \cup {<<caller, v>>}
           r == [records[id] EXCEPT !.approvals = s]
<1>1. /\ id \in DOMAIN records /\ records' = [records EXCEPT ![id] = r]
      /\ UNCHANGED <<exportPolicy, grants, quotas, exportAudit>>
  BY DEF E!RecordApproval, E!IsParty, E!Has
<1>2. records[id] \in E!AgreementRecord
  BY <1>1 DEF ExportInv
<1>3. v \in Nat /\ records[id].approvals \in SUBSET (Persons \X Nat)
  BY <1>2 DEF E!AgreementRecord
<1>4. s \in SUBSET (Persons \X Nat)
  BY <1>3
<1>5. /\ records[id].net = records[id].gross - records[id].fees /\ records[id].net >= 0
      /\ \A a \in records[id].approvals : a[2] <= v
  BY <1>1 DEF ExportInv, E!RecordAddsUp
<1>6. \A a \in s : a[2] <= v
  BY <1>3, <1>5
<1> HIDE DEF s
<1>7. /\ r \in E!AgreementRecord /\ r.net = records[id].net /\ r.gross = records[id].gross
      /\ r.fees = records[id].fees /\ r.approvals = s /\ r.terms_version = v
  BY <1>2, <1>4 DEF E!AgreementRecord
<1> HIDE DEF r, v
<1>8. /\ DOMAIN records' = DOMAIN records \cup {id} /\ records'[id] = r
      /\ \A x \in DOMAIN records \ {id} : records'[x] = records[x]
  BY <1>1
<1>9. QED BY <1>1, <1>5, <1>6, <1>7, <1>8, RecordStep

LEMMA RecordAmendmentPreserves ==
  ASSUME ExportInv, UNCHANGED now, NEW caller, NEW id, NEW version \in TermsVersions,
         E!RecordAmendment(caller, id, version)
  PROVE  ExportInv'
<1> DEFINE n == records[id].amendments + 1
           r == [records[id] EXCEPT !.amendments = n, !.terms_version = version]
<1>1. /\ id \in DOMAIN records /\ version > records[id].terms_version
      /\ records' = [records EXCEPT ![id].amendments = @ + 1, ![id].terms_version = version]
      /\ UNCHANGED <<exportPolicy, grants, quotas, exportAudit>>
  BY DEF E!RecordAmendment, E!Has
<1>2. records[id] \in E!AgreementRecord /\ version \in Nat
  BY <1>1, RecordConstants DEF ExportInv
<1>3. records' = [records EXCEPT ![id] = r]
  BY <1>1, <1>2 DEF E!AgreementRecord
<1>4. n \in Nat /\ records[id].terms_version \in Nat /\ records[id].approvals \in SUBSET (Persons \X Nat)
  BY <1>2 DEF E!AgreementRecord
<1> HIDE DEF n
<1>5. /\ r \in E!AgreementRecord /\ r.net = records[id].net /\ r.gross = records[id].gross
      /\ r.fees = records[id].fees /\ r.approvals = records[id].approvals /\ r.terms_version = version
  BY <1>2, <1>4 DEF E!AgreementRecord
<1> HIDE DEF r
<1>6. /\ records[id].net = records[id].gross - records[id].fees /\ records[id].net >= 0
      /\ \A a \in records[id].approvals : a[2] <= records[id].terms_version
  BY <1>1 DEF ExportInv, E!RecordAddsUp
<1>7. \A a \in r.approvals : a[2] <= version
  BY <1>1, <1>2, <1>4, <1>5, <1>6
<1>8. /\ DOMAIN records' = DOMAIN records \cup {id} /\ records'[id] = r
      /\ \A x \in DOMAIN records \ {id} : records'[x] = records[x]
  BY <1>1, <1>3
<1>9. QED BY <1>1, <1>5, <1>6, <1>7, <1>8, RecordStep

LEMMA RecordSessionSummaryPreserves ==
  ASSUME ExportInv, UNCHANGED now, NEW caller, NEW id, NEW money \in SessionMoney,
         E!RecordSessionSummary(caller, id, money)
  PROVE  ExportInv'
<1> DEFINE n == records[id].summaries + 1
           g == records[id].gross + money[1]
           f == records[id].fees + money[2]
           t == records[id].net + (money[1] - money[2])
           r == [records[id] EXCEPT !.summaries = n, !.gross = g, !.fees = f, !.net = t]
<1>1. /\ id \in DOMAIN records /\ money[1] >= 0 /\ money[2] >= 0 /\ money[2] <= money[1]
      /\ records' = [records EXCEPT
           ![id].summaries = @ + 1, ![id].gross = @ + money[1], ![id].fees = @ + money[2],
           ![id].net = @ + (money[1] - money[2])]
      /\ UNCHANGED <<exportPolicy, grants, quotas, exportAudit>>
  BY DEF E!RecordSessionSummary, E!Has
<1>2. records[id] \in E!AgreementRecord /\ money[1] \in Int /\ money[2] \in Int
  BY <1>1, RecordConstants DEF ExportInv
<1>3. records' = [records EXCEPT ![id] = r]
  BY <1>1, <1>2 DEF E!AgreementRecord
<1>4. /\ records[id].summaries \in Nat /\ records[id].gross \in Nat /\ records[id].fees \in Nat
      /\ records[id].net \in Nat
  BY <1>2 DEF E!AgreementRecord
<1>5. /\ records[id].net = records[id].gross - records[id].fees
      /\ \A a \in records[id].approvals : a[2] <= records[id].terms_version
  BY <1>1 DEF ExportInv, E!RecordAddsUp
<1>6. n \in Nat /\ g \in Nat /\ f \in Nat /\ t \in Nat /\ t = g - f
  BY <1>1, <1>2, <1>4, <1>5
<1> HIDE DEF n, g, f, t
<1>7. /\ r \in E!AgreementRecord /\ r.net = t /\ r.gross = g
      /\ r.fees = f /\ r.approvals = records[id].approvals
      /\ r.terms_version = records[id].terms_version
  BY <1>2, <1>6 DEF E!AgreementRecord
<1> HIDE DEF r
<1>8. /\ DOMAIN records' = DOMAIN records \cup {id} /\ records'[id] = r
      /\ \A x \in DOMAIN records \ {id} : records'[x] = records[x]
  BY <1>1, <1>3
<1>9. r.net = r.gross - r.fees /\ r.net >= 0 /\ \A a \in r.approvals : a[2] <= r.terms_version
  BY <1>5, <1>6, <1>7
<1>10. QED BY <1>1, <1>7, <1>8, <1>9, RecordStep

LEMMA ExportAuditGrows ==
  ASSUME ExportInv, NEW id, E!PushAudit(id)
  PROVE  /\ \A x \in DOMAIN exportAudit' : exportAudit'[x] \in Nat
         /\ E!Get(exportAudit', id, 0) = E!Get(exportAudit, id, 0) + 1
         /\ \A x : x # id => E!Get(exportAudit', x, 0) = E!Get(exportAudit, x, 0)
         /\ \A x : E!Get(exportAudit, x, 0) \in Nat
<1> DEFINE n == E!Get(exportAudit, id, 0)
<1>1. exportAudit' = E!Set(exportAudit, id, n + 1)
  BY DEF E!PushAudit
<1>2. \A x : E!Get(exportAudit, x, 0) \in Nat
  BY DEF ExportInv, E!Get
<1>3. n \in Nat /\ n + 1 \in Nat
  BY <1>2
<1> HIDE DEF n
<1>4. E!Get(exportAudit', id, 0) = n + 1 /\ \A x : x # id => E!Get(exportAudit', x, 0) = E!Get(exportAudit, x, 0)
  BY <1>1 DEF E!Set, E!Get
<1>5. \A x \in DOMAIN exportAudit' : exportAudit'[x] \in Nat
  BY <1>1, <1>3 DEF E!Set, ExportInv
<1>6. QED BY <1>2, <1>4, <1>5 DEF n

\* A download only adds to the trail.
LEMMA GetExportPreserves ==
  ASSUME ExportInv, UNCHANGED now, NEW caller, NEW grant, E!GetExport(caller, grant)
  PROVE  ExportInv'
<1> DEFINE a == grants[grant].agreement
<1>1. E!PushAudit(a) /\ UNCHANGED <<exportPolicy, records, grants, quotas>>
  BY DEF E!GetExport
<1> HIDE DEF a
<1>2. /\ \A x \in DOMAIN exportAudit' : exportAudit'[x] \in Nat
      /\ E!Get(exportAudit', a, 0) = E!Get(exportAudit, a, 0) + 1
      /\ \A x : x # a => E!Get(exportAudit', x, 0) = E!Get(exportAudit, x, 0)
      /\ \A x : E!Get(exportAudit, x, 0) \in Nat
  BY <1>1, ExportAuditGrows
<1>3. GrantsTyped(grants, now) /\ \A x \in ExportedIds : Cardinality(GrantsOf(grants, x)) <= E!Get(exportAudit, x, 0)
  BY DEF ExportInv
<1>4. \A x \in ExportedIds : Cardinality(GrantsOf(grants, x)) <= E!Get(exportAudit', x, 0)
  <2> SUFFICES ASSUME NEW x \in ExportedIds PROVE Cardinality(GrantsOf(grants, x)) <= E!Get(exportAudit', x, 0)
    OBVIOUS
  <2>1. GrantsOf(grants, x) \in SUBSET DOMAIN grants
    BY DEF GrantsOf
  <2>2. Cardinality(GrantsOf(grants, x)) \in Nat /\ E!Get(exportAudit, x, 0) \in Nat
    BY <1>2, <1>3, <2>1, SomeGrantsFinite
  <2>3. E!Get(exportAudit', x, 0) \in {E!Get(exportAudit, x, 0), E!Get(exportAudit, x, 0) + 1}
    BY <1>2
  <2>4. QED BY <1>3, <2>2, <2>3
<1>5. E!RecordAddsUp'
  BY <1>1 DEF ExportInv, E!RecordAddsUp
<1>6. QED BY <1>1, <1>2, <1>4, <1>5 DEF ExportInv

\* A request: the quota, the grants and the trail move together.  A window that starts
\* now has nothing after it and, once the grant is stored, this one in it.
LEMMA RequestExportPreserves ==
  ASSUME ExportInv, UNCHANGED now, NEW caller \in Persons, NEW id \in ExportedIds, NEW grant,
         E!RequestExport(caller, id, grant)
  PROVE  ExportInv'
<1> DEFINE c == E!CurrentQuota(caller)
           u == c.used + 1
           q == [c EXCEPT !.used = u]
           x == now + exportPolicy[3]
           g == [agreement |-> id, requester |-> caller, created |-> now, expires |-> x]
<1>1. /\ grant \notin DOMAIN grants /\ quotas' = E!Set(quotas, caller, q)
      /\ grants' = E!Set(grants, grant, g) /\ E!PushAudit(id)
      /\ UNCHANGED <<exportPolicy, records>>
  BY DEF E!RequestExport, E!Has
<1>2. now \in Nat /\ exportPolicy[3] \in Nat /\ exportPolicy[2] \in Nat /\ GrantsTyped(grants, now)
  BY RecordConstants DEF ExportInv
<1>3. x \in Nat
  BY <1>2
<1> HIDE DEF x
<1>4. g \in E!ExportGrant /\ g.agreement = id /\ g.requester = caller /\ g.created = now
  BY <1>2, <1>3 DEF E!ExportGrant
<1> HIDE DEF g
<1>5. /\ DOMAIN grants' = DOMAIN grants \cup {grant} /\ grants'[grant] = g
      /\ \A y \in DOMAIN grants : grants'[y] = grants[y]
  BY <1>1 DEF E!Set
<1>6. GrantsTyped(grants', now)
  <2>1. IsFiniteSet(DOMAIN grants')
    BY <1>2, <1>5, FS_AddElement DEF GrantsTyped
  <2>2. \A y \in DOMAIN grants' : grants'[y] \in E!ExportGrant /\ grants'[y].created <= now
    BY <1>2, <1>4, <1>5 DEF GrantsTyped
  <2>3. QED BY <2>1, <2>2 DEF GrantsTyped
<1>7. /\ c \in E!ExportQuota /\ c.started <= now
      /\ c.used <= Cardinality(Since(grants, caller, c.started))
      /\ c.used >= Cardinality(After(grants, caller, c.started))
  <2> DEFINE fresh == [started |-> now, used |-> 0]
  <2>1. c = fresh \/ (caller \in DOMAIN quotas /\ c = quotas[caller])
    BY DEF E!CurrentQuota, E!Get
  <2>2. CASE caller \in DOMAIN quotas /\ c = quotas[caller]
    BY <2>2 DEF ExportInv, QuotaOK
  <2>3. CASE c = fresh
    <3>1. c \in E!ExportQuota /\ c.started = now /\ c.used = 0
      BY <1>2, <2>3 DEF E!ExportQuota
    <3>2. After(grants, caller, now) = {}
      BY <1>2 DEF After, GrantsTyped, E!ExportGrant
    <3>3. Cardinality(After(grants, caller, now)) = 0
      BY <3>2, FS_EmptySet
    <3>4. Since(grants, caller, now) \in SUBSET DOMAIN grants
      BY DEF Since
    <3>5. Cardinality(Since(grants, caller, now)) \in Nat
      BY <1>2, <3>4, SomeGrantsFinite
    <3>6. QED BY <1>2, <3>1, <3>3, <3>5
  <2>4. QED BY <2>1, <2>2, <2>3
<1> HIDE DEF c
<1>8. c.started \in Nat /\ c.used \in Nat /\ u \in Nat
  BY <1>7 DEF E!ExportQuota
<1> HIDE DEF u
<1>9. q \in E!ExportQuota /\ q.started = c.started /\ q.used = u
  BY <1>7, <1>8 DEF E!ExportQuota
<1> HIDE DEF q
<1>10. QuotaOK(q, grants', caller, now)
  <2> DEFINE S == Since(grants, caller, c.started)
             T == After(grants, caller, c.started)
  <2>1. Since(grants', caller, c.started) = S \cup {grant} /\ grant \notin S
    BY <1>1, <1>2, <1>4, <1>5, <1>7, <1>8 DEF Since
  <2>2. After(grants', caller, c.started) \in SUBSET (T \cup {grant}) /\ grant \notin T
    BY <1>1, <1>4, <1>5 DEF After
  <2>3. S \in SUBSET DOMAIN grants /\ T \in SUBSET DOMAIN grants
    BY DEF Since, After
  <2>4. IsFiniteSet(S) /\ IsFiniteSet(T) /\ Cardinality(S) \in Nat /\ Cardinality(T) \in Nat
    BY <1>2, <2>3, SomeGrantsFinite
  <2>5. Cardinality(Since(grants', caller, c.started)) = Cardinality(S) + 1
    BY <2>1, <2>4, FS_AddElement
  <2>6. IsFiniteSet(T \cup {grant}) /\ Cardinality(T \cup {grant}) = Cardinality(T) + 1
    BY <2>2, <2>4, FS_AddElement
  <2>7. /\ Cardinality(After(grants', caller, c.started)) \in Nat
        /\ Cardinality(After(grants', caller, c.started)) <= Cardinality(T) + 1
    BY <2>2, <2>6, FS_Subset, FS_CardinalityType
  <2>8. c.used <= Cardinality(S) /\ c.used >= Cardinality(T)
    BY <1>7
  <2> HIDE DEF S, T
  <2>9. u = c.used + 1
    BY DEF u
  <2>10. u <= Cardinality(Since(grants', caller, c.started))
    BY <1>8, <2>4, <2>5, <2>8, <2>9
  <2>11. u >= Cardinality(After(grants', caller, c.started))
    BY <1>8, <2>4, <2>7, <2>8, <2>9
  <2>12. QED BY <1>7, <1>9, <2>10, <2>11 DEF QuotaOK
<1>11. \A who \in DOMAIN quotas' : QuotaOK(quotas'[who], grants', who, now)
  <2> SUFFICES ASSUME NEW who \in DOMAIN quotas' PROVE QuotaOK(quotas'[who], grants', who, now)
    OBVIOUS
  <2>1. CASE who = caller
    <3>1. quotas'[who] = q
      BY <1>1, <2>1 DEF E!Set
    <3>2. QED BY <1>10, <2>1, <3>1
  <2>2. CASE who # caller
    <3>1. who \in DOMAIN quotas /\ quotas'[who] = quotas[who]
      BY <1>1, <2>2 DEF E!Set
    <3>2. QuotaOK(quotas[who], grants, who, now)
      BY <3>1 DEF ExportInv
    <3>3. \A t : Since(grants', who, t) = Since(grants, who, t) /\ After(grants', who, t) = After(grants, who, t)
      BY <1>1, <1>4, <1>5, <2>2 DEF Since, After
    <3>4. QED BY <3>1, <3>2, <3>3 DEF QuotaOK
  <2>3. QED BY <2>1, <2>2
<1>12. /\ \A y \in DOMAIN exportAudit' : exportAudit'[y] \in Nat
       /\ E!Get(exportAudit', id, 0) = E!Get(exportAudit, id, 0) + 1
       /\ \A y : y # id => E!Get(exportAudit', y, 0) = E!Get(exportAudit, y, 0)
       /\ \A y : E!Get(exportAudit, y, 0) \in Nat
  BY <1>1, ExportAuditGrows
<1>13. \A y \in ExportedIds : Cardinality(GrantsOf(grants', y)) <= E!Get(exportAudit', y, 0)
  <2> SUFFICES ASSUME NEW y \in ExportedIds PROVE Cardinality(GrantsOf(grants', y)) <= E!Get(exportAudit', y, 0)
    OBVIOUS
  <2>1. Cardinality(GrantsOf(grants, y)) <= E!Get(exportAudit, y, 0)
    BY DEF ExportInv
  <2>2. CASE y = id
    <3>1. GrantsOf(grants', y) = GrantsOf(grants, y) \cup {grant} /\ grant \notin GrantsOf(grants, y)
      BY <1>1, <1>4, <1>5, <2>2 DEF GrantsOf
    <3>2. GrantsOf(grants, y) \in SUBSET DOMAIN grants
      BY DEF GrantsOf
    <3>3. IsFiniteSet(GrantsOf(grants, y)) /\ Cardinality(GrantsOf(grants, y)) \in Nat
      BY <1>2, <3>2, SomeGrantsFinite
    <3>4. Cardinality(GrantsOf(grants', y)) = Cardinality(GrantsOf(grants, y)) + 1
      BY <3>1, <3>3, FS_AddElement
    <3>5. E!Get(exportAudit, y, 0) \in Nat /\ E!Get(exportAudit', y, 0) = E!Get(exportAudit, y, 0) + 1
      BY <1>12, <2>2
    <3>6. QED BY <2>1, <3>3, <3>4, <3>5
  <2>3. CASE y # id
    <3>1. GrantsOf(grants', y) = GrantsOf(grants, y)
      BY <1>1, <1>4, <1>5, <2>3 DEF GrantsOf
    <3>2. QED BY <2>1, <2>3, <3>1, <1>12
  <2>4. QED BY <2>2, <2>3
<1>14. E!RecordAddsUp'
  BY <1>1 DEF ExportInv, E!RecordAddsUp
<1>15. QED BY <1>1, <1>6, <1>11, <1>12, <1>13, <1>14 DEF ExportInv

LEMMA ExportNext ==
  ASSUME ExportInv, E!Next, UNCHANGED now
  PROVE  ExportInv'
<1>1. now \in Nat /\ now >= now /\ exportPolicy \in ExportPolicies \cup {InitialExportPolicy}
      /\ \A id \in DOMAIN records : records[id] \in E!AgreementRecord
  BY DEF ExportInv
<1>2. ASSUME NEW caller, NEW who, E!SetRegistrar(caller, who) PROVE ExportInv'
  <2>1. UNCHANGED <<exportPolicy, records, grants, quotas, exportAudit>>
    BY <1>2 DEF E!SetRegistrar
  <2>2. E!RecordAddsUp'
    BY <2>1 DEF ExportInv, E!RecordAddsUp
  <2>3. QED BY <1>1, <2>1, <2>2, RecordsStep
<1>3. ASSUME NEW caller, NEW p \in ExportPolicies, E!SetPolicy(caller, p) PROVE ExportInv'
  <2>1. exportPolicy' = p /\ UNCHANGED <<records, grants, quotas, exportAudit>>
    BY <1>3 DEF E!SetPolicy
  <2>2. E!RecordAddsUp'
    BY <2>1 DEF ExportInv, E!RecordAddsUp
  <2>3. QED BY <1>1, <2>1, <2>2, RecordsStep
<1>4. QED BY <1>2, <1>3, RegisterAgreementPreserves, RecordAmendmentPreserves,
             RecordSessionSummaryPreserves, RecordApprovalPreserves, RequestExportPreserves,
             GetExportPreserves, Zenon DEF E!Next

LEMMA ExportUnchanged ==
  ASSUME ExportInv, UNCHANGED exportVars, now' \in Nat, now' >= now
  PROVE  ExportInv'
<1>1. UNCHANGED <<exportPolicy, records, grants, quotas, exportAudit>>
  BY DEF exportVars
<1>2. E!RecordAddsUp'
  BY <1>1 DEF ExportInv, E!RecordAddsUp
<1>3. QED BY <1>1, <1>2, RecordsStep DEF ExportInv

LEMMA ExportHolds == ExportInv => E!TypeOK /\ E!QuotaExact /\ E!RecordAddsUp
<1> SUFFICES ASSUME ExportInv PROVE E!TypeOK /\ E!QuotaExact /\ E!RecordAddsUp
  OBVIOUS
<1>1. E!TypeOK
  BY DEF ExportInv, GrantsTyped, QuotaOK, E!TypeOK
<1>2. \A T : E!Cardinality(T) = Cardinality(T)
  BY Zenon DEF Cardinality, E!Cardinality
<1>3. ASSUME NEW who \in DOMAIN quotas
      PROVE LET own == {g \in DOMAIN grants : grants[g].requester = who}
            IN  /\ quotas[who].used <= E!Cardinality({g \in own : grants[g].created >= quotas[who].started})
                /\ quotas[who].used >= E!Cardinality({g \in own : grants[g].created > quotas[who].started})
  <2> DEFINE own == {g \in DOMAIN grants : grants[g].requester = who}
  <2>1. /\ {g \in own : grants[g].created >= quotas[who].started} = Since(grants, who, quotas[who].started)
        /\ {g \in own : grants[g].created > quotas[who].started} = After(grants, who, quotas[who].started)
    BY DEF Since, After
  <2>2. QuotaOK(quotas[who], grants, who, now)
    BY DEF ExportInv
  <2>3. QED BY <1>2, <2>1, <2>2 DEF QuotaOK
<1>4. \A id \in ExportedIds :
         E!Cardinality({g \in DOMAIN grants : grants[g].agreement = id}) <= E!Get(exportAudit, id, 0)
  BY <1>2, Zenon DEF ExportInv, GrantsOf
<1>5. E!QuotaExact
  BY <1>3, <1>4, Zenon DEF E!QuotaExact
<1>6. QED BY <1>1, <1>5 DEF ExportInv

-----------------------------------------------------------------------------
(* Matching *)

PairOf(p) == <<p.program, p.mentor, p.mentee>>
Waiting(os, program) == {id \in DOMAIN os : os[id].program = program /\ os[id].status = "Proposed"}
LogEntries(log) ==
    {entry \in (DOMAIN log) \X (1..MAX_COORDINATOR_ACTIONS) : entry[2] <= log[entry[1]]}
Versions(os) ==
    {v \in (DOMAIN os) \X (1..MaxProposalVersion) :
        v[2] <= os[v[1]].version /\ (v[2] = 1 => os[v[1]].origin = "Coordinator")}

\* Proposals are numbered without gaps, and one in force has both approvals.
SoundOffer(p) ==
    /\ p \in M!Proposal /\ p.version \in 1..MaxProposalVersion
    /\ p.status = "Active" => p.approved = {p.mentor, p.mentee}
OffersOK(os) ==
    /\ IsFiniteSet(DOMAIN os) /\ DOMAIN os = 1..Cardinality(DOMAIN os)
    /\ \A id \in DOMAIN os : SoundOffer(os[id])
\* The index of a pair names a proposal of that pair.
IndexOK(os, idx) ==
    /\ \A k \in DOMAIN idx : idx[k] \in DOMAIN os /\ k = PairOf(os[idx[k]])
    /\ \A id \in DOMAIN os : M!IsOpen(os[id].status) =>
          PairOf(os[id]) \in DOMAIN idx /\ idx[PairOf(os[id])] = id
CountOK(count, os) ==
    /\ \A p \in DOMAIN count : count[p] \in Nat
    /\ \A p \in Programs : M!Pending(count, p) = Cardinality(Waiting(os, p))
LogOK(log, os) ==
    /\ IsFiniteSet(DOMAIN log)
    /\ \A who \in DOMAIN log : log[who] \in 1..MAX_COORDINATOR_ACTIONS
    /\ Cardinality(LogEntries(log)) = Cardinality(Versions(os))

MatchingInv ==
    /\ \A who \in DOMAIN participants : participants[who] \in M!Participant
    /\ OffersOK(offers) /\ IndexOK(offers, pairIndex)
    /\ CountOK(pendingCount, offers) /\ LogOK(actionCount, offers)

\* ApprovedTermsStand, for one step.
OffersStand ==
    \A id \in DOMAIN offers :
        LET p == offers[id]
            q == offers'[id]
        IN  /\ q.status = "Active" => q.approved = {q.mentor, q.mentee}
            /\ q.version # p.version => q.approved = {}
            /\ q.version = p.version => q.terms = p.terms

\* new is os with the proposal p under id.
Writes(new, os, id, p) ==
    /\ DOMAIN new = DOMAIN os \cup {id} /\ new[id] = p
    /\ \A x \in DOMAIN os \ {id} : new[x] = os[x]

LEMMA WaitingFinite ==
  ASSUME NEW os, OffersOK(os), NEW p
  PROVE  IsFiniteSet(Waiting(os, p)) /\ Cardinality(Waiting(os, p)) \in Nat
<1>1. IsFiniteSet(DOMAIN os) /\ Waiting(os, p) \in SUBSET DOMAIN os
  BY DEF OffersOK, Waiting
<1>2. IsFiniteSet(Waiting(os, p))
  BY <1>1, FS_Subset
<1>3. QED BY <1>2, FS_CardinalityType

LEMMA PairsFinite ==
  ASSUME NEW S, IsFiniteSet(S), NEW n \in Nat, NEW T \in SUBSET (S \X (1..n))
  PROVE  IsFiniteSet(T)
<1>1. IsFiniteSet(1..n)
  BY FS_Interval
<1>2. IsFiniteSet(S \X (1..n))
  BY <1>1, FS_Product
<1>3. QED BY <1>2, FS_Subset

LEMMA VersionsFinite ==
  ASSUME NEW os, OffersOK(os)
  PROVE  IsFiniteSet(Versions(os))
<1>1. Versions(os) \in SUBSET ((DOMAIN os) \X (1..MaxProposalVersion))
  BY DEF Versions
<1>2. IsFiniteSet(DOMAIN os) /\ MaxProposalVersion \in Nat
  BY MatchConstants DEF OffersOK
<1>3. QED BY <1>1, <1>2, PairsFinite

\* A proposal begins to wait.
LEMMA WaitingEnters ==
  ASSUME NEW os, NEW count, OffersOK(os), CountOK(count, os), NEW new, NEW id, NEW p,
         Writes(new, os, id, p), p.program \in Programs, p.status = "Proposed",
         id \in DOMAIN os => os[id].program = p.program /\ os[id].status # "Proposed"
  PROVE  CountOK(M!Increase(count, p.program), new)
<1> DEFINE g == p.program
           n == M!Pending(count, g)
           c == M!Increase(count, g)
<1>1. /\ DOMAIN new = DOMAIN os \cup {id} /\ new[id] = p
      /\ \A x \in DOMAIN os \ {id} : new[x] = os[x]
  BY DEF Writes
<1>2. Waiting(new, g) = Waiting(os, g) \cup {id} /\ id \notin Waiting(os, g)
  BY <1>1 DEF Waiting
<1>3. \A h : h # g => Waiting(new, h) = Waiting(os, h)
  BY <1>1 DEF Waiting
<1>4. Cardinality(Waiting(new, g)) = Cardinality(Waiting(os, g)) + 1
  BY <1>2, WaitingFinite, FS_AddElement
<1>5. n = Cardinality(Waiting(os, g)) /\ n \in Nat
  BY WaitingFinite DEF CountOK
<1>6. c = M!Set(count, g, n + 1)
  BY DEF M!Increase
<1> HIDE DEF n, c, g
<1>7. \A x \in DOMAIN c : c[x] \in Nat
  BY <1>5, <1>6 DEF M!Set, CountOK
<1>8. M!Pending(c, g) = n + 1 /\ \A h : h # g => M!Pending(c, h) = M!Pending(count, h)
  BY <1>6 DEF M!Set, M!Pending, M!Get
<1>9. \A h \in Programs : M!Pending(c, h) = Cardinality(Waiting(new, h))
  <2> TAKE h \in Programs
  <2>1. CASE h = g
    BY <2>1, <1>4, <1>5, <1>8
  <2>2. CASE h # g
    BY <2>2, <1>3, <1>8 DEF CountOK
  <2>3. QED BY <2>1, <2>2
<1>10. QED BY <1>7, <1>9 DEF CountOK, c, g

\* A proposal stops waiting: the saturating decrease is exact.
LEMMA WaitingLeaves ==
  ASSUME NEW os, NEW count, OffersOK(os), CountOK(count, os), NEW new, NEW id \in DOMAIN os, NEW p,
         Writes(new, os, id, p), p.program \in Programs, os[id].program = p.program,
         os[id].status = "Proposed", p.status # "Proposed"
  PROVE  CountOK(M!Decrease(count, p.program), new)
<1> DEFINE g == p.program
           n == M!Pending(count, g)
           c == M!Decrease(count, g)
<1>1. /\ DOMAIN new = DOMAIN os /\ new[id] = p
      /\ \A x \in DOMAIN os \ {id} : new[x] = os[x]
  BY DEF Writes
<1>2. Waiting(new, g) = Waiting(os, g) \ {id} /\ id \in Waiting(os, g)
  BY <1>1 DEF Waiting
<1>3. \A h : h # g => Waiting(new, h) = Waiting(os, h)
  BY <1>1 DEF Waiting
<1>4. Cardinality(Waiting(new, g)) = Cardinality(Waiting(os, g)) - 1
  <2>1. IsFiniteSet(Waiting(os, g))
    BY WaitingFinite
  <2>2. Cardinality(Waiting(os, g) \ {id}) = Cardinality(Waiting(os, g)) - 1
    BY <1>2, <2>1, FS_RemoveElement
  <2>3. QED BY <1>2, <2>2
<1>5. n = Cardinality(Waiting(os, g)) /\ n \in Nat
  BY WaitingFinite DEF CountOK
<1>6. n > 0
  <2>1. Cardinality(Waiting(os, g)) # 0
    BY <1>2, WaitingFinite, FS_EmptySet
  <2>2. QED BY <1>5, <2>1
<1>7. c = M!Set(count, g, n - 1)
  BY <1>6 DEF M!Decrease
<1>8. n - 1 \in Nat
  BY <1>5, <1>6
<1> HIDE DEF n, c, g
<1>9. \A x \in DOMAIN c : c[x] \in Nat
  BY <1>7, <1>8 DEF M!Set, CountOK
<1>10. M!Pending(c, g) = n - 1 /\ \A h : h # g => M!Pending(c, h) = M!Pending(count, h)
  BY <1>7 DEF M!Set, M!Pending, M!Get
<1>11. \A h \in Programs : M!Pending(c, h) = Cardinality(Waiting(new, h))
  <2> TAKE h \in Programs
  <2>1. CASE h = g
    BY <2>1, <1>4, <1>5, <1>10
  <2>2. CASE h # g
    BY <2>2, <1>3, <1>10 DEF CountOK
  <2>3. QED BY <2>1, <2>2
<1>12. QED BY <1>9, <1>11 DEF CountOK, c, g

LEMMA WaitingStays ==
  ASSUME NEW os, NEW count, CountOK(count, os), NEW new, NEW id \in DOMAIN os, NEW p,
         Writes(new, os, id, p), os[id].program = p.program,
         (os[id].status = "Proposed") <=> (p.status = "Proposed")
  PROVE  CountOK(count, new)
<1>1. /\ DOMAIN new = DOMAIN os /\ new[id] = p
      /\ \A x \in DOMAIN os \ {id} : new[x] = os[x]
  BY DEF Writes
<1>2. \A h : Waiting(new, h) = Waiting(os, h)
  BY <1>1 DEF Waiting
<1>3. QED BY <1>2 DEF CountOK

LEMMA SameVersions ==
  ASSUME NEW os, NEW new, NEW id \in DOMAIN os, NEW p, Writes(new, os, id, p),
         os[id].version = p.version, os[id].origin = p.origin
  PROVE  Versions(new) = Versions(os)
<1>1. /\ DOMAIN new = DOMAIN os /\ new[id] = p
      /\ \A x \in DOMAIN os \ {id} : new[x] = os[x]
  BY DEF Writes
<1>2. \A x \in DOMAIN os : new[x].version = os[x].version /\ new[x].origin = os[x].origin
  BY <1>1
<1>3. QED BY <1>1, <1>2 DEF Versions

\* A proposal of the same pair replaces one that exists.
LEMMA OfferReplaced ==
  ASSUME NEW os, OffersOK(os), NEW idx, IndexOK(os, idx), NEW new, NEW id \in DOMAIN os, NEW p,
         Writes(new, os, id, p), SoundOffer(p), PairOf(p) = PairOf(os[id]),
         M!IsOpen(p.status) => M!IsOpen(os[id].status)
  PROVE  OffersOK(new) /\ IndexOK(new, idx)
<1>1. /\ DOMAIN new = DOMAIN os /\ new[id] = p
      /\ \A x \in DOMAIN os \ {id} : new[x] = os[x]
  BY DEF Writes
<1>2. OffersOK(new)
  BY <1>1 DEF OffersOK
<1>3. \A x \in DOMAIN os : PairOf(new[x]) = PairOf(os[x])
  BY <1>1
<1>4. \A x \in DOMAIN os : M!IsOpen(new[x].status) => M!IsOpen(os[x].status)
  BY <1>1
<1>5. IndexOK(new, idx)
  BY <1>1, <1>3, <1>4 DEF IndexOK
<1>6. QED BY <1>2, <1>5

LEMMA MatchingInitial == M!Init => MatchingInv
<1> SUFFICES ASSUME M!Init PROVE MatchingInv
  OBVIOUS
<1>1. /\ participants = M!Empty /\ offers = M!Empty /\ pairIndex = M!Empty
      /\ pendingCount = M!Empty /\ actionCount = M!Empty
  BY DEF M!Init
<1>2. DOMAIN M!Empty = {}
  BY DEF M!Empty
<1>3. /\ Versions(offers) = {} /\ LogEntries(actionCount) = {} /\ \A p : Waiting(offers, p) = {}
      /\ \A p : M!Pending(pendingCount, p) = 0
  BY <1>1, <1>2 DEF Versions, LogEntries, Waiting, M!Pending, M!Get
<1>4. IsFiniteSet(DOMAIN offers) /\ DOMAIN offers = 1..Cardinality(DOMAIN offers)
  <2>1. IsFiniteSet({}) /\ Cardinality({}) = 0 /\ 1..0 = {}
    BY FS_EmptySet
  <2>2. QED BY <1>1, <1>2, <2>1
<1>5. QED BY <1>1, <1>2, <1>3, <1>4, FS_EmptySet DEF MatchingInv, OffersOK, IndexOK, CountOK, LogOK

LEMMA OffersUnchanged ==
  ASSUME OffersOK(offers), UNCHANGED offers
  PROVE  OffersStand
BY DEF OffersOK, SoundOffer, OffersStand

\* Participants, coordinators and blocks change.
LEMMA RegistryStep ==
  ASSUME MatchingInv, UNCHANGED <<offers, pairIndex, pendingCount, actionCount>>,
         \A who \in DOMAIN participants' : participants'[who] \in M!Participant
  PROVE  MatchingInv' /\ OffersStand
BY OffersUnchanged DEF MatchingInv

LEMMA RegisterParticipantPreserves ==
  ASSUME MatchingInv, NEW caller, NEW who, NEW role \in {"Mentor", "Mentee"},
         M!RegisterParticipant(caller, who, role)
  PROVE  MatchingInv' /\ OffersStand
<1> DEFINE r == [role |-> role, status |-> "Active"]
<1>1. participants' = M!Set(participants, who, r) /\ UNCHANGED <<offers, pairIndex, pendingCount, actionCount>>
  BY DEF M!RegisterParticipant
<1>2. r \in M!Participant
  BY DEF M!Participant, M!ParticipantStatus
<1> HIDE DEF r
<1>3. \A x \in DOMAIN participants' : participants'[x] \in M!Participant
  BY <1>1, <1>2 DEF MatchingInv, M!Set
<1>4. QED BY <1>1, <1>3, RegistryStep

LEMMA SetParticipantStatusPreserves ==
  ASSUME MatchingInv, NEW caller, NEW input \in StatusInputs,
         M!SetParticipantStatus(caller, input[1], input[2])
  PROVE  MatchingInv' /\ OffersStand
<1> DEFINE w == input[1]
           r == [participants[w] EXCEPT !.status = input[2]]
<1>1. /\ w \in DOMAIN participants /\ participants' = [participants EXCEPT ![w] = r]
      /\ UNCHANGED <<offers, pairIndex, pendingCount, actionCount>>
  BY DEF M!SetParticipantStatus, M!Has
<1>2. input[2] \in M!ParticipantStatus /\ participants[w] \in M!Participant
  BY <1>1, MatchConstants DEF M!ParticipantStatus, MatchingInv
<1>3. r \in M!Participant
  BY <1>2 DEF M!Participant
<1> HIDE DEF r, w
<1>4. \A x \in DOMAIN participants' : participants'[x] \in M!Participant
  BY <1>1, <1>3 DEF MatchingInv
<1>5. QED BY <1>1, <1>4, RegistryStep

\* One entry of the coordinator's log.
LEMMA LogGrows ==
  ASSUME MatchingInv, NEW who, M!RecordCoordinatorAction(who)
  PROVE  /\ IsFiniteSet(DOMAIN actionCount')
         /\ \A x \in DOMAIN actionCount' : actionCount'[x] \in 1..MAX_COORDINATOR_ACTIONS
         /\ Cardinality(LogEntries(actionCount')) = Cardinality(LogEntries(actionCount)) + 1
<1> DEFINE n == M!Get(actionCount, who, 0)
<1>1. IsFiniteSet(DOMAIN actionCount) /\ \A x \in DOMAIN actionCount : actionCount[x] \in 1..MAX_COORDINATOR_ACTIONS
  BY DEF MatchingInv, LogOK
<1>2. n < MAX_COORDINATOR_ACTIONS /\ actionCount' = M!Set(actionCount, who, n + 1)
  BY DEF M!RecordCoordinatorAction
<1>3. n \in Nat /\ (who \in DOMAIN actionCount => n = actionCount[who])
      /\ (who \notin DOMAIN actionCount => n = 0) /\ MAX_COORDINATOR_ACTIONS \in Nat
  BY <1>1, MatchConstants DEF M!Get
<1> HIDE DEF n
<1>4. n + 1 \in 1..MAX_COORDINATOR_ACTIONS
  BY <1>2, <1>3
<1>5. /\ DOMAIN actionCount' = DOMAIN actionCount \cup {who} /\ actionCount'[who] = n + 1
      /\ \A x \in DOMAIN actionCount \ {who} : actionCount'[x] = actionCount[x]
  BY <1>2 DEF M!Set
<1>6. IsFiniteSet(DOMAIN actionCount') /\ \A x \in DOMAIN actionCount' : actionCount'[x] \in 1..MAX_COORDINATOR_ACTIONS
  BY <1>1, <1>4, <1>5, FS_AddElement
<1>7. LogEntries(actionCount') = LogEntries(actionCount) \cup {<<who, n + 1>>}
  <2>1. ASSUME NEW e \in LogEntries(actionCount') PROVE e \in LogEntries(actionCount) \cup {<<who, n + 1>>}
    <3>1. PICK x \in DOMAIN actionCount', i \in 1..MAX_COORDINATOR_ACTIONS : e = <<x, i>> /\ i <= actionCount'[x]
      BY <2>1 DEF LogEntries
    <3>2. CASE x # who
      BY <1>5, <3>1, <3>2 DEF LogEntries
    <3>3. CASE x = who
      <4>1. i <= n + 1
        BY <1>5, <3>1, <3>3
      <4>2. CASE i = n + 1
        BY <3>1, <3>3, <4>2
      <4>3. CASE i <= n
        <5>1. who \in DOMAIN actionCount /\ n = actionCount[who]
          BY <1>3, <3>1, <4>3
        <5>2. QED BY <3>1, <3>3, <4>3, <5>1 DEF LogEntries
      <4>4. QED BY <1>3, <3>1, <4>1, <4>2, <4>3
    <3>4. QED BY <3>2, <3>3
  <2>2. <<who, n + 1>> \in LogEntries(actionCount')
    BY <1>3, <1>4, <1>5 DEF LogEntries
  <2>3. ASSUME NEW e \in LogEntries(actionCount) PROVE e \in LogEntries(actionCount')
    <3>1. PICK x \in DOMAIN actionCount, i \in 1..MAX_COORDINATOR_ACTIONS : e = <<x, i>> /\ i <= actionCount[x]
      BY <2>3 DEF LogEntries
    <3>2. x \in DOMAIN actionCount' /\ i <= actionCount'[x]
      <4>1. CASE x = who
        BY <1>3, <1>5, <3>1, <4>1
      <4>2. CASE x # who
        BY <1>5, <3>1, <4>2
      <4>3. QED BY <4>1, <4>2
    <3>3. QED BY <3>1, <3>2 DEF LogEntries
  <2>4. QED BY <2>1, <2>2, <2>3
<1>8. <<who, n + 1>> \notin LogEntries(actionCount)
  BY <1>3 DEF LogEntries
<1>9. IsFiniteSet(LogEntries(actionCount))
  <2>1. LogEntries(actionCount) \in SUBSET ((DOMAIN actionCount) \X (1..MAX_COORDINATOR_ACTIONS))
    BY DEF LogEntries
  <2>2. QED BY <1>1, <1>3, <2>1, PairsFinite
<1>10. Cardinality(LogEntries(actionCount')) = Cardinality(LogEntries(actionCount)) + 1
  BY <1>7, <1>8, <1>9, FS_AddElement
<1>11. QED BY <1>6, <1>10

LEMMA SetMatchCoordinatorPreserves ==
  ASSUME MatchingInv, NEW caller, NEW who, NEW allowed, M!SetCoordinator(caller, who, allowed)
  PROVE  MatchingInv' /\ OffersStand
<1>1. UNCHANGED <<participants, offers, pairIndex, pendingCount, actionCount>>
  BY DEF M!SetCoordinator
<1>2. \A x \in DOMAIN participants' : participants'[x] \in M!Participant
  BY <1>1 DEF MatchingInv
<1>3. QED
  BY <1>1, <1>2, RegistryStep

LEMMA SetBlockPreserves ==
  ASSUME MatchingInv, NEW who, NEW counterparty, NEW value, M!SetBlock(who, counterparty, value)
  PROVE  MatchingInv' /\ OffersStand
<1>1. UNCHANGED <<participants, offers, pairIndex, pendingCount, actionCount>>
  BY DEF M!SetBlock
<1>2. QED BY <1>1, RegistryStep DEF MatchingInv

\* The approval, refusal or adjustment of a proposal.
LEMMA OfferStep ==
  ASSUME MatchingInv, NEW id \in DOMAIN offers, NEW q, offers' = [offers EXCEPT ![id] = q],
         UNCHANGED <<participants, pairIndex>>,
         SoundOffer(q), PairOf(q) = PairOf(offers[id]),
         M!IsOpen(q.status) => M!IsOpen(offers[id].status),
         q.version # offers[id].version => q.approved = {},
         q.version = offers[id].version => q.terms = offers[id].terms,
         CountOK(pendingCount', offers'), LogOK(actionCount', offers')
  PROVE  MatchingInv' /\ OffersStand
<1>1. Writes(offers', offers, id, q)
  BY DEF Writes
<1>2. OffersOK(offers) /\ IndexOK(offers, pairIndex)
  BY DEF MatchingInv
<1>3. OffersOK(offers') /\ IndexOK(offers', pairIndex)
  BY <1>1, <1>2, OfferReplaced
<1>4. OffersStand
  <2>1. SUFFICES ASSUME NEW x \in DOMAIN offers
        PROVE  /\ offers'[x].status = "Active" => offers'[x].approved = {offers'[x].mentor, offers'[x].mentee}
               /\ offers'[x].version # offers[x].version => offers'[x].approved = {}
               /\ offers'[x].version = offers[x].version => offers'[x].terms = offers[x].terms
    BY DEF OffersStand
  <2>2. SoundOffer(offers'[x])
    BY <1>1, <1>3 DEF OffersOK, Writes
  <2>3. CASE x = id
    BY <1>1, <2>2, <2>3 DEF SoundOffer, Writes
  <2>4. CASE x # id
    BY <1>1, <2>2, <2>4 DEF SoundOffer, Writes
  <2>5. QED BY <2>3, <2>4
<1>5. QED BY <1>3, <1>4 DEF MatchingInv

LEMMA ApproveProposalPreserves ==
  ASSUME MatchingInv, NEW who, NEW id, NEW expected, M!ApproveProposal(who, id, expected)
  PROVE  MatchingInv' /\ OffersStand
<1> DEFINE p == offers[id]
           approved == p.approved \cup {who}
           both == approved = {p.mentor, p.mentee}
           status == IF both THEN "Active" ELSE p.status
           q == [p EXCEPT !.approved = approved, !.status = status]
<1>0. id \in DOMAIN offers /\ who \in {p.mentor, p.mentee} /\ p.status = "Proposed"
  BY Zenon DEF M!ApproveProposal, M!Has
<1>1. UNCHANGED <<participants, pairIndex, actionCount>>
  <2>1. UNCHANGED <<M!registryVars, pairIndex, actionCount>>
    BY Zenon DEF M!ApproveProposal
  <2>2. QED BY <2>1 DEF M!registryVars
<1>a. pendingCount' = IF both THEN M!Decrease(pendingCount, p.program) ELSE pendingCount
  BY Zenon DEF M!ApproveProposal
<1>3. OffersOK(offers) /\ CountOK(pendingCount, offers) /\ LogOK(actionCount, offers)
  BY DEF MatchingInv
<1>4. p \in M!Proposal /\ p.version \in 1..MaxProposalVersion
  BY <1>0, <1>3 DEF OffersOK, SoundOffer
<1>2. offers' = [offers EXCEPT ![id] = q]
  <2>1. offers' = [offers EXCEPT ![id].approved = approved, ![id].status = status]
    BY Zenon DEF M!ApproveProposal
  <2> HIDE DEF approved, status
  <2>2. QED BY <1>0, <2>1
<1>6. approved \in SUBSET (Mentors \cup Mentees)
  BY <1>0, <1>4 DEF M!Proposal
<1>b. status = (IF both THEN "Active" ELSE "Proposed") /\ status \in {"Active", "Proposed"}
  BY <1>0
<1> HIDE DEF approved, status
<1>5. /\ q.program = p.program /\ q.mentor = p.mentor /\ q.mentee = p.mentee /\ q.terms = p.terms
      /\ q.origin = p.origin /\ q.version = p.version /\ q.approved = approved
      /\ q.status = status
  BY <1>4 DEF M!Proposal
<1>7. q \in M!Proposal
  <2> DEFINE S == Mentors \cup Mentees
             P == p
  <2>1. P \in M!Proposal /\ approved \in SUBSET S /\ status \in {"Active", "Proposed"}
    BY <1>4, <1>6, <1>b
  <2>2. M!Proposal = [program : Programs, mentor : Mentors, mentee : Mentees,
            terms : {o[1] : o \in OfferInputs}, expires : Nat, origin : {"Mentor", "Coordinator"},
            status : {"Proposed", "Active", "Declined", "Expired"}, version : Nat,
            approved : SUBSET S]
    BY DEF M!Proposal
  <2> HIDE DEF S, P
  <2>3. [P EXCEPT !.approved = approved, !.status = status] \in M!Proposal
    BY <2>1, <2>2
  <2>4. QED BY <2>3 DEF P
<1>8. SoundOffer(q)
  BY <1>4, <1>5, <1>7, <1>b DEF SoundOffer
<1>9. PairOf(q) = PairOf(p) /\ M!IsOpen(p.status)
  BY <1>0, <1>5 DEF PairOf, M!IsOpen
<1>10. Writes(offers', offers, id, q)
  BY <1>0, <1>1, <1>2 DEF Writes
<1>11. q.program \in Programs
  BY <1>4, <1>5 DEF M!Proposal
<1> HIDE DEF q
<1>12. CountOK(pendingCount', offers')
  <2>1. CASE both
    <3>1. CountOK(M!Decrease(pendingCount, q.program), offers')
      BY <1>0, <1>1, <1>3, <1>5, <1>b, <1>10, <1>11, <2>1, WaitingLeaves
    <3>2. QED BY <1>a, <1>5, <2>1, <3>1
  <2>2. CASE ~both
    <3>1. CountOK(pendingCount, offers')
      BY <1>0, <1>1, <1>3, <1>5, <1>b, <1>10, <2>2, WaitingStays
    <3>2. QED BY <1>a, <2>2, <3>1
  <2>3. QED BY <2>1, <2>2
<1>13. LogOK(actionCount', offers')
  <2>1. Versions(offers') = Versions(offers)
    BY <1>0, <1>1, <1>5, <1>10, SameVersions
  <2>2. QED BY <1>0, <1>1, <1>3, <2>1 DEF LogOK
<1>14. QED BY <1>0, <1>1, <1>2, <1>5, <1>8, <1>9, <1>12, <1>13, OfferStep

LEMMA DeclineProposalPreserves ==
  ASSUME MatchingInv, NEW who, NEW id, M!DeclineProposal(who, id)
  PROVE  MatchingInv' /\ OffersStand
<1> DEFINE p == offers[id]
           q == [p EXCEPT !.status = "Declined"]
<1>1. /\ id \in DOMAIN offers /\ p.status = "Proposed"
      /\ pendingCount' = M!Decrease(pendingCount, p.program)
      /\ UNCHANGED <<participants, pairIndex, actionCount>>
  BY DEF M!DeclineProposal, M!Has, M!registryVars
<1>2. offers' = [offers EXCEPT ![id] = q]
  BY DEF M!DeclineProposal
<1>3. OffersOK(offers) /\ CountOK(pendingCount, offers) /\ LogOK(actionCount, offers)
  BY DEF MatchingInv
<1>4. p \in M!Proposal /\ p.version \in 1..MaxProposalVersion
  BY <1>1, <1>3 DEF OffersOK, SoundOffer
<1>5. /\ q.program = p.program /\ q.mentor = p.mentor /\ q.mentee = p.mentee /\ q.terms = p.terms
      /\ q.origin = p.origin /\ q.version = p.version /\ q.status = "Declined"
  BY <1>1, <1>4 DEF M!Proposal
<1>6. q \in M!Proposal
  BY <1>4 DEF M!Proposal
<1>7. SoundOffer(q)
  BY <1>4, <1>5, <1>6 DEF SoundOffer
<1>8. PairOf(q) = PairOf(p) /\ ~M!IsOpen(q.status)
  BY <1>5 DEF PairOf, M!IsOpen
<1>9. Writes(offers', offers, id, q)
  BY <1>1, <1>2 DEF Writes
<1>10. q.program \in Programs
  BY <1>4, <1>5 DEF M!Proposal
<1> HIDE DEF q
<1>11. CountOK(pendingCount', offers')
  <2>1. CountOK(M!Decrease(pendingCount, q.program), offers')
    BY <1>1, <1>3, <1>5, <1>9, <1>10, WaitingLeaves
  <2>2. QED BY <1>1, <1>5, <2>1
<1>12. LogOK(actionCount', offers')
  <2>1. Versions(offers') = Versions(offers)
    BY <1>1, <1>5, <1>9, SameVersions
  <2>2. QED BY <1>1, <1>3, <2>1 DEF LogOK
<1>13. QED BY <1>1, <1>2, <1>5, <1>7, <1>8, <1>11, <1>12, OfferStep

\* A proposal gets one more version, which a coordinator wrote.
LEMMA VersionAdded ==
  ASSUME NEW os, OffersOK(os), NEW new, NEW id, NEW p, Writes(new, os, id, p),
         p.version \in 1..MaxProposalVersion,
         \/ /\ id \in DOMAIN os /\ p.version = os[id].version + 1 /\ p.origin = os[id].origin
         \/ id \notin DOMAIN os /\ p.version = 1 /\ p.origin = "Coordinator"
  PROVE  Cardinality(Versions(new)) = Cardinality(Versions(os)) + 1
<1> DEFINE e == <<id, p.version>>
<1>1. /\ DOMAIN new = DOMAIN os \cup {id} /\ new[id] = p
      /\ \A x \in DOMAIN os \ {id} : new[x] = os[x]
  BY DEF Writes
<1>2. \A x \in DOMAIN os : os[x].version \in 1..MaxProposalVersion
  BY DEF OffersOK, SoundOffer
<1>3. MaxProposalVersion \in Nat
  BY MatchConstants
<1>4. Versions(new) = Versions(os) \cup {e}
  <2>1. ASSUME NEW v \in Versions(new) PROVE v \in Versions(os) \cup {e}
    <3>1. PICK x \in DOMAIN new, i \in 1..MaxProposalVersion :
            v = <<x, i>> /\ i <= new[x].version /\ (i = 1 => new[x].origin = "Coordinator")
      BY <2>1 DEF Versions
    <3>2. CASE x # id
      BY <1>1, <3>1, <3>2 DEF Versions
    <3>3. CASE x = id /\ i = p.version
      BY <3>1, <3>3
    <3>4. CASE x = id /\ i # p.version
      <4>1. i < p.version /\ i <= p.version - 1
        BY <1>1, <1>3, <3>1, <3>4
      <4>2. id \in DOMAIN os /\ i <= os[id].version /\ p.origin = os[id].origin
        BY <1>2, <1>3, <3>1, <4>1
      <4>3. QED BY <1>1, <3>1, <3>4, <4>2 DEF Versions
    <3>5. QED BY <3>2, <3>3, <3>4
  <2>2. e \in Versions(new)
    <3>1. id \in DOMAIN new /\ p.version <= new[id].version /\ p.version \in 1..MaxProposalVersion
      BY <1>1, <1>3
    <3>2. p.version = 1 => new[id].origin = "Coordinator"
      BY <1>1, <1>2, <1>3
    <3>3. QED BY <3>1, <3>2 DEF Versions
  <2>3. ASSUME NEW v \in Versions(os) PROVE v \in Versions(new)
    <3>1. PICK x \in DOMAIN os, i \in 1..MaxProposalVersion :
            v = <<x, i>> /\ i <= os[x].version /\ (i = 1 => os[x].origin = "Coordinator")
      BY <2>3 DEF Versions
    <3>2. x \in DOMAIN new /\ i <= new[x].version /\ (i = 1 => new[x].origin = "Coordinator")
      <4>1. CASE x # id
        BY <1>1, <3>1, <4>1
      <4>2. CASE x = id
        BY <1>1, <1>2, <1>3, <3>1, <4>2
      <4>3. QED BY <4>1, <4>2
    <3>3. QED BY <3>1, <3>2 DEF Versions
  <2>4. QED BY <2>1, <2>2, <2>3
<1>5. e \notin Versions(os)
  BY <1>2, <1>3 DEF Versions
<1>6. IsFiniteSet(Versions(os))
  BY VersionsFinite
<1>7. QED BY <1>4, <1>5, <1>6, FS_AddElement

LEMMA AdjustProposalPreserves ==
  ASSUME MatchingInv, NEW caller, NEW id, NEW offer \in OfferInputs,
         M!AdjustProposal(caller, id, offer[1], offer[2])
  PROVE  MatchingInv' /\ OffersStand
<1> DEFINE p == offers[id]
           q == [p EXCEPT !.terms = offer[1], !.expires = offer[2], !.status = "Proposed",
                          !.version = p.version + 1, !.approved = {}]
<1>1. /\ id \in DOMAIN offers /\ M!IsOpen(p.status) /\ p.version < MaxProposalVersion
      /\ pendingCount' = IF p.status = "Active" THEN M!Increase(pendingCount, p.program) ELSE pendingCount
      /\ M!RecordCoordinatorAction(caller) /\ UNCHANGED <<participants, pairIndex>>
  BY DEF M!AdjustProposal, M!Has, M!registryVars
<1>2. offers' = [offers EXCEPT ![id] = q]
  BY DEF M!AdjustProposal, M!ApprovalsAfter
<1>3. OffersOK(offers) /\ CountOK(pendingCount, offers) /\ LogOK(actionCount, offers)
  BY DEF MatchingInv
<1>4. p \in M!Proposal /\ p.version \in 1..MaxProposalVersion
  BY <1>1, <1>3 DEF OffersOK, SoundOffer
<1>5. /\ q.program = p.program /\ q.mentor = p.mentor /\ q.mentee = p.mentee
      /\ q.origin = p.origin /\ q.version = p.version + 1 /\ q.approved = {} /\ q.status = "Proposed"
  BY <1>1, <1>4 DEF M!Proposal
<1>6. MaxProposalVersion \in Nat /\ offer[2] \in Nat
  BY MatchConstants
<1>7. q.version \in 1..MaxProposalVersion /\ q.version # p.version /\ q.version \in Nat
  BY <1>1, <1>4, <1>5, <1>6
<1>8. q \in M!Proposal
  BY <1>4, <1>6, <1>5, <1>7 DEF M!Proposal
<1>9. SoundOffer(q)
  BY <1>5, <1>7, <1>8 DEF SoundOffer
<1>10. PairOf(q) = PairOf(p)
  BY <1>5 DEF PairOf
<1>11. Writes(offers', offers, id, q)
  BY <1>1, <1>2 DEF Writes
<1>12. q.program \in Programs
  BY <1>4, <1>5 DEF M!Proposal
<1> HIDE DEF q
<1>13. CountOK(pendingCount', offers')
  <2>1. CASE p.status = "Active"
    <3>1. CountOK(M!Increase(pendingCount, q.program), offers')
      BY <1>1, <1>3, <1>5, <1>11, <1>12, <2>1, WaitingEnters
    <3>2. QED BY <1>1, <1>5, <2>1, <3>1
  <2>2. CASE p.status # "Active"
    <3>1. p.status = "Proposed"
      BY <1>1, <2>2 DEF M!IsOpen
    <3>2. CountOK(pendingCount, offers')
      BY <1>1, <1>3, <1>5, <1>11, <3>1, WaitingStays
    <3>3. QED BY <1>1, <2>2, <3>2
  <2>3. QED BY <2>1, <2>2
<1>14. LogOK(actionCount', offers')
  <2>1. Cardinality(Versions(offers')) = Cardinality(Versions(offers)) + 1
    BY <1>1, <1>3, <1>5, <1>7, <1>11, VersionAdded
  <2>2. QED BY <1>1, <1>3, <2>1, LogGrows DEF LogOK
<1>15. QED BY <1>1, <1>2, <1>5, <1>7, <1>9, <1>10, <1>13, <1>14, OfferStep

\* The open proposal of a pair that lapsed is expired before another is made.
LapsedOf(pair) == M!Has(pairIndex, pair) /\ M!IsOpen(offers[pairIndex[pair]].status)
SettledOf(pair) ==
    IF LapsedOf(pair) THEN [offers EXCEPT ![pairIndex[pair]].status = "Expired"] ELSE offers
CountOf(pair) == IF LapsedOf(pair) THEN M!CountAfterExpiry(offers[pairIndex[pair]]) ELSE pendingCount

LEMMA LapsedSettled ==
  ASSUME MatchingInv, NEW pair
  PROVE  LET os == SettledOf(pair) IN
         /\ DOMAIN os = DOMAIN offers
         /\ OffersOK(os) /\ IndexOK(os, pairIndex) /\ CountOK(CountOf(pair), os)
         /\ Versions(os) = Versions(offers)
         /\ \A x \in DOMAIN os : os[x].version = offers[x].version /\ os[x].terms = offers[x].terms
         /\ \A x \in DOMAIN os : PairOf(os[x]) = pair => ~M!IsOpen(os[x].status)
<1> DEFINE os == SettledOf(pair)
           id == pairIndex[pair]
           p == offers[id]
           q == [p EXCEPT !.status = "Expired"]
<1>1. OffersOK(offers) /\ IndexOK(offers, pairIndex) /\ CountOK(pendingCount, offers)
  BY DEF MatchingInv
<1>2. CASE ~LapsedOf(pair)
  <2>1. os = offers /\ CountOf(pair) = pendingCount
    BY <1>2 DEF SettledOf, CountOf
  <2>2. \A x \in DOMAIN offers : PairOf(offers[x]) = pair => ~M!IsOpen(offers[x].status)
    BY <1>1, <1>2 DEF IndexOK, LapsedOf, M!Has
  <2>3. QED BY <1>1, <2>1, <2>2
<1>3. CASE LapsedOf(pair)
  <2>1. /\ pair \in DOMAIN pairIndex /\ M!IsOpen(p.status)
        /\ id \in DOMAIN offers /\ pair = PairOf(p)
    BY <1>1, <1>3 DEF LapsedOf, M!Has, IndexOK
  <2>2. os = [offers EXCEPT ![id] = q] /\ CountOf(pair) = M!CountAfterExpiry(p)
    BY <1>3 DEF SettledOf, CountOf
  <2>3. p \in M!Proposal /\ p.version \in 1..MaxProposalVersion
    BY <1>1, <2>1 DEF OffersOK, SoundOffer
  <2>4. /\ q.program = p.program /\ q.mentor = p.mentor /\ q.mentee = p.mentee /\ q.terms = p.terms
        /\ q.origin = p.origin /\ q.version = p.version /\ q.status = "Expired"
    BY <2>3 DEF M!Proposal
  <2>5. q \in M!Proposal /\ q.program \in Programs
    BY <2>3 DEF M!Proposal
  <2>6. SoundOffer(q) /\ PairOf(q) = PairOf(p) /\ ~M!IsOpen(q.status)
    BY <2>3, <2>4, <2>5 DEF SoundOffer, PairOf, M!IsOpen
  <2> HIDE DEF os, q, p, id
  <2>7. Writes(os, offers, id, q) /\ p = offers[id]
    BY <2>1, <2>2 DEF Writes, p
  <2>8. OffersOK(os) /\ IndexOK(os, pairIndex)
    BY <1>1, <2>1, <2>6, <2>7, OfferReplaced
  <2>9. CountOK(CountOf(pair), os)
    <3>1. CASE p.status = "Proposed"
      <4>1. CountOf(pair) = M!Decrease(pendingCount, p.program)
        BY <2>2, <3>1 DEF M!CountAfterExpiry
      <4>2. CountOK(M!Decrease(pendingCount, q.program), os)
        BY <1>1, <2>1, <2>4, <2>5, <2>7, <3>1, WaitingLeaves
      <4>3. QED BY <2>4, <4>1, <4>2
    <3>2. CASE p.status # "Proposed"
      <4>1. CountOf(pair) = pendingCount
        BY <2>2, <3>2 DEF M!CountAfterExpiry
      <4>2. CountOK(pendingCount, os)
        BY <1>1, <2>1, <2>4, <2>7, <3>2, WaitingStays
      <4>3. QED BY <4>1, <4>2
    <3>3. QED BY <3>1, <3>2
  <2>10. Versions(os) = Versions(offers)
    BY <2>1, <2>4, <2>7, SameVersions
  <2>11. /\ DOMAIN os = DOMAIN offers
         /\ \A x \in DOMAIN os : os[x].version = offers[x].version /\ os[x].terms = offers[x].terms
    BY <2>1, <2>2, <2>4, <2>7
  <2>12. \A x \in DOMAIN os : PairOf(os[x]) = pair => ~M!IsOpen(os[x].status)
    BY <1>1, <2>1, <2>6, <2>7, <2>11 DEF IndexOK, Writes, id
  <2>13. QED BY <2>8, <2>9, <2>10, <2>11, <2>12 DEF os
<1>4. QED BY <1>2, <1>3

\* A proposal is added under the next number and becomes the one of its pair.
LEMMA OfferAdded ==
  ASSUME NEW os, NEW idx, OffersOK(os), IndexOK(os, idx), NEW p, SoundOffer(p), NEW id,
         id = Cardinality(DOMAIN os) + 1,
         \A x \in DOMAIN os : PairOf(os[x]) = PairOf(p) => ~M!IsOpen(os[x].status),
         NEW new, Writes(new, os, id, p)
  PROVE  id \notin DOMAIN os /\ OffersOK(new) /\ IndexOK(new, M!Set(idx, PairOf(p), id))
<1> DEFINE n == Cardinality(DOMAIN os)
           pair == PairOf(p)
           jdx == M!Set(idx, pair, id)
<1>1. /\ DOMAIN new = DOMAIN os \cup {id} /\ new[id] = p
      /\ \A x \in DOMAIN os \ {id} : new[x] = os[x]
  BY DEF Writes
<1>2. IsFiniteSet(DOMAIN os) /\ DOMAIN os = 1..n /\ n \in Nat /\ id = n + 1
  BY FS_CardinalityType DEF OffersOK
<1>3. /\ DOMAIN jdx = DOMAIN idx \cup {pair} /\ jdx[pair] = id
      /\ \A k \in DOMAIN idx \ {pair} : jdx[k] = idx[k]
  BY DEF M!Set
<1> HIDE DEF n, jdx
<1>4. id \notin DOMAIN os /\ DOMAIN new = 1..(n + 1)
  BY <1>1, <1>2
<1>5. IsFiniteSet(DOMAIN new) /\ Cardinality(DOMAIN new) = n + 1
  BY <1>1, <1>2, <1>4, FS_AddElement DEF n
<1>6. OffersOK(new)
  BY <1>1, <1>4, <1>5 DEF OffersOK
<1>7. \A k \in DOMAIN jdx : jdx[k] \in DOMAIN new /\ k = PairOf(new[jdx[k]])
  <2> TAKE k \in DOMAIN jdx
  <2>1. CASE k = pair
    BY <1>1, <1>3, <2>1
  <2>2. CASE k # pair
    BY <1>1, <1>3, <1>4, <2>2 DEF IndexOK
  <2>3. QED BY <2>1, <2>2
<1>8. ASSUME NEW x \in DOMAIN new, M!IsOpen(new[x].status)
      PROVE  PairOf(new[x]) \in DOMAIN jdx /\ jdx[PairOf(new[x])] = x
  <2>1. CASE x = id
    BY <1>1, <1>3, <2>1
  <2>2. CASE x # id
    <3>1. x \in DOMAIN os /\ new[x] = os[x]
      BY <1>1, <1>8, <2>2
    <3>2. PairOf(os[x]) # pair /\ PairOf(os[x]) \in DOMAIN idx /\ idx[PairOf(os[x])] = x
      BY <1>8, <3>1 DEF IndexOK
    <3>3. QED BY <1>3, <3>1, <3>2
  <2>3. QED BY <2>1, <2>2
<1>9. IndexOK(new, jdx)
  BY <1>7, <1>8 DEF IndexOK
<1>10. QED BY <1>4, <1>6, <1>9 DEF jdx

\* A mentor's proposal has no version of a coordinator.
LEMMA MentorVersions ==
  ASSUME NEW os, OffersOK(os), NEW new, NEW id, id \notin DOMAIN os, NEW p, Writes(new, os, id, p),
         p.version = 1, p.origin = "Mentor"
  PROVE  Versions(new) = Versions(os)
<1>1. /\ DOMAIN new = DOMAIN os \cup {id} /\ new[id] = p
      /\ \A x \in DOMAIN os : new[x] = os[x]
  BY DEF Writes
<1>2. ASSUME NEW v \in Versions(new) PROVE v \in Versions(os)
  <2>1. PICK x \in DOMAIN new, i \in 1..MaxProposalVersion :
          v = <<x, i>> /\ i <= new[x].version /\ (i = 1 => new[x].origin = "Coordinator")
    BY <1>2 DEF Versions
  <2>2. x # id
    <3>1. SUFFICES ASSUME x = id PROVE FALSE
      OBVIOUS
    <3>2. i <= 1 /\ MaxProposalVersion \in Nat
      BY <1>1, <2>1, <3>1, MatchConstants
    <3>3. i = 1
      BY <3>2
    <3>4. QED BY <1>1, <2>1, <3>1, <3>3
  <2>3. QED BY <1>1, <2>1, <2>2 DEF Versions
<1>3. ASSUME NEW v \in Versions(os) PROVE v \in Versions(new)
  <2>1. PICK x \in DOMAIN os, i \in 1..MaxProposalVersion :
          v = <<x, i>> /\ i <= os[x].version /\ (i = 1 => os[x].origin = "Coordinator")
    BY <1>3 DEF Versions
  <2>2. QED BY <1>1, <2>1 DEF Versions
<1>4. QED BY <1>2, <1>3

LEMMA CreatePreserves ==
  ASSUME MatchingInv, NEW origin, NEW program \in Programs, NEW mentor \in Mentors,
         NEW mentee \in Mentees, NEW offer \in OfferInputs, NEW caller,
         M!Create(origin, program, mentor, mentee, offer[1], offer[2]),
         \/ origin = "Mentor" /\ UNCHANGED actionCount
         \/ origin = "Coordinator" /\ M!RecordCoordinatorAction(caller)
  PROVE  MatchingInv' /\ OffersStand
<1> DEFINE pair == <<program, mentor, mentee>>
           os == SettledOf(pair)
           count == CountOf(pair)
           id == M!Cardinality(DOMAIN offers) + 1
           p == [program |-> program, mentor |-> mentor, mentee |-> mentee, terms |-> offer[1],
                 expires |-> offer[2], origin |-> origin, status |-> "Proposed",
                 version |-> 1, approved |-> {}]
<1>1. offers' = M!Set(os, id, p)
  BY Zenon DEF M!Create, SettledOf, LapsedOf
<1>2. pendingCount' = M!Increase(count, program)
  BY Zenon DEF M!Create, CountOf, LapsedOf
<1>3. pairIndex' = M!Set(pairIndex, pair, id) /\ UNCHANGED participants
  <2>1. pairIndex' = M!Set(pairIndex, pair, id) /\ UNCHANGED M!registryVars
    BY Zenon DEF M!Create
  <2>2. QED BY <2>1 DEF M!registryVars
<1>4. /\ DOMAIN os = DOMAIN offers
      /\ OffersOK(os) /\ IndexOK(os, pairIndex) /\ CountOK(count, os)
      /\ Versions(os) = Versions(offers)
      /\ \A x \in DOMAIN os : os[x].version = offers[x].version /\ os[x].terms = offers[x].terms
      /\ \A x \in DOMAIN os : PairOf(os[x]) = pair => ~M!IsOpen(os[x].status)
  BY LapsedSettled
<1>5. M!Cardinality(DOMAIN offers) = Cardinality(DOMAIN os)
  BY <1>4, Zenon DEF Cardinality, M!Cardinality
<1>6. p.program = program /\ p.version = 1 /\ p.origin = origin /\ p.status = "Proposed" /\ PairOf(p) = pair
  BY DEF PairOf
<1>7. offer[2] \in Nat /\ MaxProposalVersion \in Nat \ {0}
  BY MatchConstants
<1>8. 1 \in 1..MaxProposalVersion
  BY <1>7
<1>9. SoundOffer(p)
  BY <1>7, <1>8 DEF SoundOffer, M!Proposal
<1> HIDE DEF os, count, p, id, pair
<1>10. Writes(offers', os, id, p)
  BY <1>1 DEF Writes, M!Set
<1>11. id = Cardinality(DOMAIN os) + 1
  BY <1>5 DEF id
<1>12. id \notin DOMAIN os /\ OffersOK(offers') /\ IndexOK(offers', pairIndex')
  BY <1>3, <1>4, <1>6, <1>9, <1>10, <1>11, OfferAdded
<1>13. CountOK(pendingCount', offers')
  BY <1>2, <1>4, <1>6, <1>10, <1>12, WaitingEnters
<1>14. LogOK(actionCount, offers)
  BY DEF MatchingInv
<1>15. LogOK(actionCount', offers')
  <2>1. CASE origin = "Mentor" /\ UNCHANGED actionCount
    <3>1. Versions(offers') = Versions(os)
      BY <1>4, <1>6, <1>10, <1>12, <2>1, MentorVersions
    <3>2. QED BY <1>4, <1>14, <2>1, <3>1 DEF LogOK
  <2>2. CASE origin = "Coordinator" /\ M!RecordCoordinatorAction(caller)
    <3>1. Cardinality(Versions(offers')) = Cardinality(Versions(os)) + 1
      BY <1>4, <1>6, <1>8, <1>10, <1>12, <2>2, VersionAdded
    <3>2. QED BY <1>4, <1>14, <2>2, <3>1, LogGrows DEF LogOK
  <2>3. QED BY <2>1, <2>2
<1>16. OffersStand
  <2>1. ASSUME NEW x \in DOMAIN offers
        PROVE  /\ offers'[x].status = "Active" => offers'[x].approved = {offers'[x].mentor, offers'[x].mentee}
               /\ offers'[x].version = offers[x].version /\ offers'[x].terms = offers[x].terms
    BY <1>4, <1>10, <1>12 DEF Writes, OffersOK, SoundOffer
  <2>2. QED BY <2>1 DEF OffersStand
<1>17. QED BY <1>3, <1>12, <1>13, <1>15, <1>16 DEF MatchingInv

LEMMA MatchingNext ==
  ASSUME MatchingInv, M!Next
  PROVE  MatchingInv' /\ OffersStand
<1>1. ASSUME NEW caller, NEW program \in Programs, NEW mentor \in Mentors, NEW mentee \in Mentees,
             NEW offer \in OfferInputs,
             M!ProposeAsCoordinator(caller, program, mentor, mentee, offer[1], offer[2])
      PROVE  MatchingInv' /\ OffersStand
  <2>1. /\ M!Create("Coordinator", program, mentor, mentee, offer[1], offer[2])
        /\ M!RecordCoordinatorAction(caller)
    BY <1>1, Zenon DEF M!ProposeAsCoordinator
  <2>2. QED BY <2>1, CreatePreserves
<1>2. ASSUME NEW program \in Programs, NEW mentor \in Mentors, NEW mentee \in Mentees,
             NEW offer \in OfferInputs, M!CreateProposal(program, mentor, mentee, offer[1], offer[2])
      PROVE  MatchingInv' /\ OffersStand
  <2>1. M!Create("Mentor", program, mentor, mentee, offer[1], offer[2]) /\ UNCHANGED actionCount
    BY <1>2, Zenon DEF M!CreateProposal
  <2>2. QED BY <2>1, CreatePreserves
<1>3. "Mentor" \in {"Mentor", "Mentee"} /\ "Mentee" \in {"Mentor", "Mentee"}
  OBVIOUS
<1>4. QED
  BY <1>1, <1>2, <1>3, SetMatchCoordinatorPreserves, RegisterParticipantPreserves,
     SetParticipantStatusPreserves, AdjustProposalPreserves, SetBlockPreserves,
     ApproveProposalPreserves, DeclineProposalPreserves, Zenon DEF M!Next

LEMMA MatchingUnchanged ==
  ASSUME MatchingInv, UNCHANGED matchingVars
  PROVE  MatchingInv'
BY DEF MatchingInv, matchingVars

\* What the matching contract promises.
LEMMA MatchingHolds ==
  ASSUME MatchingInv
  PROVE  M!TypeOK /\ M!PendingExact /\ M!OneOpenOffer
<1>1. M!TypeOK
  BY DEF MatchingInv, OffersOK, SoundOffer, M!TypeOK
<1>2. M!OneOpenOffer
  BY DEF MatchingInv, IndexOK, PairOf, M!OneOpenOffer
<1>3. \A S : M!Cardinality(S) = Cardinality(S)
  BY Zenon DEF Cardinality, M!Cardinality
<1>4. M!ActionLog = LogEntries(actionCount) /\ M!CoordinatedVersions = Versions(offers)
  BY DEF M!ActionLog, LogEntries, M!CoordinatedVersions, Versions
<1>5. \A g : {id \in DOMAIN offers : offers[id].program = g /\ offers[id].status = "Proposed"} = Waiting(offers, g)
  BY DEF Waiting
<1>6. /\ \A g \in Programs : M!Pending(pendingCount, g) = Cardinality(Waiting(offers, g))
      /\ Cardinality(LogEntries(actionCount)) = Cardinality(Versions(offers))
  BY DEF MatchingInv, CountOK, LogOK
<1>7. QED BY <1>1, <1>2, <1>3, <1>4, <1>5, <1>6 DEF M!PendingExact

-----------------------------------------------------------------------------
(* The eight contracts together *)

MentorshipsInv ==
    /\ RematchInv /\ MatchingInv /\ ExportInv /\ ConductInv
    /\ EngagementsInv /\ PactsInv /\ AdmissionsInv /\ IntakeInv

\* The action properties, for one step.
StepStands == OffersStand /\ ConsentedTerms /\ ConductStands /\ HistoryKept

LEMMA MentorshipsInitial == Init => MentorshipsInv
<1> SUFFICES ASSUME Init PROVE MentorshipsInv
  OBVIOUS
<1>1. now = 1 /\ R!Init /\ M!Init /\ E!Init /\ C!Init /\ G!Init /\ A!Init /\ D!Init /\ I!Init
  BY DEF Init
<1>2. QED
  BY <1>1, RematchInitial, MatchingInitial, ExportInitial, ConductInitial, EngagementsInitial,
     PactsInitial, AdmissionsInitial, IntakeInitial DEF MentorshipsInv

\* A step is one of a single contract, or of the clock, and the other contracts stutter.
LEMMA OneContractMoves ==
  ASSUME now \in Nat, [Next]_vars
  PROVE  /\ now' \in Nat /\ now' >= now
         /\ (R!Next /\ UNCHANGED now) \/ UNCHANGED rematchVars
         /\ M!Next \/ UNCHANGED matchingVars
         /\ (E!Next /\ UNCHANGED now) \/ UNCHANGED exportVars
         /\ C!Next \/ UNCHANGED conductVars
         /\ (G!Next /\ UNCHANGED now) \/ UNCHANGED engagementVars
         /\ A!Next \/ UNCHANGED pactVars
         /\ D!Next \/ UNCHANGED admissionVars
         /\ I!Next \/ UNCHANGED intakeVars
<1>1. ASSUME UNCHANGED now PROVE now' \in Nat /\ now' >= now
  BY <1>1
<1>2. ASSUME Tick PROVE now' \in Nat /\ now' >= now
  BY <1>2 DEF Tick
<1>3. ASSUME G!AdvanceTime PROVE now' \in Nat /\ now' >= now /\ UNCHANGED engagementVars
  BY <1>3 DEF G!AdvanceTime, G!engagementVars, engagementVars
<1>4. D!Next => UNCHANGED now
  BY Zenon DEF D!Next
<1>5. I!Next => UNCHANGED now
  BY Zenon DEF I!Next
<1>6. CASE UNCHANGED vars
  <2>1. /\ UNCHANGED <<now, rematchVars, matchingVars, exportVars, conductVars>>
        /\ UNCHANGED <<engagementVars, pactVars, admissionVars, intakeVars>>
    BY <1>6 DEF vars
  <2>2. QED BY <1>1, <2>1
<1>7. CASE focus = "rematch" /\ Next
  <2>1. /\ (R!Next /\ UNCHANGED now) \/ (Tick /\ UNCHANGED rematchVars)
        /\ UNCHANGED <<matchingVars, exportVars, conductVars, engagementVars, pactVars,
                       admissionVars, intakeVars>>
    BY <1>7 DEF Next
  <2>2. QED BY <1>1, <1>2, <2>1
<1>8. CASE focus = "matching" /\ Next
  <2>1. /\ (M!Next /\ UNCHANGED now) \/ (Tick /\ UNCHANGED matchingVars)
        /\ UNCHANGED <<rematchVars, exportVars, conductVars, engagementVars, pactVars,
                       admissionVars, intakeVars>>
    BY <1>8 DEF Next
  <2>2. QED BY <1>1, <1>2, <2>1
<1>9. CASE focus = "export" /\ Next
  <2>1. /\ (E!Next /\ UNCHANGED now) \/ (Tick /\ UNCHANGED exportVars)
        /\ UNCHANGED <<rematchVars, matchingVars, conductVars, engagementVars, pactVars,
                       admissionVars, intakeVars>>
    BY <1>9 DEF Next
  <2>2. QED BY <1>1, <1>2, <2>1
<1>10. CASE focus = "conduct" /\ Next
  <2>1. /\ C!Next
        /\ UNCHANGED <<now, rematchVars, matchingVars, exportVars, engagementVars, pactVars,
                       admissionVars, intakeVars>>
    BY <1>10 DEF Next
  <2>2. QED BY <1>1, <2>1
<1>11. CASE focus = "engagements" /\ Next
  <2>1. /\ (G!Next /\ UNCHANGED now) \/ G!AdvanceTime
        /\ UNCHANGED <<rematchVars, matchingVars, exportVars, conductVars, pactVars,
                       admissionVars, intakeVars>>
    BY <1>11 DEF Next
  <2>2. QED BY <1>1, <1>3, <2>1
<1>12. CASE focus = "agreements" /\ Next
  <2>1. /\ A!Next
        /\ UNCHANGED <<now, rematchVars, matchingVars, exportVars, conductVars, engagementVars,
                       admissionVars, intakeVars>>
    BY <1>12 DEF Next
  <2>2. QED BY <1>1, <2>1
<1>13. CASE focus = "admissions" /\ Next
  <2>1. /\ D!Next \/ (Tick /\ UNCHANGED admissionVars)
        /\ UNCHANGED <<rematchVars, matchingVars, exportVars, conductVars, engagementVars,
                       pactVars, intakeVars>>
    BY <1>13 DEF Next
  <2>2. QED BY <1>1, <1>2, <1>4, <2>1
<1>14. CASE focus = "intake" /\ Next
  <2>1. /\ I!Next \/ (Tick /\ UNCHANGED intakeVars)
        /\ UNCHANGED <<rematchVars, matchingVars, exportVars, conductVars, engagementVars,
                       pactVars, admissionVars>>
    BY <1>14 DEF Next
  <2>2. QED BY <1>1, <1>2, <1>5, <2>1
<1>15. QED
  BY <1>6, <1>7, <1>8, <1>9, <1>10, <1>11, <1>12, <1>13, <1>14 DEF Next

LEMMA MentorshipsStep ==
  ASSUME MentorshipsInv, [Next]_vars PROVE MentorshipsInv' /\ StepStands
<1>0. now \in Nat
  BY DEF MentorshipsInv, EngagementsInv
<1>1. now' \in Nat /\ now' >= now
  BY <1>0, OneContractMoves
<1>2. RematchInv'
  BY <1>0, <1>1, OneContractMoves, RematchNext, RematchUnchanged DEF MentorshipsInv
<1>3. MatchingInv' /\ OffersStand
  <2>1. ASSUME UNCHANGED matchingVars PROVE MatchingInv' /\ OffersStand
    BY <2>1, MatchingUnchanged, OffersUnchanged DEF MentorshipsInv, matchingVars, MatchingInv
  <2>2. QED BY <1>0, <2>1, OneContractMoves, MatchingNext DEF MentorshipsInv
<1>4. ExportInv'
  BY <1>0, <1>1, OneContractMoves, ExportNext, ExportUnchanged DEF MentorshipsInv
<1>5. ConductInv' /\ ConductStands
  <2>1. ASSUME UNCHANGED conductVars PROVE ConductInv' /\ ConductStands
    BY <2>1, UnderPolicies DEF MentorshipsInv, conductVars, ConductInv, C!TypeOK
  <2>2. QED BY <1>0, <2>1, OneContractMoves, ConductNext DEF MentorshipsInv
<1>6. EngagementsInv'
  BY <1>0, <1>1, OneContractMoves, EngagementsNext, EngagementsClock DEF MentorshipsInv
<1>7. PactsInv' /\ ConsentedTerms
  <2>1. ASSUME UNCHANGED pactVars PROVE PactsInv' /\ ConsentedTerms
    BY <2>1, BlocksPreserve DEF MentorshipsInv, pactVars
  <2>2. QED BY <1>0, <2>1, OneContractMoves, PactsNext DEF MentorshipsInv
<1>8. AdmissionsInv' /\ HistoryKept
  BY <1>0, <1>1, OneContractMoves, AdmissionsNext, AdmissionsUnchanged DEF MentorshipsInv
<1>9. IntakeInv'
  BY <1>0, OneContractMoves, IntakeNext, IntakeUnchanged DEF MentorshipsInv
<1>10. QED
  BY <1>2, <1>3, <1>4, <1>5, <1>6, <1>7, <1>8, <1>9 DEF MentorshipsInv, StepStands

\* The inductive invariant of the eight contracts, for any people, programs, inputs, limits
\* and clock.
THEOREM MentorshipsInvariant == Spec => []MentorshipsInv
<1>1. Init => MentorshipsInv
  BY MentorshipsInitial
<1>2. MentorshipsInv /\ [Next]_vars => MentorshipsInv'
  BY MentorshipsStep
<1>3. QED BY <1>1, <1>2, PTL DEF Spec

\* Every stored value of the eight contracts stays in its type.
THEOREM MentorshipsTyped == Spec => []TypeOK
<1>1. MentorshipsInv => TypeOK
  BY RematchHolds, MatchingHolds, ExportHolds, ConductHolds, EngagementsHold, AdmissionsHold,
     IntakeHolds DEF MentorshipsInv, TypeOK, PactsInv
<1>2. QED BY <1>1, MentorshipsInvariant, PTL

\* Whatever mix of retries, expiries, adjustments and withdrawals led there, the statistics
\* of rematching, the pending proposals and the log of the coordinators, the export quotas
\* and money, and the active applications of a program agree with the records they count.
THEOREM MentorshipsCounted == Spec => []CountersExact
<1>1. MentorshipsInv => CountersExact
  BY RematchHolds, MatchingHolds, ExportHolds, AdmissionsHold DEF MentorshipsInv, CountersExact
<1>2. QED BY <1>1, MentorshipsInvariant, PTL

\* A match has one live rematch request, a pair one open proposal, an applicant one
\* submission with no draft beside it and one chain of attempts, and the review queue one order.
THEOREM MentorshipsOneOfAKind == Spec => []OneOfAKind
<1>1. MentorshipsInv => OneOfAKind
  BY RematchHolds, MatchingHolds, IntakeHolds, AdmissionsHold DEF MentorshipsInv, OneOfAKind
<1>2. QED BY <1>1, MentorshipsInvariant, PTL

\* Nothing takes effect without the people it needs: the guardian, the other party of a
\* pause, both signers, whoever must accept the code of conduct, a reviewer without conflict.
THEOREM MentorshipsByConsent == Spec => []TakesEffectByConsent
<1>1. MentorshipsInv => TakesEffectByConsent
  BY EngagementsHold, ConductHolds, IntakeHolds DEF MentorshipsInv, TakesEffectByConsent, PactsInv
<1>2. QED BY <1>1, MentorshipsInvariant, PTL

\* No step changes approved terms under the approval, the terms of an agreement without an
\* amendment both approved, a closed case or engagement, or the recorded decisions.
THEOREM MentorshipsAgreedStands == Spec => AgreedStands
<1>1. MentorshipsInv /\ [Next]_vars => StepStands
  BY MentorshipsStep
<1>2. Spec => M!ApprovedTermsStand
  <2>1. StepStands => [OffersStand]_(M!matchingVars)
    BY DEF StepStands
  <2>2. Spec => [][OffersStand]_(M!matchingVars)
    BY <1>1, <2>1, MentorshipsInvariant, PTL DEF Spec
  <2>3. QED BY <2>2, PTL DEF M!ApprovedTermsStand, OffersStand
<1>3. Spec => A!TermsByConsent
  <2>1. StepStands => [ConsentedTerms]_(A!pactVars)
    BY DEF StepStands
  <2>2. Spec => [][ConsentedTerms]_(A!pactVars)
    BY <1>1, <2>1, MentorshipsInvariant, PTL DEF Spec
  <2>3. QED BY <2>2, PTL DEF A!TermsByConsent, ConsentedTerms
<1>4. Spec => C!ConductFinal
  <2>1. StepStands => [ConductStands]_(C!conductVars)
    BY DEF StepStands
  <2>2. Spec => [][ConductStands]_(C!conductVars)
    BY <1>1, <2>1, MentorshipsInvariant, PTL DEF Spec
  <2>3. QED BY <2>2, PTL DEF C!ConductFinal, ConductStands
<1>5. Spec => D!HistoryStands
  <2>1. StepStands => [HistoryKept]_(D!admissionVars)
    BY DEF StepStands
  <2>2. Spec => [][HistoryKept]_(D!admissionVars)
    BY <1>1, <2>1, MentorshipsInvariant, PTL DEF Spec
  <2>3. QED BY <2>2, PTL DEF D!HistoryStands, HistoryKept
<1>6. QED BY <1>2, <1>3, <1>4, <1>5 DEF AgreedStands
=============================================================================
