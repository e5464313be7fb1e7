--------------------------- MODULE SessionsProofs ---------------------------
(***************************************************************************)
(* What the contracts around a mentorship's time and places keep, for      *)
(* every instance: nobody is in two places at once, the counters of        *)
(* cohorts and seats are exact, no step takes anything out of turn, and    *)
(* stored weeks and calendars are normalized lists of any length.          *)
(***************************************************************************)
EXTENDS Sessions, SumTheorems, SequenceTheorems, FiniteSetTheorems

-----------------------------------------------------------------------------
(* Session scheduling *)

SchedulingInv == S!TypeOK /\ S!NoDoubleBooking /\ S!OneOpenProposal

\* Sessions that do not overlap: the conflict check of both writers, seen from either side.
Apart(s, t) ==
    S!Parties(s) \cap S!Parties(t) # {} =>
        ~S!Overlaps(s, t.start_utc, S!SessionEnd(t.start_utc, t.duration))

LEMMA ApartSymmetric ==
  ASSUME NEW s \in S!Session, NEW t \in S!Session, Apart(s, t)
  PROVE  Apart(t, s)
BY DEF Apart, S!Session, S!Overlaps, S!SessionEnd

LEMMA SchedulingInit ==
  S!Init /\ now = 1 => SchedulingInv
BY SchedulingConstants DEF S!Init, SchedulingInv, S!TypeOK, S!NoDoubleBooking,
   S!OneOpenProposal, S!Empty

\* The registrar, the lead time, the policy and the clock: sessions and proposals stay.
LEMMA SettingsStep ==
  ASSUME SchedulingInv,
         UNCHANGED <<agreements, sessions, bookings, proposals, openProposal>>,
         now' \in Nat,
         registrar' \in Registrars \cup {Admin},
         leadTime' \in 0..MaxLeadTime,
         policy'[1] \in 0..MaxLeadTime,
         policy'[2] \in MinApprovalWindow..MaxApprovalWindow
  PROVE  SchedulingInv'
<1>1. S!TypeOK'
  BY DEF SchedulingInv, S!TypeOK, S!Has
<1>2. S!NoDoubleBooking'
  BY DEF SchedulingInv, S!NoDoubleBooking
<1>3. S!OneOpenProposal'
  BY DEF SchedulingInv, S!OneOpenProposal, S!Has
<1>4. QED BY <1>1, <1>2, <1>3 DEF SchedulingInv
LEMMA AgreementStep ==
  ASSUME SchedulingInv,
         UNCHANGED <<now, registrar, leadTime, policy, sessions, bookings, proposals,
                     openProposal>>,
         \A g \in DOMAIN agreements' : agreements'[g] \in S!AgreementAnchor
  PROVE  SchedulingInv'
<1>1. S!TypeOK'
  BY DEF SchedulingInv, S!TypeOK, S!Has
<1>2. S!NoDoubleBooking'
  BY DEF SchedulingInv, S!NoDoubleBooking
<1>3. S!OneOpenProposal'
  BY DEF SchedulingInv, S!OneOpenProposal, S!Has
<1>4. QED BY <1>1, <1>2, <1>3 DEF SchedulingInv

LEMMA RegisterAgreementPreserves ==
  ASSUME SchedulingInv, UNCHANGED now,
         NEW caller, NEW g, NEW mentor \in Persons, NEW mentee \in Persons,
         S!RegisterAgreement(caller, g, mentor, mentee)
  PROVE  SchedulingInv'
<1>1. \A x \in DOMAIN agreements' : agreements'[x] \in S!AgreementAnchor
  BY DEF SchedulingInv, S!TypeOK, S!RegisterAgreement, S!Set, S!AgreementAnchor
<1>2. QED BY <1>1, AgreementStep DEF S!RegisterAgreement, S!settings

LEMMA SetAgreementActivePreserves ==
  ASSUME SchedulingInv, UNCHANGED now, NEW caller, NEW g, NEW value \in BOOLEAN,
         S!SetAgreementActive(caller, g, value)
  PROVE  SchedulingInv'
<1>1. \A x \in DOMAIN agreements' : agreements'[x] \in S!AgreementAnchor
  BY DEF SchedulingInv, S!TypeOK, S!SetAgreementActive, S!Has, S!AgreementAnchor
<1>2. QED BY <1>1, AgreementStep DEF S!SetAgreementActive, S!settings

\* A new session that is apart from every stored one of its parties.
LEMMA BookSessionPreserves ==
  ASSUME SchedulingInv, UNCHANGED now,
         NEW caller, NEW g, NEW id, NEW key, NEW start \in Nat, NEW duration \in Nat,
         S!BookSession(caller, g, id, key, start, duration)
  PROVE  SchedulingInv'
<1> DEFINE new == [mentor |-> agreements[g].mentor, mentee |-> agreements[g].mentee,
                   start_utc |-> start, duration |-> duration, status |-> "Booked",
                   confirmed |-> {}, revision |-> 0]
<1>1. /\ sessions' = S!Set(sessions, id, new)
      /\ bookings' = S!Set(bookings, <<g, caller, key>>, id)
      /\ ~S!Has(sessions, id)
      /\ UNCHANGED <<registrar, leadTime, policy, agreements, proposals, openProposal, now>>
  BY DEF S!BookSession, S!settings
<1>2. agreements[g] \in S!AgreementAnchor
  BY DEF S!BookSession, S!Has, SchedulingInv, S!TypeOK
<1>3. new \in S!Session
  BY <1>2 DEF S!AgreementAnchor, S!Session
<1>4. \A i \in DOMAIN sessions : sessions[i] \in S!Session
  BY DEF SchedulingInv, S!TypeOK
<1>5. ASSUME NEW i \in DOMAIN sessions PROVE Apart(sessions[i], new)
  <2>1. \A p \in S!Parties(new) :
          p \in S!Parties(sessions[i]) =>
              ~S!Overlaps(sessions[i], start, S!SessionEnd(start, duration))
    BY DEF S!BookSession, S!ConflictsWith, S!ParticipantSessions, S!Parties
  <2>2. new.start_utc = start /\ new.duration = duration
    OBVIOUS
  <2> HIDE DEF new
  <2>3. QED BY <2>1, <2>2 DEF Apart
<1>6. /\ DOMAIN sessions' = DOMAIN sessions \cup {id}
      /\ sessions'[id] = new
      /\ \A i \in DOMAIN sessions : i # id /\ sessions'[i] = sessions[i]
  BY <1>1 DEF S!Set, S!Has
<1> HIDE DEF new
<1>7. S!TypeOK'
  <2>1. \A i \in DOMAIN sessions' : sessions'[i] \in S!Session
    BY <1>3, <1>4, <1>6
  <2>2. \A b \in DOMAIN bookings' : bookings'[b] \in DOMAIN sessions'
    BY <1>1, <1>6 DEF SchedulingInv, S!TypeOK, S!Set
  <2>3. \A pid \in DOMAIN proposals' :
          proposals'[pid] \in S!RescheduleProposal
            /\ S!Has(sessions, proposals[pid].session_id)'
    BY <1>1, <1>6 DEF SchedulingInv, S!TypeOK, S!Has
  <2>4. QED BY <1>1, <2>1, <2>2, <2>3 DEF SchedulingInv, S!TypeOK
<1>8. S!NoDoubleBooking'
  <2>1. ASSUME NEW i \in DOMAIN sessions', NEW j \in DOMAIN sessions', i # j
        PROVE  Apart(sessions'[i], sessions'[j])
    <3>1. CASE i = id
      BY <1>3, <1>4, <1>5, <1>6, <2>1, <3>1, ApartSymmetric
    <3>2. CASE j = id
      BY <1>5, <1>6, <2>1, <3>2
    <3>3. CASE i # id /\ j # id
      BY <1>6, <2>1, <3>3 DEF SchedulingInv, S!NoDoubleBooking, Apart
    <3>4. QED BY <3>1, <3>2, <3>3
  <2>2. QED BY <2>1 DEF S!NoDoubleBooking, Apart
<1>9. S!OneOpenProposal'
  BY <1>1, <1>6 DEF SchedulingInv, S!TypeOK, S!OneOpenProposal, S!Has
<1>10. QED BY <1>7, <1>8, <1>9 DEF SchedulingInv
LEMMA ConfirmSessionPreserves ==
  ASSUME SchedulingInv, UNCHANGED now, NEW caller \in Persons, NEW id,
         S!ConfirmSession(caller, id)
  PROVE  SchedulingInv'
<1> DEFINE s == sessions[id]
           t == sessions'[id]
<1>1. /\ UNCHANGED <<registrar, leadTime, policy, agreements, bookings, proposals,
                     openProposal, now>>
      /\ DOMAIN sessions' = DOMAIN sessions /\ id \in DOMAIN sessions
      /\ \A i \in DOMAIN sessions : i # id => sessions'[i] = sessions[i]
  BY DEF S!ConfirmSession, S!settings, S!Has
<1>2. \A i \in DOMAIN sessions : sessions[i] \in S!Session
  BY DEF SchedulingInv, S!TypeOK
<1>3. /\ t \in S!Session
      /\ t.mentor = s.mentor /\ t.mentee = s.mentee
      /\ t.start_utc = s.start_utc /\ t.duration = s.duration /\ t.revision = s.revision
  BY <1>1, <1>2 DEF S!ConfirmSession, S!Session
<1> HIDE DEF s, t
<1>4. ASSUME NEW i \in DOMAIN sessions
      PROVE  /\ sessions'[i] \in S!Session
             /\ S!Parties(sessions'[i]) = S!Parties(sessions[i])
             /\ sessions'[i].start_utc = sessions[i].start_utc
             /\ sessions'[i].duration = sessions[i].duration
             /\ sessions'[i].revision = sessions[i].revision
  BY <1>1, <1>2, <1>3 DEF s, t, S!Parties
<1>5. S!TypeOK'
  BY <1>1, <1>4 DEF SchedulingInv, S!TypeOK, S!Has
<1>6. S!NoDoubleBooking'
  BY <1>1, <1>4 DEF SchedulingInv, S!NoDoubleBooking, S!Overlaps
<1>7. S!OneOpenProposal'
  BY <1>1, <1>4 DEF SchedulingInv, S!TypeOK, S!OneOpenProposal, S!Has
<1>8. QED BY <1>5, <1>6, <1>7 DEF SchedulingInv

\* The lapsed proposal is removed, so the new one is the only one that can be answered.
LEMMA ProposeReschedulePreserves ==
  ASSUME SchedulingInv, UNCHANGED now,
         NEW caller \in Persons, NEW id \in SessionIds, NEW pid,
         NEW start \in Nat, NEW duration \in Nat,
         S!ProposeReschedule(caller, id, pid, start, duration)
  PROVE  SchedulingInv'
<1> DEFINE s     == sessions[id]
           stale == IF S!Has(openProposal, id) THEN {openProposal[id]} ELSE {}
           limit == now + policy[2]
           new   == [session_id |-> id, proposed_by |-> caller, new_start_utc |-> start,
                     new_duration |-> duration,
                     expires_at |-> IF limit > s.start_utc THEN s.start_utc ELSE limit,
                     session_revision |-> s.revision, status |-> "Proposed"]
<1>1. /\ UNCHANGED <<registrar, leadTime, policy, agreements, sessions, bookings, now>>
      /\ id \in DOMAIN sessions
      /\ proposals' = S!Set(S!Remove(proposals, stale), pid, new)
      /\ openProposal' = S!Set(openProposal, id, pid)
      /\ pid \notin DOMAIN proposals
  BY DEF S!ProposeReschedule, S!settings, S!Has
<1>2. s \in S!Session
  BY <1>1 DEF SchedulingInv, S!TypeOK
<1>3. new \in S!RescheduleProposal
  <2>1. s.start_utc \in Nat /\ s.revision \in Nat
    BY <1>2 DEF S!Session
  <2>2. limit \in Nat
    BY SchedulingConstants DEF SchedulingInv, S!TypeOK
  <2> HIDE DEF s, limit
  <2>3. QED BY <2>1, <2>2 DEF S!RescheduleProposal
<1>4. /\ new.session_id = id /\ new.session_revision = s.revision
  OBVIOUS
<1> HIDE DEF new
<1>5. /\ DOMAIN proposals' = (DOMAIN proposals \ stale) \cup {pid}
      /\ proposals'[pid] = new
      /\ \A q \in DOMAIN proposals \ stale : q # pid /\ proposals'[q] = proposals[q]
      /\ openProposal'[id] = pid /\ id \in DOMAIN openProposal'
      /\ \A i \in DOMAIN openProposal :
           i \in DOMAIN openProposal' /\ (i # id => openProposal'[i] = openProposal[i])
  BY <1>1 DEF S!Set, S!Remove
<1>6. S!TypeOK'
  BY <1>1, <1>3, <1>4, <1>5 DEF SchedulingInv, S!TypeOK, S!Has
<1>7. S!NoDoubleBooking'
  BY <1>1 DEF SchedulingInv, S!NoDoubleBooking
<1>8. S!OneOpenProposal'
  <2>1. ASSUME NEW q \in DOMAIN proposals', proposals'[q].status = "Proposed"
        PROVE  /\ proposals'[q].session_id \in DOMAIN openProposal'
               /\ openProposal'[proposals'[q].session_id] = q
               /\ proposals'[q].session_revision
                    = sessions'[proposals'[q].session_id].revision
    <3>1. CASE q = pid
      BY <1>1, <1>4, <1>5, <3>1
    <3>2. CASE q # pid
      <4>1. q \in DOMAIN proposals \ stale /\ proposals'[q] = proposals[q]
        BY <1>5, <3>2
      <4>2. /\ proposals[q].session_id \in DOMAIN openProposal
            /\ openProposal[proposals[q].session_id] = q
            /\ proposals[q].session_revision = sessions[proposals[q].session_id].revision
        BY <2>1, <4>1 DEF SchedulingInv, S!OneOpenProposal, S!Has
      <4>3. proposals[q].session_id # id
        BY <4>1, <4>2 DEF S!Has
      <4>4. QED BY <1>1, <1>5, <4>1, <4>2, <4>3
    <3>3. QED BY <3>1, <3>2
  <2>2. QED BY <2>1 DEF S!OneOpenProposal, S!Has
<1>9. QED BY <1>6, <1>7, <1>8 DEF SchedulingInv

\* The session moves to a time that is still apart from the parties' other sessions, and
\* no other proposal of it can be answered.
LEMMA ApproveReschedulePreserves ==
  ASSUME SchedulingInv, UNCHANGED now, NEW caller, NEW pid, S!ApproveReschedule(caller, pid)
  PROVE  SchedulingInv'
<1> DEFINE r  == proposals[pid]
           id == r.session_id
           s  == sessions[id]
           t  == [s EXCEPT !.start_utc = r.new_start_utc, !.duration = r.new_duration,
                           !.revision = @ + 1, !.status = "Booked", !.confirmed = {}]
<1>1. /\ UNCHANGED <<registrar, leadTime, policy, agreements, bookings, now>>
      /\ pid \in DOMAIN proposals
      /\ r.status = "Proposed"
      /\ S!StillFree(s, id, r.new_start_utc, r.new_duration)
      /\ sessions' = [sessions EXCEPT ![id] = t]
      /\ proposals' = [proposals EXCEPT ![pid].status = "Applied"]
      /\ openProposal' = S!Remove(openProposal, {id})
  BY DEF S!ApproveReschedule, S!settings, S!Has
<1>2. r \in S!RescheduleProposal /\ id \in DOMAIN sessions
  BY <1>1 DEF SchedulingInv, S!TypeOK, S!Has
<1>3. \A i \in DOMAIN sessions : sessions[i] \in S!Session
  BY DEF SchedulingInv, S!TypeOK
<1>4. /\ t \in S!Session
      /\ t.mentor = s.mentor /\ t.mentee = s.mentee
      /\ t.start_utc = r.new_start_utc /\ t.duration = r.new_duration
  <2>1. s \in S!Session
    BY <1>2, <1>3
  <2>2. r.new_start_utc \in Nat /\ r.new_duration \in Nat
    BY <1>2 DEF S!RescheduleProposal
  <2> DEFINE a == [s EXCEPT !.start_utc = r.new_start_utc]
             b == [a EXCEPT !.duration = r.new_duration]
             c == [b EXCEPT !.revision = @ + 1]
             d == [c EXCEPT !.status = "Booked"]
  <2>3. t = [d EXCEPT !.confirmed = {}]
    BY Zenon
  <2> HIDE DEF s, r, t
  <2>4. a \in S!Session /\ a.start_utc = r.new_start_utc
           /\ a.mentor = s.mentor /\ a.mentee = s.mentee
    BY <2>1, <2>2 DEF S!Session
  <2> HIDE DEF a
  <2>5. b \in S!Session /\ b.start_utc = a.start_utc /\ b.duration = r.new_duration
           /\ b.mentor = a.mentor /\ b.mentee = a.mentee
    BY <2>2, <2>4 DEF S!Session
  <2> HIDE DEF b
  <2>6. c \in S!Session /\ c.start_utc = b.start_utc /\ c.duration = b.duration
           /\ c.mentor = b.mentor /\ c.mentee = b.mentee
    BY <2>5 DEF S!Session
  <2> HIDE DEF c
  <2>7. d \in S!Session /\ d.start_utc = c.start_utc /\ d.duration = c.duration
           /\ d.mentor = c.mentor /\ d.mentee = c.mentee
    BY <2>6 DEF S!Session
  <2> HIDE DEF d
  <2>8. QED BY <2>3, <2>4, <2>5, <2>6, <2>7 DEF S!Session
<1> HIDE DEF t
<1>5. /\ DOMAIN sessions' = DOMAIN sessions
      /\ sessions'[id] = t
      /\ \A i \in DOMAIN sessions : i # id => sessions'[i] = sessions[i]
  BY <1>1, <1>2
<1>6. /\ DOMAIN proposals' = DOMAIN proposals
      /\ proposals'[pid] = [r EXCEPT !.status = "Applied"]
      /\ \A q \in DOMAIN proposals : q # pid => proposals'[q] = proposals[q]
      /\ DOMAIN openProposal' = DOMAIN openProposal \ {id}
      /\ \A i \in DOMAIN openProposal \ {id} : openProposal'[i] = openProposal[i]
  BY <1>1 DEF S!Remove
<1>7. S!TypeOK'
  <2>1. \A i \in DOMAIN sessions' : sessions'[i] \in S!Session
    BY <1>3, <1>4, <1>5
  <2>2. [r EXCEPT !.status = "Applied"] \in S!RescheduleProposal
           /\ [r EXCEPT !.status = "Applied"].session_id = id
    <3> HIDE DEF r
    <3>1. QED BY <1>2 DEF S!RescheduleProposal, id
  <2>3. \A q \in DOMAIN proposals' :
          proposals'[q] \in S!RescheduleProposal
            /\ proposals'[q].session_id \in DOMAIN sessions'
    BY <1>2, <1>5, <1>6, <2>2 DEF SchedulingInv, S!TypeOK, S!Has
  <2>4. QED BY <1>1, <1>5, <2>1, <2>3 DEF SchedulingInv, S!TypeOK, S!Has
<1>8. S!NoDoubleBooking'
  <2>1. ASSUME NEW i \in DOMAIN sessions, i # id PROVE Apart(sessions[i], t)
    <3>1. \A p \in S!Parties(s) :
            p \in S!Parties(sessions[i]) =>
                ~S!Overlaps(sessions[i], r.new_start_utc,
                            S!SessionEnd(r.new_start_utc, r.new_duration))
      <4> HIDE DEF s, id, r
      <4>1. QED BY <1>1, <2>1 DEF S!StillFree, S!ConflictsWith, S!ParticipantSessions
    <3>2. S!Parties(t) = S!Parties(s)
      <4> HIDE DEF s
      <4>1. QED BY <1>4 DEF S!Parties
    <3> HIDE DEF s, id, r
    <3>3. QED BY <1>4, <3>1, <3>2 DEF Apart
  <2>2. ASSUME NEW i \in DOMAIN sessions', NEW j \in DOMAIN sessions', i # j
        PROVE  Apart(sessions'[i], sessions'[j])
    <3> HIDE DEF id
    <3>1. CASE i = id
      BY <1>3, <1>4, <1>5, <2>1, <2>2, <3>1, ApartSymmetric
    <3>2. CASE j = id
      BY <1>5, <2>1, <2>2, <3>2
    <3>3. CASE i # id /\ j # id
      BY <1>5, <2>2, <3>3 DEF SchedulingInv, S!NoDoubleBooking, Apart
    <3>4. QED BY <3>1, <3>2, <3>3
  <2>3. QED BY <2>2 DEF S!NoDoubleBooking, Apart
<1>9. S!OneOpenProposal'
  <2>1. ASSUME NEW q \in DOMAIN proposals', proposals'[q].status = "Proposed"
        PROVE  /\ proposals'[q].session_id \in DOMAIN openProposal'
               /\ openProposal'[proposals'[q].session_id] = q
               /\ proposals'[q].session_revision
                    = sessions'[proposals'[q].session_id].revision
    <3>1. q # pid
      <4>1. [r EXCEPT !.status = "Applied"].status = "Applied"
        <5> HIDE DEF r
        <5>1. QED BY <1>2 DEF S!RescheduleProposal
      <4>2. QED BY <1>6, <2>1, <4>1
    <3>2. q \in DOMAIN proposals /\ proposals'[q] = proposals[q]
      BY <1>6, <3>1
    <3>3. /\ proposals[q].session_id \in DOMAIN openProposal
          /\ openProposal[proposals[q].session_id] = q
          /\ proposals[q].session_revision = sessions[proposals[q].session_id].revision
          /\ proposals[q].session_id \in DOMAIN sessions
      BY <2>1, <3>2 DEF SchedulingInv, S!TypeOK, S!OneOpenProposal, S!Has
    <3>4. openProposal[id] = pid
      BY <1>1 DEF SchedulingInv, S!OneOpenProposal
    <3>5. proposals[q].session_id # id
      BY <3>1, <3>3, <3>4
    <3> HIDE DEF id
    <3>6. QED BY <1>5, <1>6, <3>2, <3>3, <3>5
  <2>2. QED BY <2>1 DEF S!OneOpenProposal, S!Has
<1>10. QED BY <1>7, <1>8, <1>9 DEF SchedulingInv

LEMMA DeclineReschedulePreserves ==
  ASSUME SchedulingInv, UNCHANGED now, NEW caller, NEW pid, S!DeclineReschedule(caller, pid)
  PROVE  SchedulingInv'
<1> DEFINE r  == proposals[pid]
           id == r.session_id
<1>1. /\ UNCHANGED <<registrar, leadTime, policy, agreements, sessions, bookings, now>>
      /\ pid \in DOMAIN proposals
      /\ r.status = "Proposed"
      /\ proposals' = [proposals EXCEPT ![pid].status = "Declined"]
      /\ openProposal' = S!Remove(openProposal, {id})
  BY DEF S!DeclineReschedule, S!settings, S!Has
<1>2. r \in S!RescheduleProposal /\ id \in DOMAIN sessions
  BY <1>1 DEF SchedulingInv, S!TypeOK, S!Has
<1>3. /\ DOMAIN proposals' = DOMAIN proposals
      /\ proposals'[pid] = [r EXCEPT !.status = "Declined"]
      /\ \A q \in DOMAIN proposals : q # pid => proposals'[q] = proposals[q]
      /\ DOMAIN openProposal' = DOMAIN openProposal \ {id}
      /\ \A i \in DOMAIN openProposal \ {id} : openProposal'[i] = openProposal[i]
  BY <1>1 DEF S!Remove
<1>4. /\ [r EXCEPT !.status = "Declined"] \in S!RescheduleProposal
      /\ [r EXCEPT !.status = "Declined"].session_id = id
      /\ [r EXCEPT !.status = "Declined"].status = "Declined"
  <2> HIDE DEF r
  <2>1. QED BY <1>2 DEF S!RescheduleProposal, id
<1>5. S!TypeOK'
  BY <1>1, <1>2, <1>3, <1>4 DEF SchedulingInv, S!TypeOK, S!Has
<1>6. S!NoDoubleBooking'
  BY <1>1 DEF SchedulingInv, S!NoDoubleBooking
<1>7. S!OneOpenProposal'
  <2>1. ASSUME NEW q \in DOMAIN proposals', proposals'[q].status = "Proposed"
        PROVE  /\ proposals'[q].session_id \in DOMAIN openProposal'
               /\ openProposal'[proposals'[q].session_id] = q
               /\ proposals'[q].session_revision
                    = sessions'[proposals'[q].session_id].revision
    <3>1. q # pid
      BY <1>3, <1>4, <2>1
    <3>2. q \in DOMAIN proposals /\ proposals'[q] = proposals[q]
      BY <1>3, <3>1
    <3>3. /\ proposals[q].session_id \in DOMAIN openProposal
          /\ openProposal[proposals[q].session_id] = q
          /\ proposals[q].session_revision = sessions[proposals[q].session_id].revision
      BY <2>1, <3>2 DEF SchedulingInv, S!OneOpenProposal, S!Has
    <3>4. openProposal[id] = pid
      BY <1>1 DEF SchedulingInv, S!OneOpenProposal
    <3>5. proposals[q].session_id # id
      BY <3>1, <3>3, <3>4
    <3> HIDE DEF id
    <3>6. QED BY <1>1, <1>3, <3>2, <3>3, <3>5
  <2>2. QED BY <2>1 DEF S!OneOpenProposal, S!Has
<1>8. QED BY <1>5, <1>6, <1>7 DEF SchedulingInv
\* A step of the contract or of its clock.
LEMMA SchedulingNext ==
  ASSUME SchedulingInv, (S!Next /\ UNCHANGED now) \/ S!AdvanceTime
  PROVE  SchedulingInv'
<1>1. CASE S!AdvanceTime
  <2>1. now' \in Nat /\ UNCHANGED <<registrar, leadTime, policy, agreements, sessions,
                                     bookings, proposals, openProposal>>
    BY <1>1 DEF S!AdvanceTime, S!schedulingVars, S!settings, SchedulingInv, S!TypeOK
  <2>2. QED BY <2>1, SettingsStep DEF SchedulingInv, S!TypeOK
<1>2. ASSUME UNCHANGED now, NEW caller, NEW new \in Registrars \cup {Admin},
             S!SetRegistrar(caller, new)
      PROVE  SchedulingInv'
  BY <1>2, SettingsStep DEF S!SetRegistrar, SchedulingInv, S!TypeOK
<1>3. ASSUME UNCHANGED now, NEW caller, NEW lead \in LeadTimes, S!SetMinLeadTime(caller, lead)
      PROVE  SchedulingInv'
  <2>1. lead \in 0..MaxLeadTime
    BY <1>3, SchedulingConstants DEF S!SetMinLeadTime
  <2>2. QED BY <1>3, <2>1, SettingsStep DEF S!SetMinLeadTime, SchedulingInv, S!TypeOK
<1>4. ASSUME UNCHANGED now, NEW caller, NEW p \in Notices \X Windows,
             S!SetReschedulePolicy(caller, p)
      PROVE  SchedulingInv'
  <2>1. p[1] \in Notices
    OBVIOUS
  <2>2. p[1] \in Nat
    BY <2>1, SchedulingConstants
  <2>3. p[1] <= MaxLeadTime /\ p[2] \in MinApprovalWindow..MaxApprovalWindow
    BY <1>4 DEF S!SetReschedulePolicy
  <2>4. p[1] \in 0..MaxLeadTime
    BY <2>2, <2>3, SchedulingConstants
  <2>5. QED BY <1>4, <2>3, <2>4, SettingsStep DEF S!SetReschedulePolicy, SchedulingInv, S!TypeOK
<1>5. ASSUME UNCHANGED now, NEW caller, NEW g, NEW m \in Mentors \X Mentees,
             S!RegisterAgreement(caller, g, m[1], m[2])
      PROVE  SchedulingInv'
  <2>1. m[1] \in Persons /\ m[2] \in Persons
    BY DEF Persons
  <2>2. QED BY <1>5, <2>1, RegisterAgreementPreserves
<1>6. CASE S!Next /\ UNCHANGED now
  BY <1>2, <1>3, <1>4, <1>5, <1>6, SchedulingConstants, SetAgreementActivePreserves,
     BookSessionPreserves, ConfirmSessionPreserves, ProposeReschedulePreserves,
     ApproveReschedulePreserves, DeclineReschedulePreserves, ZenonT(60)
     DEF S!Next
<1>7. QED BY <1>1, <1>6

-----------------------------------------------------------------------------
(* Slots *)

ScheduleTimes(s) == {s.lead, s.before, s.after, s.horizon, s.from, s.until}

\* The stored times are unsigned integers and a session of a policy is not empty.
SlotsInv ==
    /\ now \in Nat
    /\ \A p \in DOMAIN schedules : ScheduleTimes(schedules[p]) \subseteq Nat
    /\ \A program \in DOMAIN policies : policies[program].duration \in Nat \ {0}
    /\ \A id \in DOMAIN slotBookings : slotBookings[id] \in L!Booking
    /\ L!NoOverlappingSlots

LEMMA SlotsInitial ==
  L!SlotsInit /\ now = 1 => SlotsInv
BY DEF L!SlotsInit, L!Init, SlotsInv, L!NoOverlappingSlots, L!Empty

\* A schedule changes under the bookings.
LEMMA AvailabilityPreserves ==
  ASSUME SlotsInv, L!Next, UNCHANGED <<now, availability, policies, blackouts, slotBookings>>
  PROVE  SlotsInv'
<1>1. \A p \in DOMAIN schedules' : ScheduleTimes(schedules'[p]) \subseteq Nat
  <2>1. ASSUME NEW p, NEW in \in ScheduleInputs, L!SetSchedule(p, in)
        PROVE  \A q \in DOMAIN schedules' : ScheduleTimes(schedules'[q]) \subseteq Nat
    <3>1. ScheduleTimes(in) \subseteq Nat
      BY SlotsConstants DEF ScheduleTimes
    <3> DEFINE new == [offset |-> in.offset, changes |-> in.changes,
                       weekly |-> L!NormalizeWindows(in.weekly), lead |-> in.lead,
                       before |-> in.before, after |-> in.after, horizon |-> in.horizon,
                       from |-> in.from, until |-> in.until,
                       enabled |-> TRUE, version |-> L!NextVersion(p)]
    <3>2. ScheduleTimes(new) = ScheduleTimes(in)
      BY DEF ScheduleTimes
    <3>3. schedules' = L!Set(schedules, p, new)
      BY <2>1 DEF L!SetSchedule
    <3> HIDE DEF new
    <3>4. QED BY <3>1, <3>2, <3>3 DEF L!Set, SlotsInv
  <2>2. ASSUME NEW p, NEW enabled, L!SetEnabled(p, enabled)
        PROVE  \A q \in DOMAIN schedules' : ScheduleTimes(schedules'[q]) \subseteq Nat
    <3>1. ScheduleTimes([[schedules[p] EXCEPT !.enabled = enabled]
                              EXCEPT !.version = @ + 1]) = ScheduleTimes(schedules[p])
      BY DEF ScheduleTimes
    <3>2. QED BY <2>2, <3>1 DEF L!SetEnabled, L!Has, SlotsInv
  <2>3. ASSUME NEW p, NEW id, NEW in, L!AddException(p, id, in)
        PROVE  \A q \in DOMAIN schedules' : ScheduleTimes(schedules'[q]) \subseteq Nat
    BY <2>3 DEF L!AddException, SlotsInv
  <2>4. ASSUME NEW p, NEW id, L!RemoveException(p, id)
        PROVE  \A q \in DOMAIN schedules' : ScheduleTimes(schedules'[q]) \subseteq Nat
    BY <2>4 DEF L!RemoveException, SlotsInv
  <2>5. QED BY <2>1, <2>2, <2>3, <2>4 DEF L!Next
<1>2. L!NoOverlappingSlots'
  BY DEF SlotsInv, L!NoOverlappingSlots
<1>3. QED BY <1>1, <1>2 DEF SlotsInv

\* Buffers only widen a booking, so a slot without conflict is apart from every active one.
LEMMA NoConflictApart ==
  ASSUME SlotsInv, NEW p, NEW start \in Nat, NEW end \in Nat,
         p \in DOMAIN schedules, ~L!BookingsConflict(p, start, end),
         NEW id \in DOMAIN slotBookings, slotBookings[id].state = "Active",
         p \in {slotBookings[id].mentor, slotBookings[id].mentee}
  PROVE  slotBookings[id].end <= start \/ end <= slotBookings[id].start
<1>1. schedules[p].before \in Nat /\ schedules[p].after \in Nat
  BY DEF SlotsInv, ScheduleTimes
<1>2. slotBookings[id].start \in Nat /\ slotBookings[id].end \in Nat
  BY DEF SlotsInv, L!Booking
<1>3. \/ ~(slotBookings[id].start - schedules[p].before < end)
      \/ ~(slotBookings[id].end + schedules[p].after > start)
  BY DEF L!BookingsConflict, L!ActiveBookingsOf, L!BookingsOf
<1>4. QED BY <1>1, <1>2, <1>3

LEMMA BookSlotPreserves ==
  ASSUME SlotsInv, UNCHANGED <<now, schedules, exceptions>>,
         NEW id, NEW mentor \in SlotPersons, NEW mentee \in SlotPersons,
         NEW program \in Programs, NEW start \in SlotStarts,
         L!BookSlot(id, mentor, mentee, program, start)
  PROVE  SlotsInv'
<1> DEFINE end == start + policies[program].duration
           new == [mentor |-> mentor, mentee |-> mentee, program |-> program,
                   start |-> start, end |-> end, state |-> "Active"]
<1>1. /\ slotBookings' = L!Set(slotBookings, id, new) /\ id \notin DOMAIN slotBookings
      /\ program \in DOMAIN policies
      /\ UNCHANGED <<availability, policies, blackouts>>
      /\ \A p \in {mentor, mentee} : p \in DOMAIN schedules /\ ~L!BookingsConflict(p, start, end)
  BY DEF L!BookSlot, L!Has, L!ValidateSlot, L!ReadableSummary, L!ValidateParticipantSlot
<1>2. start \in Nat /\ end \in Nat
  BY <1>1, SlotsConstants DEF SlotsInv
<1> HIDE DEF end
<1>3. new \in L!Booking
  BY <1>2 DEF L!Booking
<1>4. ASSUME NEW i \in DOMAIN slotBookings, slotBookings[i].state = "Active",
             {slotBookings[i].mentor, slotBookings[i].mentee} \cap {mentor, mentee} # {}
      PROVE  slotBookings[i].end <= start \/ end <= slotBookings[i].start
  <2>1. PICK p \in {mentor, mentee} : p \in {slotBookings[i].mentor, slotBookings[i].mentee}
    BY <1>4
  <2>2. QED BY <1>1, <1>2, <1>4, <2>1, NoConflictApart
<1>5. /\ new.mentor = mentor /\ new.mentee = mentee
      /\ new.start = start /\ new.end = end
  OBVIOUS
<1> HIDE DEF new
<1>6. /\ DOMAIN slotBookings' = DOMAIN slotBookings \cup {id}
      /\ slotBookings'[id] = new
      /\ \A i \in DOMAIN slotBookings : i # id /\ slotBookings'[i] = slotBookings[i]
  BY <1>1 DEF L!Set
<1>7. L!NoOverlappingSlots'
  <2>1. ASSUME NEW i \in DOMAIN slotBookings', NEW j \in DOMAIN slotBookings', i # j,
               slotBookings'[i].state = "Active", slotBookings'[j].state = "Active",
               {slotBookings'[i].mentor, slotBookings'[i].mentee} \cap
                 {slotBookings'[j].mentor, slotBookings'[j].mentee} # {}
        PROVE  slotBookings'[i].end <= slotBookings'[j].start \/
               slotBookings'[j].end <= slotBookings'[i].start
    <3>1. CASE i = id
      BY <1>4, <1>5, <1>6, <2>1, <3>1
    <3>2. CASE j = id
      BY <1>4, <1>5, <1>6, <2>1, <3>2
    <3>3. CASE i # id /\ j # id
      BY <1>6, <2>1, <3>3 DEF SlotsInv, L!NoOverlappingSlots
    <3>4. QED BY <3>1, <3>2, <3>3
  <2>2. QED BY <2>1 DEF L!NoOverlappingSlots
<1>8. QED BY <1>1, <1>3, <1>6, <1>7 DEF SlotsInv

LEMMA CancelBookingPreserves ==
  ASSUME SlotsInv, UNCHANGED <<now, schedules, exceptions>>, NEW caller, NEW id,
         L!CancelBooking(caller, id)
  PROVE  SlotsInv'
<1> DEFINE new == [slotBookings[id] EXCEPT !.state = "Cancelled"]
<1>1. /\ id \in DOMAIN slotBookings
      /\ slotBookings' = [slotBookings EXCEPT ![id] = new]
      /\ UNCHANGED <<availability, policies, blackouts>>
  BY DEF L!CancelBooking, L!Has
<1>2. new \in L!Booking /\ new.state = "Cancelled"
  BY <1>1 DEF SlotsInv, L!Booking
<1> HIDE DEF new
<1>3. L!NoOverlappingSlots'
  BY <1>1, <1>2 DEF SlotsInv, L!NoOverlappingSlots
<1>4. QED BY <1>1, <1>2, <1>3 DEF SlotsInv

LEMMA SetProgramPolicyPreserves ==
  ASSUME SlotsInv, UNCHANGED <<now, schedules, exceptions>>, NEW caller, NEW program, NEW in,
         L!SetProgramPolicy(caller, program, in)
  PROVE  SlotsInv'
<1>1. in[1] \in Nat \ {0}
  BY SlotsConstants DEF L!SetProgramPolicy
<1>2. \A g \in DOMAIN policies' : policies'[g].duration \in Nat \ {0}
  BY <1>1 DEF L!SetProgramPolicy, L!Set, SlotsInv
<1>3. L!NoOverlappingSlots'
  BY DEF SlotsInv, L!NoOverlappingSlots, L!SetProgramPolicy
<1>4. QED BY <1>2, <1>3 DEF SlotsInv, L!SetProgramPolicy

\* A step of the slots contract, of the availability contract or of the clock.
LEMMA SlotsNext ==
  ASSUME SlotsInv,
         \/ L!Next /\ UNCHANGED <<now, availability, policies, blackouts, slotBookings>>
         \/ L!SlotsNext /\ UNCHANGED <<now, schedules, exceptions>>
         \/ Tick(MaxSlots) /\ UNCHANGED slotVars
  PROVE  SlotsInv'
<1>1. CASE L!Next /\ UNCHANGED <<now, availability, policies, blackouts, slotBookings>>
  BY <1>1, AvailabilityPreserves
<1>2. CASE Tick(MaxSlots) /\ UNCHANGED slotVars
  <2>1. now' \in Nat
    BY <1>2 DEF Tick, SlotsInv
  <2>2. L!NoOverlappingSlots'
    BY <1>2 DEF SlotsInv, slotVars, L!NoOverlappingSlots
  <2>3. QED BY <1>2, <2>1, <2>2 DEF SlotsInv, slotVars
<1>3. ASSUME UNCHANGED <<now, schedules, exceptions, policies, slotBookings>>
      PROVE  SlotsInv'
  BY <1>3 DEF SlotsInv, L!NoOverlappingSlots
<1>4. CASE L!SlotsNext /\ UNCHANGED <<now, schedules, exceptions>>
  <2>1. ASSUME NEW caller, NEW address, L!SetAvailabilityContract(caller, address)
        PROVE  SlotsInv'
    BY <1>3, <1>4, <2>1 DEF L!SetAvailabilityContract
  <2>2. ASSUME NEW caller, NEW id, NEW program, NEW range,
               L!SetBlackout(caller, id, program, range)
        PROVE  SlotsInv'
    BY <1>3, <1>4, <2>2 DEF L!SetBlackout
  <2>3. ASSUME NEW caller, NEW id, L!RemoveBlackout(caller, id)
        PROVE  SlotsInv'
    BY <1>3, <1>4, <2>3 DEF L!RemoveBlackout
  <2>4. QED BY <1>4, <2>1, <2>2, <2>3, BookSlotPreserves, CancelBookingPreserves,
               SetProgramPolicyPreserves, ZenonT(60) DEF L!SlotsNext
<1>5. QED BY <1>1, <1>2, <1>4
-----------------------------------------------------------------------------
(* The search offers only slots that can be booked *)

LEMMA GreatestIsMax ==
  ASSUME NEW T, NEW m \in T, \A y \in T : m >= y
  PROVE  L!Max(T) \in T /\ \A y \in T : L!Max(T) >= y
BY DEF L!Max

LEMMA LeastIsMin ==
  ASSUME NEW T, NEW m \in T, \A y \in T : m <= y
  PROVE  L!Min(T) \in T /\ \A y \in T : L!Min(T) <= y
BY DEF L!Min

LEMMA MaxOfThree ==
  ASSUME NEW a \in Int, NEW b \in Int, NEW c \in Int
  PROVE  LET m == L!Max({a, b, c}) IN m \in {a, b, c} /\ m >= a /\ m >= b /\ m >= c
<1>1. \E m \in {a, b, c} : \A y \in {a, b, c} : m >= y
  <2>1. CASE a >= b /\ a >= c BY <2>1
  <2>2. CASE b >= a /\ b >= c BY <2>2
  <2>3. CASE c >= a /\ c >= b BY <2>3
  <2>4. QED BY <2>1, <2>2, <2>3
<1>2. QED BY <1>1, GreatestIsMax

LEMMA MinOfThree ==
  ASSUME NEW a \in Int, NEW b \in Int, NEW c \in Int
  PROVE  LET m == L!Min({a, b, c}) IN m \in {a, b, c} /\ m <= a /\ m <= b /\ m <= c
<1>1. \E m \in {a, b, c} : \A y \in {a, b, c} : m <= y
  <2>1. CASE a <= b /\ a <= c BY <2>1
  <2>2. CASE b <= a /\ b <= c BY <2>2
  <2>3. CASE c <= a /\ c <= b BY <2>3
  <2>4. QED BY <2>1, <2>2, <2>3
<1>2. QED BY <1>1, LeastIsMin

LEMMA MaxOfTwo ==
  ASSUME NEW a \in Int, NEW b \in Int
  PROVE  LET m == L!Max({a, b}) IN m \in Int /\ m \in {a, b} /\ m >= a /\ m >= b
<1>1. {a, b} = {a, b, b}
  OBVIOUS
<1>2. QED BY <1>1, MaxOfThree

LEMMA MinOfTwo ==
  ASSUME NEW a \in Int, NEW b \in Int
  PROVE  LET m == L!Min({a, b}) IN m \in Int /\ m \in {a, b} /\ m <= a /\ m <= b
<1>1. {a, b} = {a, b, b}
  OBVIOUS
<1>2. QED BY <1>1, MinOfThree

\* The day of an instant lies between the days of an earlier and a later one.
LEMMA DayBetween ==
  ASSUME NEW n \in Nat \ {0}, NEW day \in Int, NEW x \in Int, NEW c \in Int, NEW d \in Int,
         day * n <= x, x < (day + 1) * n, c <= x, x <= d
  PROVE  c \div n <= day /\ day <= d \div n
<1> DEFINE q == c \div n
           e == d \div n
<1>1. q \in Int /\ q * n <= c /\ e \in Int /\ d < (e + 1) * n
  OBVIOUS
<1> HIDE DEF q, e
<1>2. q <= day
  <2>1. SUFFICES ASSUME q >= day + 1 PROVE FALSE
    BY <1>1
  <2>2. q * n >= (day + 1) * n
    BY <1>1, <2>1
  <2>3. QED BY <1>1, <2>2
<1>3. day <= e
  <2>1. SUFFICES ASSUME day >= e + 1 PROVE FALSE
    BY <1>1
  <2>2. day * n >= (e + 1) * n
    BY <1>1, <2>1
  <2>3. QED BY <1>1, <2>2
<1>4. QED BY <1>2, <1>3 DEF q, e

LEMMA BookableWindow ==
  ASSUME SlotsInv, NEW p \in DOMAIN schedules, NEW from \in Int, NEW until \in Int
  PROVE  LET s     == schedules[p]
             far   == now + s.horizon * DayLength
             first == L!BookableFrom(p, from)
             last  == L!BookableUntil(p, until)
         IN  /\ first \in Int /\ first \in {from, s.from, now + s.lead}
             /\ first >= from /\ first >= s.from /\ first >= now + s.lead
             /\ last \in Int /\ last \in {until, far, s.until}
             /\ last <= until /\ last <= far
             /\ IF s.until = 0 THEN last \in {until, far} ELSE last <= s.until
<1> DEFINE s     == schedules[p]
           far   == now + s.horizon * DayLength
           near  == now + s.lead
           first == L!BookableFrom(p, from)
           last  == L!BookableUntil(p, until)
<1>1. s.from \in Int /\ near \in Int /\ s.until \in Int /\ far \in Int
  <2>1. s.horizon \in Nat /\ s.from \in Nat /\ s.lead \in Nat /\ s.until \in Nat
           /\ now \in Nat
    BY DEF SlotsInv, ScheduleTimes
  <2> HIDE DEF s
  <2>2. QED BY <2>1, SlotsConstants
<1>2. first = L!Max({from, s.from, near})
  BY DEF L!BookableFrom
<1>3. s.until = 0 => last = L!Min({until, far})
  <2>1. ASSUME s.until = 0
        PROVE  {until, far} \cup (IF s.until # 0 THEN {s.until} ELSE {}) = {until, far}
    <3> HIDE DEF s, far
    <3>1. QED BY <2>1
  <2>2. QED BY <2>1 DEF L!BookableUntil
<1>4. s.until # 0 => last = L!Min({until, far, s.until})
  <2>1. ASSUME s.until # 0
        PROVE  {until, far} \cup (IF s.until # 0 THEN {s.until} ELSE {})
                 = {until, far, s.until}
    <3> HIDE DEF s, far
    <3>1. QED BY <2>1
  <2>2. QED BY <2>1 DEF L!BookableUntil
<1> HIDE DEF s, far, near, first, last
<1>5. /\ first \in Int /\ first \in {from, s.from, near}
      /\ first >= from /\ first >= s.from /\ first >= near
  BY <1>1, <1>2, MaxOfThree
<1>6. CASE s.until = 0
  <2>1. last \in {until, far} /\ last <= until /\ last <= far
    BY <1>1, <1>3, <1>6, MinOfTwo
  <2>2. QED BY <1>1, <1>5, <1>6, <2>1 DEF s, far, near, first, last
<1>7. CASE s.until # 0
  <2>1. last \in {until, far, s.until} /\ last <= until /\ last <= far /\ last <= s.until
    <3>1. last = L!Min({until, far, s.until})
      BY <1>4, <1>7
    <3> DEFINE u == s.until
    <3>2. u \in Int /\ far \in Int
      BY <1>1
    <3> HIDE DEF u
    <3>3. L!Min({until, far, u}) \in {until, far, u}
             /\ L!Min({until, far, u}) <= until /\ L!Min({until, far, u}) <= far
             /\ L!Min({until, far, u}) <= u
      BY <3>2, MinOfThree
    <3>4. QED BY <3>1, <3>3 DEF u
  <2>2. QED BY <1>1, <1>5, <1>7, <2>1 DEF s, far, near, first, last
<1>8. QED BY <1>6, <1>7

\* Whether an instant is free does not depend on the window that is asked about.
Free(p, x) ==
    /\ x \notin L!ExceptionInstants(p, "Unavailable")
    /\ \/ x \in L!ExceptionInstants(p, "Available")
       \/ \E day \in Int : x \in L!WeeklyInstants(schedules[p], day)

LEMMA ComputedIsFree ==
  ASSUME NEW p, NEW start \in Int, NEW end \in Int, NEW x
  PROVE  x \in L!ComputeRanges(p, start, end) <=> x \in start..(end - 1) /\ Free(p, x)
<1>1. ASSUME x \in L!ComputeRanges(p, start, end)
      PROVE  x \in start..(end - 1) /\ Free(p, x)
  <2>1. x \in start..(end - 1) /\ x \notin L!ExceptionInstants(p, "Unavailable")
    BY <1>1 DEF L!ComputeRanges, L!Instants
  <2>2. ASSUME x \notin L!ExceptionInstants(p, "Available")
        PROVE  \E day \in Int : x \in L!WeeklyInstants(schedules[p], day)
    <3>1. PICK day \in (start \div DayLength)..((end - 1) \div DayLength) :
                 x \in L!WeeklyInstants(schedules[p], day)
      BY <1>1, <2>2 DEF L!ComputeRanges
    <3>2. day \in Int
      BY <3>1, SlotsConstants
    <3>3. QED BY <3>1, <3>2
  <2>3. QED BY <2>1, <2>2 DEF Free
<1>2. ASSUME x \in start..(end - 1), Free(p, x)
      PROVE  x \in L!ComputeRanges(p, start, end)
  <2>1. CASE x \in L!ExceptionInstants(p, "Available")
    BY <1>2, <2>1 DEF L!ComputeRanges, L!Instants, Free
  <2>2. CASE \E day \in Int : x \in L!WeeklyInstants(schedules[p], day)
    <3>1. PICK day \in Int : x \in L!WeeklyInstants(schedules[p], day)
      BY <2>2
    <3>2. x \in (day * DayLength)..((day + 1) * DayLength - 1)
      BY <3>1 DEF L!WeeklyInstants, L!Instants
    <3>3. day * DayLength \in Int /\ (day + 1) * DayLength \in Int
      BY SlotsConstants
    <3>4. x \in Int /\ day * DayLength <= x /\ x < (day + 1) * DayLength
             /\ start <= x /\ x <= end - 1
      BY <1>2, <3>2, <3>3
    <3>5. start \div DayLength <= day /\ day <= (end - 1) \div DayLength
      BY <3>4, DayBetween, SlotsConstants
    <3>6. start \div DayLength \in Int /\ (end - 1) \div DayLength \in Int
      BY SlotsConstants
    <3>7. day \in (start \div DayLength)..((end - 1) \div DayLength)
      BY <3>5, <3>6
    <3>8. QED BY <1>2, <3>1, <3>7 DEF L!ComputeRanges, L!Instants, Free
  <2>3. QED BY <1>2, <2>1, <2>2 DEF Free
<1>3. QED BY <1>1, <1>2
LEMMA AvailableInstant ==
  ASSUME SlotsInv, NEW p \in DOMAIN schedules, NEW from \in Int, NEW until \in Int, NEW x
  PROVE  x \in L!AvailableRanges(p, from, until) <=>
             /\ schedules[p].enabled
             /\ x \in L!BookableFrom(p, from)..(L!BookableUntil(p, until) - 1)
             /\ Free(p, x)
<1> DEFINE first == L!BookableFrom(p, from)
           last  == L!BookableUntil(p, until)
<1>1. first \in Int /\ last \in Int
  BY BookableWindow
<1>2. L!AvailableRanges(p, from, until)
        = IF schedules[p].enabled /\ first < last THEN L!ComputeRanges(p, first, last) ELSE {}
  BY DEF L!AvailableRanges
<1> HIDE DEF first, last
<1>3. x \in L!ComputeRanges(p, first, last) <=> x \in first..(last - 1) /\ Free(p, x)
  BY <1>1, ComputedIsFree
<1>4. x \in first..(last - 1) => first < last
  BY <1>1
<1>5. QED BY <1>2, <1>3, <1>4 DEF first, last

\* An interval that is available in a wider window is available when asked for alone.
LEMMA AvailableAlone ==
  ASSUME SlotsInv, NEW p \in DOMAIN schedules,
         NEW from \in Int, NEW until \in Int, NEW c \in Int, NEW e \in Int, c < e,
         L!Instants(c, e) \subseteq L!AvailableRanges(p, from, until)
  PROVE  /\ schedules[p].enabled
         /\ L!Instants(c, e) \subseteq L!AvailableRanges(p, c, e)
         /\ from <= c /\ e <= until
<1> DEFINE s    == schedules[p]
           near == now + s.lead
           far  == now + s.horizon * DayLength
           open == L!BookableFrom(p, from)
           shut == L!BookableUntil(p, until)
           first == L!BookableFrom(p, c)
           last  == L!BookableUntil(p, e)
<1>1. c \in L!AvailableRanges(p, from, until) /\ e - 1 \in L!AvailableRanges(p, from, until)
  BY DEF L!Instants
<1>2. s.enabled /\ c \in open..(shut - 1) /\ e - 1 \in open..(shut - 1)
  BY <1>1, AvailableInstant
<1>3. /\ open \in Int /\ open >= from /\ open >= s.from /\ open >= near
      /\ shut \in Int /\ shut <= until /\ shut <= far /\ (s.until # 0 => shut <= s.until)
  BY BookableWindow
<1>4. /\ first \in Int /\ first \in {c, s.from, near} /\ first >= c
      /\ last \in Int /\ last \in {e, far, s.until} /\ last <= e
      /\ (s.until = 0 => last \in {e, far})
  BY BookableWindow
<1>5. s.from \in Int /\ near \in Int /\ s.until \in Int /\ far \in Int
  <2>1. s.horizon \in Nat /\ s.from \in Nat /\ s.lead \in Nat /\ s.until \in Nat
           /\ now \in Nat
    BY DEF SlotsInv, ScheduleTimes
  <2> HIDE DEF s
  <2>2. QED BY <2>1, SlotsConstants
<1> HIDE DEF s, near, far, open, shut, first, last
<1>6. first = c
  <2>1. c >= s.from /\ c >= near
    BY <1>2, <1>3, <1>5
  <2>2. QED BY <1>4, <1>5, <2>1
<1>7. last = e
  <2>1. e <= far /\ (s.until # 0 => e <= s.until)
    BY <1>2, <1>3, <1>5
  <2>2. QED BY <1>4, <1>5, <2>1
<1>8. from <= c /\ e <= until
  BY <1>2, <1>3
<1>9. ASSUME NEW x \in L!Instants(c, e) PROVE x \in L!AvailableRanges(p, c, e)
  <2>1. Free(p, x)
    BY AvailableInstant
  <2>2. x \in first..(last - 1)
    BY <1>6, <1>7 DEF L!Instants
  <2>3. QED BY <1>2, <2>1, <2>2, AvailableInstant DEF s, first, last
<1>10. QED BY <1>2, <1>8, <1>9 DEF s

LEMMA SearchOffersBookable ==
  ASSUME SlotsInv
  PROVE  L!OffersAreBookable
<1> SUFFICES ASSUME NEW mentor \in SlotPersons, NEW mentee \in SlotPersons,
                    NEW program \in DOMAIN policies, mentor # mentee,
                    L!ReadableSummary(mentor), L!ReadableSummary(mentee),
                    NEW c \in L!FindSlots(mentor, mentee, program, now, SearchEnd)
             PROVE  L!ValidateSlot(mentor, mentee, program, c)
  BY DEF L!OffersAreBookable
<1> DEFINE duration == policies[program].duration
           lead  == now + L!LeadTime(mentor, mentee)
           reach == now + L!Horizon(mentor, mentee)
           start == L!Max({now, lead})
           end   == L!Min({SearchEnd, reach})
           shared == L!AvailableRanges(mentor, start, end)
                       \cap L!AvailableRanges(mentee, start, end)
<1>1. mentor \in DOMAIN schedules /\ mentee \in DOMAIN schedules
  BY DEF L!ReadableSummary, L!Has
<1>2. duration \in Nat \ {0} /\ now \in Nat
  BY DEF SlotsInv
<1>3. lead \in Int /\ reach \in Int
  <2>1. /\ schedules[mentor].lead \in Nat /\ schedules[mentee].lead \in Nat
        /\ schedules[mentor].horizon \in Nat /\ schedules[mentee].horizon \in Nat
    BY <1>1 DEF SlotsInv, ScheduleTimes
  <2> DEFINE m == schedules[mentor]
             e == schedules[mentee]
  <2>2. L!LeadTime(mentor, mentee) \in Int
    <3>1. m.lead \in Int /\ e.lead \in Int
      BY <2>1
    <3>2. L!Max({m.lead, e.lead}) \in Int
      <4> HIDE DEF m, e
      <4>1. QED BY <3>1, MaxOfTwo
    <3>3. QED BY <3>2 DEF L!LeadTime
  <2>3. L!Min({m.horizon, e.horizon}) \in Int
    <3>1. m.horizon \in Int /\ e.horizon \in Int
      BY <2>1
    <3> HIDE DEF m, e
    <3>2. QED BY <3>1, MinOfTwo
  <2>4. L!Horizon(mentor, mentee) \in Int
    BY <2>3, SlotsConstants DEF L!Horizon
  <2>5. QED BY <1>2, <2>2, <2>4
<1>4. /\ c \in start..end
      /\ L!Instants(c, c + duration) \subseteq shared
      /\ ~L!BlackoutOverlaps(program, c, c + duration)
      /\ \A p \in {mentor, mentee} :
           /\ ~L!BookingsConflict(p, c, c + duration)
           /\ L!SessionsOnDay(p, c) < policies[program].perDay
  BY DEF L!FindSlots
<1> HIDE DEF duration, lead, reach, start, end
<1>5. start \in Int /\ start >= lead /\ end \in Int /\ end <= reach
  <2>1. start \in {now, lead} /\ start >= lead
    BY <1>2, <1>3, MaxOfTwo DEF start
  <2>2. end \in {SearchEnd, reach} /\ end <= reach
    <3>1. SearchEnd \in Int
      BY SlotsConstants
    <3>2. QED BY <1>3, <3>1, MinOfTwo DEF end
  <2>3. QED BY <1>2, <1>3, <2>1, <2>2, SlotsConstants
<1>6. c \in Int /\ c + duration \in Int /\ c < c + duration
  BY <1>2, <1>4, <1>5
<1>7. ASSUME NEW p \in {mentor, mentee}
      PROVE  /\ schedules[p].enabled
             /\ L!Instants(c, c + duration) \subseteq L!AvailableRanges(p, c, c + duration)
             /\ start <= c /\ c + duration <= end
  <2>1. L!Instants(c, c + duration) \subseteq L!AvailableRanges(p, start, end)
    BY <1>4
  <2>2. QED BY <1>1, <1>5, <1>6, <2>1, AvailableAlone
<1>8. c >= lead /\ c + duration <= reach
  BY <1>3, <1>5, <1>6, <1>7
<1>9. \A p \in {mentor, mentee} : L!ValidateParticipantSlot(p, program, c, c + duration)
  BY <1>4, <1>7 DEF L!ValidateParticipantSlot
<1>10. QED BY <1>8, <1>9 DEF L!ValidateSlot, duration, lead, reach

-----------------------------------------------------------------------------
(* Cohorts *)

LEMMA SameCardinality ==
  ASSUME NEW T
  PROVE  C!Cardinality(T) = Cardinality(T) /\ P!Cardinality(T) = Cardinality(T)
BY Zenon DEF Cardinality, C!Cardinality, P!Cardinality

Enrolled(store, id) == {e \in DOMAIN store : e[1] = id /\ store[e] = "Active"}

\* Somebody can only be enrolled in a cohort that exists.
CohortsInv ==
    /\ C!TypeOK
    /\ \A e \in DOMAIN enrollments : e[1] \in DOMAIN cohorts
    /\ \A id \in DOMAIN cohorts :
         /\ IsFiniteSet(Enrolled(enrollments, id))
         /\ cohorts[id].active_count = Cardinality(Enrolled(enrollments, id))
         /\ cohorts[id].active_count <= cohorts[id].capacity

LEMMA CohortsExact ==
  ASSUME CohortsInv PROVE C!SeatsExact
<1>1. \A id \in DOMAIN cohorts :
        /\ cohorts[id].active_count = Cardinality(Enrolled(enrollments, id))
        /\ cohorts[id].active_count <= cohorts[id].capacity
  BY DEF CohortsInv
<1>2. QED BY <1>1, SameCardinality, Zenon DEF C!SeatsExact, Enrolled

LEMMA CohortsInitial == C!Init => CohortsInv
BY DEF C!Init, C!Empty, CohortsInv, C!TypeOK

LEMMA CreateCohortPreserves ==
  ASSUME CohortsInv, NEW caller, NEW id, NEW dates \in CohortDates,
         NEW capacity \in CohortCapacities, NEW coordinators \in SUBSET Coordinators,
         C!CreateCohort(caller, id, dates, capacity, coordinators)
  PROVE  CohortsInv'
<1> DEFINE new == [opens |-> dates[1], closes |-> dates[2], capacity |-> capacity,
                   active_count |-> 0, coordinators |-> coordinators]
<1>1. /\ cohorts' = C!Set(cohorts, id, new) /\ id \notin DOMAIN cohorts
      /\ enrollments' = enrollments
  BY DEF C!CreateCohort, C!Has
<1>2. new.active_count = 0 /\ new.active_count <= new.capacity /\ new \in C!CohortConfig
  BY PlacesConstants DEF C!CohortConfig
<1> HIDE DEF new
<1>3. Enrolled(enrollments, id) = {}
  BY <1>1 DEF CohortsInv, Enrolled
<1>4. C!TypeOK'
  BY <1>1, <1>2 DEF CohortsInv, C!TypeOK, C!Set
<1>5. /\ DOMAIN cohorts' = DOMAIN cohorts \cup {id} /\ cohorts'[id] = new
      /\ \A i \in DOMAIN cohorts : cohorts'[i] = cohorts[i]
  BY <1>1 DEF C!Set
<1>6. IsFiniteSet(Enrolled(enrollments, id)) /\ Cardinality(Enrolled(enrollments, id)) = 0
  BY <1>3, FS_EmptySet
<1>7. QED BY <1>1, <1>2, <1>4, <1>5, <1>6 DEF CohortsInv

LEMMA UpdateCohortPreserves ==
  ASSUME CohortsInv, NEW caller, NEW id, NEW dates \in CohortDates,
         NEW capacity \in CohortCapacities, NEW coordinators \in SUBSET Coordinators,
         C!UpdateCohort(caller, id, dates, capacity, coordinators)
  PROVE  CohortsInv'
<1> DEFINE new == [opens |-> dates[1], closes |-> dates[2], capacity |-> capacity,
                   active_count |-> cohorts[id].active_count, coordinators |-> coordinators]
<1>1. /\ cohorts' = [cohorts EXCEPT ![id] = new] /\ id \in DOMAIN cohorts
      /\ enrollments' = enrollments
      /\ capacity >= cohorts[id].active_count
  BY DEF C!UpdateCohort, C!Has
<1>2. cohorts[id].active_count \in Nat
  BY <1>1 DEF CohortsInv, C!TypeOK, C!CohortConfig
<1>3. /\ new.active_count = cohorts[id].active_count
      /\ new.active_count <= new.capacity
      /\ new \in C!CohortConfig
  BY <1>1, <1>2, PlacesConstants DEF C!CohortConfig
<1> HIDE DEF new
<1>4. C!TypeOK'
  BY <1>1, <1>3 DEF CohortsInv, C!TypeOK
<1>5. QED BY <1>1, <1>3, <1>4 DEF CohortsInv

\* A change of one cohort's count follows the change of its enrolments.
LEMMA CountStep ==
  ASSUME CohortsInv, NEW id \in DOMAIN cohorts, NEW count \in Nat,
         cohorts' = [cohorts EXCEPT ![id].active_count = count],
         count <= cohorts[id].capacity,
         IsFiniteSet(Enrolled(enrollments', id)),
         count = Cardinality(Enrolled(enrollments', id)),
         \A e \in DOMAIN enrollments' :
             e[1] \in DOMAIN cohorts /\ enrollments'[e] \in C!EnrollmentStatus,
         \A i \in DOMAIN cohorts : i # id => Enrolled(enrollments', i) = Enrolled(enrollments, i)
  PROVE  CohortsInv'
<1> DEFINE new == [cohorts[id] EXCEPT !.active_count = count]
<1>1. cohorts' = [cohorts EXCEPT ![id] = new]
  OBVIOUS
<1>2. cohorts[id] \in C!CohortConfig
  BY DEF CohortsInv, C!TypeOK
<1>3. new \in C!CohortConfig /\ new.active_count = count /\ new.capacity = cohorts[id].capacity
  BY <1>2 DEF C!CohortConfig
<1> HIDE DEF new
<1>4. C!TypeOK'
  BY <1>1, <1>3 DEF CohortsInv, C!TypeOK
<1>5. ASSUME NEW i \in DOMAIN cohorts
      PROVE  /\ IsFiniteSet(Enrolled(enrollments', i))
             /\ cohorts'[i].active_count = Cardinality(Enrolled(enrollments', i))
             /\ cohorts'[i].active_count <= cohorts'[i].capacity
  <2>1. CASE i = id
    BY <1>1, <1>3, <2>1
  <2>2. CASE i # id
    <3>1. cohorts'[i] = cohorts[i] /\ Enrolled(enrollments', i) = Enrolled(enrollments, i)
      BY <1>1, <2>2
    <3>2. QED BY <3>1 DEF CohortsInv
  <2>3. QED BY <2>1, <2>2
<1>6. DOMAIN cohorts' = DOMAIN cohorts
  BY <1>1
<1>7. QED BY <1>4, <1>5, <1>6 DEF CohortsInv

LEMMA EnrollPreserves ==
  ASSUME CohortsInv, NEW caller, NEW id, NEW p, C!Enroll(caller, id, p)
  PROVE  CohortsInv'
<1> DEFINE e == <<id, p>>
           n == cohorts[id].active_count
<1>1. /\ id \in DOMAIN cohorts /\ e \notin DOMAIN enrollments
      /\ n < cohorts[id].capacity
      /\ enrollments' = C!Set(enrollments, e, "Active")
      /\ cohorts' = [cohorts EXCEPT ![id].active_count = n + 1]
  BY DEF C!Enroll, C!RequireCoordinator, C!Has
<1>2. n \in Nat /\ cohorts[id].capacity \in Nat
  BY <1>1 DEF CohortsInv, C!TypeOK, C!CohortConfig
<1>3. e[1] = id
  OBVIOUS
<1> HIDE DEF e, n
<1>4. /\ DOMAIN enrollments' = DOMAIN enrollments \cup {e}
      /\ enrollments'[e] = "Active"
      /\ \A x \in DOMAIN enrollments : x # e /\ enrollments'[x] = enrollments[x]
  BY <1>1 DEF C!Set
<1>5. Enrolled(enrollments', id) = Enrolled(enrollments, id) \cup {e}
  BY <1>3, <1>4 DEF Enrolled
<1>6. \A i \in DOMAIN cohorts : i # id => Enrolled(enrollments', i) = Enrolled(enrollments, i)
  BY <1>3, <1>4 DEF Enrolled
<1>7. e \notin Enrolled(enrollments, id)
  BY <1>1 DEF Enrolled
<1>8. /\ IsFiniteSet(Enrolled(enrollments', id))
      /\ Cardinality(Enrolled(enrollments', id)) = n + 1
  BY <1>1, <1>5, <1>7, FS_AddElement DEF CohortsInv, n
<1>9. \A x \in DOMAIN enrollments' :
        x[1] \in DOMAIN cohorts /\ enrollments'[x] \in C!EnrollmentStatus
  BY <1>1, <1>3, <1>4 DEF CohortsInv, C!TypeOK, C!EnrollmentStatus
<1>10. n + 1 \in Nat /\ n + 1 <= cohorts[id].capacity
  BY <1>1, <1>2
<1>11. QED BY <1>1, <1>6, <1>8, <1>9, <1>10, CountStep

LEMMA WithdrawPreserves ==
  ASSUME CohortsInv, NEW caller, NEW id, NEW p, C!Withdraw(caller, id, p)
  PROVE  CohortsInv'
<1> DEFINE e == <<id, p>>
           n == cohorts[id].active_count
<1>1. /\ id \in DOMAIN cohorts /\ e \in DOMAIN enrollments
      /\ enrollments[e] # "Withdrawn"
      /\ enrollments' = [enrollments EXCEPT ![e] = "Withdrawn"]
      /\ cohorts' = [cohorts EXCEPT ![id].active_count = n - 1]
  BY DEF C!Withdraw, C!RequireCoordinator, C!Has
<1>2. n \in Nat /\ cohorts[id].capacity \in Nat /\ n <= cohorts[id].capacity
  BY <1>1 DEF CohortsInv, C!TypeOK, C!CohortConfig
<1>3. e[1] = id
  OBVIOUS
<1> HIDE DEF e, n
<1>4. Enrolled(enrollments', id) = Enrolled(enrollments, id) \ {e}
  BY <1>1, <1>3 DEF Enrolled
<1>5. \A i \in DOMAIN cohorts : i # id => Enrolled(enrollments', i) = Enrolled(enrollments, i)
  BY <1>1, <1>3 DEF Enrolled
<1>6. e \in Enrolled(enrollments, id)
  BY <1>1, <1>3 DEF Enrolled, CohortsInv, C!TypeOK, C!EnrollmentStatus
<1>7. /\ IsFiniteSet(Enrolled(enrollments', id))
      /\ Cardinality(Enrolled(enrollments', id)) = n - 1
  BY <1>1, <1>4, <1>6, FS_RemoveElement DEF CohortsInv, n
<1>8. n - 1 \in Nat /\ n - 1 <= cohorts[id].capacity
  <2>1. Cardinality(Enrolled(enrollments', id)) \in Nat
    BY <1>7, FS_CardinalityType
  <2>2. QED BY <1>2, <1>7, <2>1
<1>9. \A x \in DOMAIN enrollments' :
        x[1] \in DOMAIN cohorts /\ enrollments'[x] \in C!EnrollmentStatus
  BY <1>1 DEF CohortsInv, C!TypeOK, C!EnrollmentStatus
<1>10. QED BY <1>1, <1>5, <1>7, <1>8, <1>9, CountStep

LEMMA CohortsNext == ASSUME CohortsInv, C!Next PROVE CohortsInv'
BY CreateCohortPreserves, UpdateCohortPreserves, EnrollPreserves, WithdrawPreserves, ZenonT(60)
   DEF C!Next

LEMMA CohortsStutter == ASSUME CohortsInv, UNCHANGED cohortVars PROVE CohortsInv'
<1>1. C!TypeOK'
  BY DEF CohortsInv, cohortVars, C!TypeOK
<1>2. QED BY <1>1 DEF CohortsInv, cohortVars

-----------------------------------------------------------------------------
(* Program seats *)

Seated(st, program, state) ==
    {who \in Applicants : <<program, who>> \in DOMAIN st /\ st[<<program, who>>].state = state}

\* The counters of a program's record are its offered and confirmed seats.
CountsOK(program, r, st) ==
    /\ r \in P!ProgramCapacity
    /\ IsFiniteSet(Seated(st, program, "Offered"))
    /\ r.reserved = Cardinality(Seated(st, program, "Offered"))
    /\ IsFiniteSet(Seated(st, program, "Confirmed"))
    /\ r.confirmed = Cardinality(Seated(st, program, "Confirmed"))
    /\ r.reserved + r.confirmed <= r.capacity

\* The queue holds exactly who is waitlisted, each once.
QueueOK(program, q, st) ==
    /\ q \in Seq(Applicants)
    /\ IsFiniteSet(Seated(st, program, "Waitlisted"))
    /\ Len(q) = Cardinality(Seated(st, program, "Waitlisted"))
    /\ \A i \in 1..Len(q) : q[i] \in Seated(st, program, "Waitlisted")
    /\ \A who \in Seated(st, program, "Waitlisted") : \E i \in 1..Len(q) : q[i] = who
    /\ \A i, j \in 1..Len(q) : q[i] = q[j] => i = j

StoreOK(st) == \A k \in DOMAIN st : st[k] \in P!SeatRecord

\* Between st and st2, who came to the given state in the program; nobody else moved.
Moved(st, st2, program, who, state) ==
    /\ Seated(st2, program, state) = Seated(st, program, state) \cup {who}
    /\ \A x : x # state => Seated(st2, program, x) = Seated(st, program, x) \ {who}
    /\ \A other, x : other # program => Seated(st2, other, x) = Seated(st, other, x)

\* Between st and st2, who left the program.
Dropped(st, st2, program, who) ==
    /\ \A x : Seated(st2, program, x) = Seated(st, program, x) \ {who}
    /\ \A other, x : other # program => Seated(st2, other, x) = Seated(st, other, x)

\* One key of the store was written.
Written(st, st2, k, v) ==
    /\ DOMAIN st2 = DOMAIN st \cup {k} /\ st2[k] = v
    /\ \A y \in DOMAIN st : y # k => st2[y] = st[y]

LEMMA MoveSeat ==
  ASSUME NEW st, NEW program, NEW who \in Applicants, NEW v, NEW st2,
         Written(st, st2, <<program, who>>, v)
  PROVE  Moved(st, st2, program, who, v.state)
<1> DEFINE k == <<program, who>>
<1>1. /\ DOMAIN st2 = DOMAIN st \cup {k} /\ st2[k] = v
      /\ \A y \in DOMAIN st : y # k => st2[y] = st[y]
  BY DEF Written
<1>2. \A w \in Applicants : <<program, w>> = k <=> w = who
  OBVIOUS
<1>3. \A w, other : other # program => <<other, w>> # k
  OBVIOUS
<1> HIDE DEF k
<1>4. ASSUME NEW x
      PROVE  Seated(st2, program, x) = IF v.state = x THEN Seated(st, program, x) \cup {who}
                                                      ELSE Seated(st, program, x) \ {who}
  <2>1. ASSUME NEW w \in Applicants, w # who
        PROVE  w \in Seated(st2, program, x) <=> w \in Seated(st, program, x)
    BY <1>1, <1>2, <2>1 DEF Seated
  <2>2. who \in Seated(st2, program, x) <=> v.state = x
    BY <1>1 DEF Seated, k
  <2>3. Seated(st2, program, x) \subseteq Applicants /\ Seated(st, program, x) \subseteq Applicants
    BY DEF Seated
  <2>4. QED BY <2>1, <2>2, <2>3
<1>5. ASSUME NEW other, NEW x, other # program
      PROVE  Seated(st2, other, x) = Seated(st, other, x)
  BY <1>1, <1>3, <1>5 DEF Seated
<1>6. QED BY <1>4, <1>5 DEF Moved

LEMMA DropSeat ==
  ASSUME NEW st, NEW program, NEW who \in Applicants, NEW st2,
         st2 = P!Remove(st, {<<program, who>>})
  PROVE  Dropped(st, st2, program, who)
<1> DEFINE k == <<program, who>>
<1>1. DOMAIN st2 = DOMAIN st \ {k} /\ \A y \in DOMAIN st2 : st2[y] = st[y]
  BY DEF P!Remove
<1>2. \A w \in Applicants : <<program, w>> = k <=> w = who
  OBVIOUS
<1>3. \A w, other : other # program => <<other, w>> # k
  OBVIOUS
<1> HIDE DEF k
<1>4. ASSUME NEW x PROVE Seated(st2, program, x) = Seated(st, program, x) \ {who}
  BY <1>1, <1>2 DEF Seated
<1>5. ASSUME NEW other, NEW x, other # program
      PROVE  Seated(st2, other, x) = Seated(st, other, x)
  BY <1>1, <1>3, <1>5 DEF Seated
<1>6. QED BY <1>4, <1>5 DEF Dropped

\* A seat is in one state.
LEMMA OneState ==
  ASSUME NEW st, NEW program, NEW x, NEW y, x # y
  PROVE  Seated(st, program, x) \cap Seated(st, program, y) = {}
BY DEF Seated

LEMMA TailOfQueue ==
  ASSUME NEW q \in Seq(Applicants), q # <<>>
  PROVE  /\ Len(q) \in Nat \ {0} /\ Tail(q) \in Seq(Applicants)
         /\ Len(Tail(q)) = Len(q) - 1 /\ Head(q) = q[1] /\ Head(q) \in Applicants
         /\ \A i \in 1..Len(Tail(q)) : Tail(q)[i] = q[i + 1]
BY HeadTailProperties

\* t is what n promotions make of the record, the queue and the seats of s.
Promoted(program, s, t, n) ==
    /\ CountsOK(program, t[1], t[3])
    /\ QueueOK(program, t[2], t[3])
    /\ StoreOK(t[3])
    /\ t[1].reserved = s[1].reserved + n
    /\ t[1].confirmed = s[1].confirmed /\ t[1].capacity = s[1].capacity
    /\ n <= Len(s[2]) /\ Len(t[2]) = Len(s[2]) - n
    /\ \A i \in 1..Len(t[2]) : t[2][i] = s[2][i + n]
    /\ DOMAIN t[3] = DOMAIN s[3]
    /\ \A other, x : other # program => Seated(t[3], other, x) = Seated(s[3], other, x)
    /\ Seated(t[3], program, "Offered")
         = Seated(s[3], program, "Offered") \cup {s[2][i] : i \in 1..n}

LEMMA PromotedNone ==
  ASSUME NEW program, NEW s, CountsOK(program, s[1], s[3]), QueueOK(program, s[2], s[3]),
         StoreOK(s[3])
  PROVE  Promoted(program, s, s, 0)
<1>1. s[1].reserved \in Nat /\ Len(s[2]) \in Nat
  BY DEF CountsOK, P!ProgramCapacity, QueueOK
<1>2. {s[2][i] : i \in 1..0} = {}
  OBVIOUS
<1>3. \A i \in 1..Len(s[2]) : i + 0 = i
  BY <1>1
<1>4. QED BY <1>1, <1>2, <1>3 DEF Promoted

\* One promotion: record, queue and seats before and after.
Advanced(program, r, q, st, r2, q2, st2) ==
    /\ CountsOK(program, r2, st2) /\ QueueOK(program, q2, st2) /\ StoreOK(st2)
    /\ r2.reserved = r.reserved + 1 /\ r2.confirmed = r.confirmed
    /\ r2.capacity = r.capacity
    /\ DOMAIN st2 = DOMAIN st
    /\ \A other, x : other # program => Seated(st2, other, x) = Seated(st, other, x)
    /\ Seated(st2, program, "Offered") = Seated(st, program, "Offered") \cup {q[1]}

\* The first in line moves from the queue to the offers.
LEMMA PromoteHead ==
  ASSUME NEW program, NEW r, NEW q, NEW st, now \in Nat,
         CountsOK(program, r, st), QueueOK(program, q, st), StoreOK(st),
         P!Committed(r) < r.capacity, q # <<>>
  PROVE  Advanced(program, r, q, st, [r EXCEPT !.reserved = @ + 1], Tail(q),
                  P!Set(st, <<program, Head(q)>>, P!Offer(r)))
<1> DEFINE who == Head(q)
           k   == <<program, who>>
           r2  == [r EXCEPT !.reserved = @ + 1]
           st2 == P!Set(st, k, P!Offer(r))
           O == Seated(st, program, "Offered")
           F == Seated(st, program, "Confirmed")
           W == Seated(st, program, "Waitlisted")
<1>1. /\ q \in Seq(Applicants) /\ Len(q) \in Nat \ {0} /\ Tail(q) \in Seq(Applicants)
      /\ Len(Tail(q)) = Len(q) - 1 /\ who = q[1] /\ who \in Applicants
      /\ \A i \in 1..Len(Tail(q)) : Tail(q)[i] = q[i + 1]
  BY TailOfQueue DEF QueueOK
<1>2. who \in W /\ who \notin O /\ who \notin F
  <2>1. who \in W
    BY <1>1 DEF QueueOK
  <2>2. QED BY <2>1, OneState
<1>3. r \in P!ProgramCapacity /\ r.ttl \in Nat
  BY DEF CountsOK, P!ProgramCapacity
<1>4. P!Offer(r) \in P!SeatRecord /\ P!Offer(r).state = "Offered"
  BY <1>3 DEF P!Offer, P!SeatRecord
<1>5. k \in DOMAIN st
  BY <1>2 DEF Seated
<1>6. DOMAIN st2 = DOMAIN st /\ StoreOK(st2)
  BY <1>4, <1>5 DEF P!Set, StoreOK
<1>7. /\ Seated(st2, program, "Offered") = O \cup {who}
      /\ Seated(st2, program, "Confirmed") = F
      /\ Seated(st2, program, "Waitlisted") = W \ {who}
      /\ \A other, x : other # program => Seated(st2, other, x) = Seated(st, other, x)
  <2>0. Written(st, st2, k, P!Offer(r))
    BY DEF P!Set, Written
  <2>1. Moved(st, st2, program, who, P!Offer(r).state)
    BY <1>1, <2>0, MoveSeat, Zenon
  <2>2. Moved(st, st2, program, who, "Offered")
    BY <1>4, <2>1, Zenon
  <2> HIDE DEF st2, who, O, F, W
  <2>3. F \ {who} = F
    BY <1>2
  <2>4. QED BY <2>2, <2>3 DEF Moved, O, F, W
<1>8. r2 \in P!ProgramCapacity /\ r2.reserved = r.reserved + 1 /\ r2.confirmed = r.confirmed
         /\ r2.capacity = r.capacity
  BY <1>3 DEF P!ProgramCapacity
<1>9. r.reserved \in Nat /\ r.confirmed \in Nat /\ r.capacity \in Nat
         /\ r.reserved + r.confirmed < r.capacity
  BY <1>3 DEF P!ProgramCapacity, P!Committed
<1> HIDE DEF r2, st2, who, k
<1>10. CountsOK(program, r2, st2)
  <2>1. IsFiniteSet(O) /\ IsFiniteSet(F) /\ r.reserved = Cardinality(O)
           /\ r.confirmed = Cardinality(F)
    BY DEF CountsOK
  <2>2. IsFiniteSet(O \cup {who}) /\ Cardinality(O \cup {who}) = r.reserved + 1
    <3> HIDE DEF O
    <3>1. QED BY <1>2, <2>1, FS_AddElement
  <2>3. r2.reserved + r2.confirmed <= r2.capacity
    BY <1>8, <1>9
  <2>4. QED BY <1>7, <1>8, <2>1, <2>2, <2>3 DEF CountsOK
<1>11. QueueOK(program, Tail(q), st2)
  <2>1. IsFiniteSet(W) /\ Len(q) = Cardinality(W)
    BY DEF QueueOK
  <2>2. IsFiniteSet(W \ {who}) /\ Cardinality(W \ {who}) = Len(q) - 1
    <3> HIDE DEF W
    <3>1. QED BY <1>2, <2>1, FS_RemoveElement
  <2>3. \A i \in 1..Len(q) : q[i] \in W
    BY DEF QueueOK
  <2>4. \A i, j \in 1..Len(q) : q[i] = q[j] => i = j
    BY DEF QueueOK
  <2>5. \A w \in W : \E i \in 1..Len(q) : q[i] = w
    BY DEF QueueOK
  <2> HIDE DEF W
  <2>6. \A i \in 1..Len(Tail(q)) :
          i + 1 \in 1..Len(q) /\ i + 1 # 1 /\ Tail(q)[i] = q[i + 1]
    BY <1>1
  <2>7. 1 \in 1..Len(q)
    BY <1>1
  <2>8. \A i \in 1..Len(Tail(q)) : Tail(q)[i] \in W \ {who}
    BY <1>1, <2>3, <2>4, <2>6, <2>7
  <2>9. ASSUME NEW w \in W \ {who} PROVE \E i \in 1..Len(Tail(q)) : Tail(q)[i] = w
    <3>1. PICK i \in 1..Len(q) : q[i] = w
      BY <2>5
    <3>2. i # 1
      BY <1>1, <2>9, <3>1
    <3>3. i - 1 \in 1..Len(Tail(q)) /\ (i - 1) + 1 = i
      BY <1>1, <3>1, <3>2
    <3>4. QED BY <1>1, <3>1, <3>3
  <2>10. ASSUME NEW i \in 1..Len(Tail(q)), NEW j \in 1..Len(Tail(q)), Tail(q)[i] = Tail(q)[j]
         PROVE  i = j
    <3>1. i + 1 = j + 1
      BY <2>4, <2>6, <2>10
    <3>2. i \in Int /\ j \in Int
      OBVIOUS
    <3>3. QED BY ONLY <3>1, <3>2
  <2>11. QED BY <1>1, <1>7, <2>2, <2>8, <2>9, <2>10 DEF QueueOK, W
<1>12. Advanced(program, r, q, st, r2, Tail(q), st2)
  BY <1>1, <1>6, <1>7, <1>8, <1>10, <1>11 DEF Advanced
<1>13. QED BY <1>12 DEF r2, st2, who, k

LEMMA PromotedOnce ==
  ASSUME now \in Nat, NEW program, NEW s, NEW t, NEW k \in Nat,
         s[1] \in P!ProgramCapacity, s[2] \in Seq(Applicants),
         Promoted(program, s, t, k), P!CanPromote(t)
  PROVE  Promoted(program, s, P!PromoteNextInternal(program, t), k + 1)
<1> DEFINE r  == t[1]
           q  == t[2]
           st == t[3]
           r2 == [r EXCEPT !.reserved = @ + 1]
           q2 == Tail(q)
           st2 == P!Set(st, <<program, Head(q)>>, P!Offer(r))
           u  == P!PromoteNextInternal(program, t)
<1>1. u[1] = r2 /\ u[2] = q2 /\ u[3] = st2
  BY DEF P!PromoteNextInternal
<1>2. CountsOK(program, r, st) /\ QueueOK(program, q, st) /\ StoreOK(st)
  BY DEF Promoted
<1>3. P!Committed(r) < r.capacity /\ q # <<>>
  BY DEF P!CanPromote
<1>4. Advanced(program, r, q, st, r2, q2, st2)
  <2> HIDE DEF r, q, st
  <2>1. QED BY <1>2, <1>3, PromoteHead, Zenon DEF r2, q2, st2
<1>5. /\ Len(q) \in Nat \ {0} /\ Len(q2) = Len(q) - 1
      /\ \A i \in 1..Len(q2) : q2[i] = q[i + 1]
  BY <1>2, <1>3, TailOfQueue DEF QueueOK
<1>6. /\ r.reserved = s[1].reserved + k
      /\ r.confirmed = s[1].confirmed /\ r.capacity = s[1].capacity
      /\ k <= Len(s[2]) /\ Len(q) = Len(s[2]) - k
      /\ \A i \in 1..Len(q) : q[i] = s[2][i + k]
      /\ DOMAIN st = DOMAIN s[3]
      /\ \A other, x : other # program => Seated(st, other, x) = Seated(s[3], other, x)
      /\ Seated(st, program, "Offered")
           = Seated(s[3], program, "Offered") \cup {s[2][i] : i \in 1..k}
  BY DEF Promoted
<1>7. s[1].reserved \in Nat /\ Len(s[2]) \in Nat
  BY DEF P!ProgramCapacity
<1> HIDE DEF r, q, st, r2, q2, st2, u
<1>8. r2.reserved = s[1].reserved + (k + 1)
  <2> DEFINE a == s[1].reserved
             b == r.reserved
  <2>1. r2.reserved = b + 1 /\ b = a + k /\ a \in Nat
    BY <1>4, <1>6, <1>7 DEF Advanced
  <2> HIDE DEF a, b
  <2>2. r2.reserved = a + (k + 1)
    BY ONLY <2>1, k \in Nat
  <2>3. QED BY <2>2 DEF a
<1>9. k + 1 <= Len(s[2]) /\ Len(q2) = Len(s[2]) - (k + 1)
  BY <1>5, <1>6, <1>7
<1>10. ASSUME NEW i \in 1..Len(q2) PROVE q2[i] = s[2][i + (k + 1)]
  <2>1. i + 1 \in 1..Len(q) /\ (i + 1) + k = i + (k + 1)
    BY <1>5
  <2>2. QED BY <1>5, <1>6, <2>1
<1>11. Seated(st2, program, "Offered")
         = Seated(s[3], program, "Offered") \cup {s[2][i] : i \in 1..(k + 1)}
  <2>1. 1 \in 1..Len(q) /\ 1 + k = k + 1
    BY <1>5
  <2>2. q[1] = s[2][k + 1]
    BY <1>6, <2>1
  <2>3. 1..(k + 1) = (1..k) \cup {k + 1}
    OBVIOUS
  <2>4. {s[2][i] : i \in 1..(k + 1)} = {s[2][i] : i \in 1..k} \cup {s[2][k + 1]}
    BY <2>3
  <2>5. QED BY <1>4, <1>6, <2>2, <2>4 DEF Advanced
<1>12. QED BY <1>1, <1>4, <1>6, <1>8, <1>9, <1>10, <1>11 DEF Promoted, Advanced, u

\* f holds the states of the promotions of PromoteAll up to n.
IsChain(program, s, f, n) ==
    f = [k \in 0..n |-> IF k = 0 THEN s ELSE P!PromoteNextInternal(program, f[k - 1])]

LEMMA ChainExists ==
  ASSUME NEW program, NEW s, NEW n \in Nat
  PROVE  \E f : IsChain(program, s, f, n)
<1> DEFINE S0 == {m \in Nat : \E f : IsChain(program, s, f, m)}
<1>1. 0 \in S0
  <2>1. IsChain(program, s, [k \in 0..0 |-> s], 0)
    BY DEF IsChain
  <2>2. QED BY <2>1
<1>2. ASSUME NEW m \in Nat, m \in S0 PROVE m + 1 \in S0
  <2>1. PICK f : IsChain(program, s, f, m) BY <1>2
  <2> DEFINE g == [k \in 0..(m + 1) |->
                     IF k <= m THEN f[k] ELSE P!PromoteNextInternal(program, f[m])]
  <2>2. \A k \in 0..(m + 1) :
          g[k] = IF k = 0 THEN s ELSE P!PromoteNextInternal(program, g[k - 1])
    <3>1. TAKE k \in 0..(m + 1)
    <3>2. CASE k <= m
      BY <2>1, <3>2 DEF IsChain
    <3>3. CASE k = m + 1
      BY <2>1, <3>3 DEF IsChain
    <3>4. QED BY <3>2, <3>3
  <2>3. IsChain(program, s, g, m + 1)
    BY <2>2 DEF IsChain
  <2>4. QED BY <2>3
<1>3. Nat \subseteq S0
  <2> HIDE DEF S0
  <2>1. QED BY <1>1, <1>2, NatSetInduction
<1>4. QED BY <1>3

\* configure_program's loop promotes as many as there are free seats and people waiting.
LEMMA PromotedAll ==
  ASSUME now \in Nat, NEW program, NEW s,
         CountsOK(program, s[1], s[3]), QueueOK(program, s[2], s[3]), StoreOK(s[3])
  PROVE  \E n \in Nat : Promoted(program, s, P!PromoteAll(program, s), n)
<1> DEFINE free == s[1].capacity - P!Committed(s[1])
           n    == IF Len(s[2]) < free THEN Len(s[2]) ELSE free
           f    == CHOOSE g : g = [k \in 0..n |->
                      IF k = 0 THEN s ELSE P!PromoteNextInternal(program, g[k - 1])]
<1>1. P!PromoteAll(program, s) = f[n]
  BY DEF P!PromoteAll
<1>2. /\ s[1] \in P!ProgramCapacity /\ s[2] \in Seq(Applicants)
      /\ s[1].capacity \in Nat /\ s[1].reserved \in Nat /\ s[1].confirmed \in Nat
      /\ s[1].reserved + s[1].confirmed <= s[1].capacity /\ Len(s[2]) \in Nat
  BY DEF CountsOK, QueueOK, P!ProgramCapacity
<1>3. free = s[1].capacity - (s[1].reserved + s[1].confirmed)
  BY DEF P!Committed
<1>4. n \in Nat /\ n <= Len(s[2]) /\ n <= free /\ free \in Nat
  <2> DEFINE len == Len(s[2])
             c == s[1].capacity
             a == s[1].reserved + s[1].confirmed
  <2>1. free = c - a /\ c \in Nat /\ a \in Nat /\ a <= c /\ len \in Nat
    BY <1>2, <1>3
  <2>2. n = IF len < free THEN len ELSE free
    OBVIOUS
  <2> HIDE DEF free, len, c, a, n
  <2>3. n \in Nat /\ n <= len /\ n <= free /\ free \in Nat
    BY ONLY <2>1, <2>2
  <2>4. QED BY <2>3 DEF len
<1> HIDE DEF n, free
<1>5. IsChain(program, s, f, n)
  <2>1. \E g : g = [k \in 0..n |->
                      IF k = 0 THEN s ELSE P!PromoteNextInternal(program, g[k - 1])]
    <3>1. PICK g : IsChain(program, s, g, n)
      BY <1>4, ChainExists
    <3>2. QED BY <3>1, Zenon DEF IsChain
  <2>2. f = [k \in 0..n |-> IF k = 0 THEN s ELSE P!PromoteNextInternal(program, f[k - 1])]
    BY <2>1
  <2>3. QED BY <2>2 DEF IsChain
<1> HIDE DEF f
<1> DEFINE S0 == {k \in Nat : k <= n => Promoted(program, s, f[k], k)}
<1>6. 0 \in S0
  <2>1. f[0] = s
    BY <1>4, <1>5 DEF IsChain
  <2>2. QED BY <2>1, PromotedNone
<1>7. ASSUME NEW k \in Nat, k \in S0 PROVE k + 1 \in S0
  <2>1. SUFFICES ASSUME k + 1 <= n PROVE Promoted(program, s, f[k + 1], k + 1)
    OBVIOUS
  <2>2. k <= n /\ k < n
    BY <1>4, <2>1
  <2>3. Promoted(program, s, f[k], k)
    BY <1>7, <2>2
  <2>4. f[k + 1] = P!PromoteNextInternal(program, f[k])
    <3>1. k + 1 \in 0..n /\ k + 1 # 0 /\ (k + 1) - 1 = k
      BY <1>4, <2>1
    <3>2. QED BY <1>5, <3>1 DEF IsChain
  <2>5. P!CanPromote(f[k])
    <3>1. /\ f[k][1].reserved = s[1].reserved + k /\ f[k][1].confirmed = s[1].confirmed
          /\ f[k][1].capacity = s[1].capacity /\ Len(f[k][2]) = Len(s[2]) - k
      BY <2>3 DEF Promoted
    <3>2. P!Committed(f[k][1]) < f[k][1].capacity
      <4>1. P!Committed(f[k][1]) = (s[1].reserved + k) + s[1].confirmed
        BY <3>1 DEF P!Committed
      <4> DEFINE a == s[1].reserved
                 b == s[1].confirmed
                 c == s[1].capacity
      <4>2. free = c - (a + b) /\ a \in Nat /\ b \in Nat /\ c \in Nat
        BY <1>2, <1>3
      <4>3. n <= free /\ k < n /\ n \in Nat
        BY <1>4, <2>2
      <4> HIDE DEF a, b, c
      <4>4. (a + k) + b < c
        BY ONLY <4>2, <4>3, k \in Nat
      <4>5. QED BY <3>1, <4>1, <4>4 DEF a, b, c
    <3>3. Len(f[k][2]) # 0
      BY <1>2, <1>4, <2>2, <3>1
    <3>4. f[k][2] # <<>>
      BY <3>3
    <3>5. QED BY <3>2, <3>4 DEF P!CanPromote
  <2>6. QED BY <1>2, <2>3, <2>4, <2>5, PromotedOnce
<1>8. n \in S0
  <2> HIDE DEF S0
  <2>1. QED BY <1>4, <1>6, <1>7, NatSetInduction
<1>9. QED BY <1>1, <1>4, <1>8

\* A program that was not created has no seats and nobody waiting.
SeatsInv ==
    /\ now \in Nat
    /\ DOMAIN waitlists = SeatPrograms /\ DOMAIN seatPrograms \subseteq SeatPrograms
    /\ StoreOK(seats)
    /\ \A k \in DOMAIN seats : k[1] \in DOMAIN seatPrograms
    /\ \A program \in DOMAIN seatPrograms :
         /\ CountsOK(program, seatPrograms[program], seats)
         /\ QueueOK(program, waitlists[program], seats)
    /\ \A program \in SeatPrograms \ DOMAIN seatPrograms : waitlists[program] = <<>>

\* What FirstComeFirstServed asks of a step, for one program.
Turn(program) ==
    LET queue == waitlists[program]
        newly == {who \in Applicants : ~P!IsIn(who, program, "Offered")
                                         /\ P!IsIn(who, program, "Offered")'}
        freed == P!Committed(seatPrograms'[program]) < P!Committed(seatPrograms[program])
    IN  /\ queue # <<>> => newly \subseteq P!Range(queue)
        /\ \A i, j \in 1..Len(queue) : i < j /\ queue[j] \in newly => queue[i] \in newly
        /\ freed /\ seatPrograms[program].automatic => waitlists'[program] = <<>>

LEMMA SeatsInitial == P!Init /\ now = 1 => SeatsInv
<1>1. SUFFICES ASSUME P!Init, now = 1 PROVE SeatsInv
  OBVIOUS
<1>2. /\ seatPrograms = [k \in {} |-> {}] /\ seats = [k \in {} |-> {}]
      /\ waitlists = [p \in SeatPrograms |-> <<>>]
  BY <1>1 DEF P!Init, P!Empty
<1>3. QED BY <1>1, <1>2 DEF SeatsInv, StoreOK

LEMMA SeatsStateExact == ASSUME SeatsInv PROVE P!SeatCountersExact
<1>1. ASSUME NEW program \in DOMAIN seatPrograms, NEW state
      PROVE  {who \in Applicants : P!IsIn(who, program, state)} = Seated(seats, program, state)
  BY DEF P!IsIn, P!Has, Seated
<1>2. ASSUME NEW program \in DOMAIN seatPrograms
      PROVE  LET in(state) == Seated(seats, program, state)
                 queue     == waitlists[program]
             IN  /\ seatPrograms[program].reserved = P!Cardinality(in("Offered"))
                 /\ seatPrograms[program].confirmed = P!Cardinality(in("Confirmed"))
                 /\ P!Committed(seatPrograms[program]) <= seatPrograms[program].capacity
                 /\ P!Range(queue) = in("Waitlisted")
                 /\ Len(queue) = P!Cardinality(in("Waitlisted"))
  <2>1. /\ CountsOK(program, seatPrograms[program], seats)
        /\ QueueOK(program, waitlists[program], seats)
    BY DEF SeatsInv
  <2>2. P!Committed(seatPrograms[program]) <= seatPrograms[program].capacity
    BY <2>1 DEF CountsOK, P!Committed
  <2>3. P!Range(waitlists[program]) = Seated(seats, program, "Waitlisted")
    <3> DEFINE q == waitlists[program]
               W == Seated(seats, program, "Waitlisted")
    <3>1. /\ q \in Seq(Applicants) /\ \A i \in 1..Len(q) : q[i] \in W
          /\ \A who \in W : \E i \in 1..Len(q) : q[i] = who
      BY <2>1 DEF QueueOK
    <3> HIDE DEF q, W
    <3>2. DOMAIN q = 1..Len(q)
      BY <3>1
    <3>3. P!Range(q) = W
      BY <3>1, <3>2 DEF P!Range
    <3>4. QED BY <3>3 DEF q, W
  <2>4. QED BY <2>1, <2>2, <2>3, SameCardinality, Zenon DEF CountsOK, QueueOK
<1>3. QED BY <1>1, <1>2, Zenon DEF P!SeatCountersExact

LEMMA NewlyOffered ==
  ASSUME NEW program
  PROVE  {who \in Applicants : ~P!IsIn(who, program, "Offered")
                                 /\ P!IsIn(who, program, "Offered")'}
           = Seated(seats', program, "Offered") \ Seated(seats, program, "Offered")
BY DEF P!IsIn, P!Has, Seated

\* A step that offers no seat of the program and frees none, or leaves nobody waiting.
LEMMA TurnIdle ==
  ASSUME NEW program,
         Seated(seats', program, "Offered") \subseteq Seated(seats, program, "Offered"),
         P!Committed(seatPrograms'[program]) < P!Committed(seatPrograms[program])
             /\ seatPrograms[program].automatic => waitlists'[program] = <<>>
  PROVE  Turn(program)
<1> DEFINE newly == {who \in Applicants : ~P!IsIn(who, program, "Offered")
                                            /\ P!IsIn(who, program, "Offered")'}
<1>1. newly = {}
  BY NewlyOffered
<1> HIDE DEF newly
<1>2. /\ waitlists[program] # <<>> => newly \subseteq P!Range(waitlists[program])
      /\ \A i, j \in 1..Len(waitlists[program]) :
           i < j /\ waitlists[program][j] \in newly => waitlists[program][i] \in newly
  BY <1>1
<1>3. QED BY <1>2, Zenon DEF Turn, newly

\* A step that offers seats to the first n in line.
LEMMA TurnPromoted ==
  ASSUME SeatsInv, NEW program \in DOMAIN seatPrograms, NEW n \in Nat, NEW O,
         n <= Len(waitlists[program]),
         O \subseteq Seated(seats, program, "Offered"),
         Seated(seats', program, "Offered") = O \cup {waitlists[program][i] : i \in 1..n},
         P!Committed(seatPrograms'[program]) < P!Committed(seatPrograms[program])
             /\ seatPrograms[program].automatic => waitlists'[program] = <<>>
  PROVE  Turn(program)
<1> DEFINE q == waitlists[program]
           newly == {who \in Applicants : ~P!IsIn(who, program, "Offered")
                                            /\ P!IsIn(who, program, "Offered")'}
           W == Seated(seats, program, "Waitlisted")
<1>1. QueueOK(program, q, seats)
  BY DEF SeatsInv
<1>2. /\ q \in Seq(Applicants) /\ Len(q) \in Nat /\ DOMAIN q = 1..Len(q)
      /\ \A i \in 1..Len(q) : q[i] \in W
      /\ \A i, j \in 1..Len(q) : q[i] = q[j] => i = j
  BY <1>1 DEF QueueOK
<1>3. W \cap Seated(seats, program, "Offered") = {}
  BY OneState
<1>4. n <= Len(q) /\ Seated(seats', program, "Offered") = O \cup {q[i] : i \in 1..n}
  OBVIOUS
<1> HIDE DEF q, W
<1>5. \A i \in 1..n : i \in 1..Len(q)
  BY <1>2, <1>4
<1>6. newly = {q[i] : i \in 1..n}
  <2>1. newly = Seated(seats', program, "Offered") \ Seated(seats, program, "Offered")
    BY NewlyOffered, Zenon
  <2> HIDE DEF newly
  <2>2. QED BY <1>2, <1>3, <1>4, <1>5, <2>1
<1> HIDE DEF newly
<1>7. newly \subseteq P!Range(q)
  BY <1>2, <1>5, <1>6 DEF P!Range
<1>8. ASSUME NEW i \in 1..Len(q), NEW j \in 1..Len(q), i < j, q[j] \in newly
      PROVE  q[i] \in newly
  <2>1. PICK m \in 1..n : q[m] = q[j]
    BY <1>6, <1>8
  <2>2. m = j
    BY <1>2, <1>5, <2>1
  <2>3. i \in 1..n
    BY <1>2, <1>8, <2>2
  <2>4. QED BY <1>6, <2>3
<1>9. QED BY <1>7, <1>8 DEF Turn, newly, q

\* A step on one program's record, queue and seats.
LEMMA ProgramStep ==
  ASSUME SeatsInv, now' = now, NEW program \in SeatPrograms, NEW r, NEW q,
         Written(seatPrograms, seatPrograms', program, r),
         Written(waitlists, waitlists', program, q),
         StoreOK(seats'), \A k \in DOMAIN seats' : k[1] \in DOMAIN seatPrograms \cup {program},
         CountsOK(program, r, seats'), QueueOK(program, q, seats'),
         \A other, x : other # program => Seated(seats', other, x) = Seated(seats, other, x)
  PROVE  /\ SeatsInv'
         /\ \A other \in DOMAIN seatPrograms : other # program => Turn(other)
<1>1. /\ DOMAIN seatPrograms' = DOMAIN seatPrograms \cup {program}
      /\ seatPrograms'[program] = r
      /\ \A p \in DOMAIN seatPrograms : p # program => seatPrograms'[p] = seatPrograms[p]
  BY DEF Written
<1>2. /\ DOMAIN waitlists' = SeatPrograms /\ waitlists'[program] = q
      /\ \A p \in SeatPrograms : p # program => waitlists'[p] = waitlists[p]
  BY DEF SeatsInv, Written
<1>3. ASSUME NEW p \in DOMAIN seatPrograms'
      PROVE  /\ CountsOK(p, seatPrograms'[p], seats')
             /\ QueueOK(p, waitlists'[p], seats')
  <2>1. CASE p = program
    BY <1>1, <1>2, <2>1
  <2>2. CASE p # program
    <3>1. p \in DOMAIN seatPrograms /\ p \in SeatPrograms
      BY <1>1, <2>2 DEF SeatsInv
    <3>2. /\ CountsOK(p, seatPrograms[p], seats) /\ QueueOK(p, waitlists[p], seats)
          /\ seatPrograms'[p] = seatPrograms[p] /\ waitlists'[p] = waitlists[p]
      BY <1>1, <1>2, <2>2, <3>1 DEF SeatsInv
    <3>3. \A x : Seated(seats', p, x) = Seated(seats, p, x)
      BY <2>2
    <3>4. CountsOK(p, seatPrograms'[p], seats')
      BY <3>2, <3>3 DEF CountsOK
    <3>5. QueueOK(p, waitlists'[p], seats')
      BY <3>2, <3>3 DEF QueueOK
    <3>6. QED BY <3>4, <3>5
  <2>3. QED BY <2>1, <2>2
<1>4. SeatsInv'
  <2>1. now' \in Nat /\ DOMAIN seatPrograms' \subseteq SeatPrograms
    BY <1>1 DEF SeatsInv
  <2>2. \A p \in SeatPrograms \ DOMAIN seatPrograms' : waitlists'[p] = <<>>
    BY <1>1, <1>2 DEF SeatsInv
  <2>3. \A k \in DOMAIN seats' : k[1] \in DOMAIN seatPrograms'
    BY <1>1
  <2>4. QED BY <1>2, <1>3, <2>1, <2>2, <2>3 DEF SeatsInv
<1>5. ASSUME NEW other \in DOMAIN seatPrograms, other # program PROVE Turn(other)
  <2>1. seatPrograms'[other] = seatPrograms[other]
    BY <1>1, <1>5
  <2>2. P!Committed(seatPrograms[other]) \in Nat
    BY DEF SeatsInv, CountsOK, P!ProgramCapacity, P!Committed
  <2>3. ~(P!Committed(seatPrograms'[other]) < P!Committed(seatPrograms[other]))
    BY <2>1, <2>2
  <2>4. Seated(seats', other, "Offered") \subseteq Seated(seats, other, "Offered")
    BY <1>5
  <2>5. QED BY <2>3, <2>4, TurnIdle
<1>6. QED BY <1>4, <1>5

SeatsStepOK == SeatsInv' /\ \A program \in DOMAIN seatPrograms : Turn(program)

\* s, a state of the program, gave no seat away and left the queue alone.
NoneGiven(program, s) ==
    /\ s[2] = waitlists[program] /\ DOMAIN s[3] \subseteq DOMAIN seats
    /\ \A other, x : other # program => Seated(s[3], other, x) = Seated(seats, other, x)
    /\ Seated(s[3], program, "Offered") \subseteq Seated(seats, program, "Offered")

\* A call that writes what promotions made of such a state.
LEMMA WriteStep ==
  ASSUME SeatsInv, now' = now, NEW program \in DOMAIN seatPrograms, NEW s, NEW t, NEW n \in Nat,
         NoneGiven(program, s), Promoted(program, s, t, n), P!Write(program, t),
         P!Committed(t[1]) < P!Committed(seatPrograms[program])
             /\ seatPrograms[program].automatic => t[2] = <<>>
  PROVE  SeatsStepOK
<1>0. /\ s[2] = waitlists[program] /\ DOMAIN s[3] \subseteq DOMAIN seats
      /\ \A other, x : other # program => Seated(s[3], other, x) = Seated(seats, other, x)
      /\ Seated(s[3], program, "Offered") \subseteq Seated(seats, program, "Offered")
  BY DEF NoneGiven
<1>1. /\ Written(seatPrograms, seatPrograms', program, t[1])
      /\ Written(waitlists, waitlists', program, t[2]) /\ seats' = t[3]
  BY DEF P!Write, P!Set, Written, SeatsInv
<1>2. program \in SeatPrograms
  BY DEF SeatsInv
<1>3. /\ CountsOK(program, t[1], t[3]) /\ QueueOK(program, t[2], t[3]) /\ StoreOK(t[3])
      /\ n <= Len(s[2]) /\ DOMAIN t[3] = DOMAIN s[3]
      /\ \A other, x : other # program => Seated(t[3], other, x) = Seated(s[3], other, x)
      /\ Seated(t[3], program, "Offered")
           = Seated(s[3], program, "Offered") \cup {s[2][i] : i \in 1..n}
  BY DEF Promoted
<1>4. /\ SeatsInv'
      /\ \A other \in DOMAIN seatPrograms : other # program => Turn(other)
  <2>1. \A k \in DOMAIN seats' : k[1] \in DOMAIN seatPrograms \cup {program}
    BY <1>0, <1>1, <1>3 DEF SeatsInv
  <2>2. \A other, x : other # program => Seated(seats', other, x) = Seated(seats, other, x)
    BY <1>0, <1>1, <1>3
  <2>3. CountsOK(program, t[1], seats') /\ QueueOK(program, t[2], seats') /\ StoreOK(seats')
    BY <1>0, <1>1, <1>3
  <2>4. QED BY <1>1, <1>2, <2>1, <2>2, <2>3, ProgramStep
<1>5. Turn(program)
  <2>1. waitlists'[program] = t[2] /\ seatPrograms'[program] = t[1]
    BY <1>1 DEF Written
  <2>2. n <= Len(waitlists[program])
           /\ Seated(seats', program, "Offered")
                = Seated(s[3], program, "Offered") \cup {waitlists[program][i] : i \in 1..n}
    BY <1>0, <1>1, <1>3
  <2>3. QED BY <1>0, <2>1, <2>2, TurnPromoted
<1>6. QED BY <1>4, <1>5 DEF SeatsStepOK

LEMMA CreateProgramPreserves ==
  ASSUME SeatsInv, now' = now, NEW organizer \in Organizers, NEW program \in SeatPrograms,
         NEW capacity \in SeatCapacities, NEW ttl \in OfferTtls, NEW automatic \in BOOLEAN,
         P!CreateProgram(organizer, program, capacity, ttl, automatic)
  PROVE  SeatsStepOK
<1> DEFINE r == [organizer |-> organizer, capacity |-> capacity, reserved |-> 0,
                 confirmed |-> 0, ttl |-> ttl, automatic |-> automatic]
<1>1. /\ Written(seatPrograms, seatPrograms', program, r) /\ program \notin DOMAIN seatPrograms
      /\ waitlists' = waitlists /\ seats' = seats
  BY DEF P!CreateProgram, P!Has, P!Set, Written
<1>2. /\ r \in P!ProgramCapacity /\ r.reserved = 0 /\ r.confirmed = 0
      /\ r.reserved + r.confirmed <= r.capacity
  BY PlacesConstants DEF P!ProgramCapacity
<1> HIDE DEF r
<1>3. \A x : Seated(seats, program, x) = {}
  BY <1>1 DEF SeatsInv, Seated
<1>4. CountsOK(program, r, seats')
  BY <1>1, <1>2, <1>3, FS_EmptySet DEF CountsOK
<1>5. Written(waitlists, waitlists', program, <<>>)
  BY <1>1 DEF SeatsInv, Written
<1>6. QueueOK(program, <<>>, seats')
  BY <1>1, <1>3, FS_EmptySet DEF QueueOK
<1>7. /\ StoreOK(seats') /\ \A k \in DOMAIN seats' : k[1] \in DOMAIN seatPrograms \cup {program}
      /\ \A other, x : other # program => Seated(seats', other, x) = Seated(seats, other, x)
  BY <1>1 DEF SeatsInv
<1>8. QED BY <1>1, <1>4, <1>5, <1>6, <1>7, ProgramStep DEF SeatsStepOK

\* A stored program's record, queue and seats, as promotion works on them.
LEMMA StoredProgram ==
  ASSUME SeatsInv, NEW program \in DOMAIN seatPrograms
  PROVE  /\ program \in SeatPrograms /\ StoreOK(seats) /\ now \in Nat
         /\ CountsOK(program, seatPrograms[program], seats)
         /\ QueueOK(program, waitlists[program], seats)
BY DEF SeatsInv

LEMMA ConfigureProgramPreserves ==
  ASSUME SeatsInv, now' = now, NEW organizer \in Organizers, NEW program \in SeatPrograms,
         NEW capacity \in SeatCapacities, NEW ttl \in OfferTtls, NEW automatic \in BOOLEAN,
         P!ConfigureProgram(organizer, program, capacity, ttl, automatic)
  PROVE  SeatsStepOK
<1> DEFINE old == seatPrograms[program]
           p == [old EXCEPT !.capacity = capacity, !.ttl = ttl, !.automatic = automatic]
           s == <<p, waitlists[program], seats>>
           t == IF automatic THEN P!PromoteAll(program, s) ELSE s
<1>1. program \in DOMAIN seatPrograms /\ capacity >= P!Committed(old) /\ P!Write(program, t)
  BY DEF P!ConfigureProgram, P!RequireOrganizer, P!Has
<1>2. /\ CountsOK(program, old, seats) /\ QueueOK(program, waitlists[program], seats)
      /\ StoreOK(seats) /\ now \in Nat
  BY <1>1, StoredProgram
<1>3. old \in P!ProgramCapacity
  BY <1>2 DEF CountsOK
<1>4. capacity \in Nat /\ ttl \in Nat
  BY PlacesConstants
<1>5. /\ p \in P!ProgramCapacity /\ p.reserved = old.reserved /\ p.confirmed = old.confirmed
      /\ p.capacity = capacity
  <2> DEFINE p1 == [old EXCEPT !.capacity = capacity]
             p2 == [p1 EXCEPT !.ttl = ttl]
             p3 == [p2 EXCEPT !.automatic = automatic]
  <2>1. p = p3
    BY <1>3 DEF P!ProgramCapacity
  <2>2. /\ p1 \in P!ProgramCapacity /\ p1.reserved = old.reserved
        /\ p1.confirmed = old.confirmed /\ p1.capacity = capacity
    BY <1>3, <1>4 DEF P!ProgramCapacity
  <2> HIDE DEF p1
  <2>3. /\ p2 \in P!ProgramCapacity /\ p2.reserved = p1.reserved
        /\ p2.confirmed = p1.confirmed /\ p2.capacity = p1.capacity
    BY <1>4, <2>2 DEF P!ProgramCapacity
  <2> HIDE DEF p2
  <2>4. /\ p3 \in P!ProgramCapacity /\ p3.reserved = p2.reserved
        /\ p3.confirmed = p2.confirmed /\ p3.capacity = p2.capacity
    BY <1>4, <2>3 DEF P!ProgramCapacity
  <2>5. QED BY <2>1, <2>2, <2>3, <2>4
<1> HIDE DEF p
<1>6. CountsOK(program, p, seats)
  <2>1. old.reserved + old.confirmed <= capacity
    BY <1>1, <1>3, <1>4 DEF P!Committed, P!ProgramCapacity
  <2>2. QED BY <1>2, <1>5, <2>1 DEF CountsOK
<1>7. s[1] = p /\ s[2] = waitlists[program] /\ s[3] = seats
  OBVIOUS
<1> HIDE DEF s
<1>8. CountsOK(program, s[1], s[3]) /\ QueueOK(program, s[2], s[3]) /\ StoreOK(s[3])
  BY <1>2, <1>6, <1>7
<1>9. PICK n \in Nat : Promoted(program, s, t, n)
  <2>1. CASE automatic
    BY <1>2, <1>8, <2>1, PromotedAll
  <2>2. CASE ~automatic
    BY <1>8, <2>2, PromotedNone
  <2>3. QED BY <2>1, <2>2
<1>10. ~(P!Committed(t[1]) < P!Committed(old))
  <2>1. /\ t[1].reserved = s[1].reserved + n /\ t[1].confirmed = s[1].confirmed
    BY <1>9 DEF Promoted
  <2>2. old.reserved \in Nat /\ old.confirmed \in Nat
    BY <1>3 DEF P!ProgramCapacity
  <2>3. /\ P!Committed(t[1]) = (old.reserved + n) + old.confirmed
        /\ P!Committed(old) = old.reserved + old.confirmed
    BY <1>5, <1>7, <2>1 DEF P!Committed
  <2> HIDE DEF t, old
  <2>4. QED BY <2>2, <2>3
<1> HIDE DEF t
<1>11. NoneGiven(program, s)
  BY <1>7 DEF NoneGiven
<1>12. QED BY <1>1, <1>9, <1>10, <1>11, WriteStep DEF old

LEMMA PromoteNextPreserves ==
  ASSUME SeatsInv, now' = now, NEW organizer \in Organizers, NEW program \in SeatPrograms,
         P!PromoteNext(organizer, program)
  PROVE  SeatsStepOK
<1> DEFINE old == seatPrograms[program]
           s == <<old, waitlists[program], seats>>
           t == P!PromoteNextInternal(program, s)
<1>1. program \in DOMAIN seatPrograms /\ P!CanPromote(s) /\ P!Write(program, t)
  BY DEF P!PromoteNext, P!RequireOrganizer, P!Has
<1>2. /\ CountsOK(program, old, seats) /\ QueueOK(program, waitlists[program], seats)
      /\ StoreOK(seats) /\ now \in Nat
  BY <1>1, StoredProgram
<1>3. s[1] = old /\ s[2] = waitlists[program] /\ s[3] = seats
  OBVIOUS
<1>4. old \in P!ProgramCapacity /\ waitlists[program] \in Seq(Applicants)
  BY <1>2 DEF CountsOK, QueueOK
<1> HIDE DEF s
<1>5. Promoted(program, s, s, 0)
  BY <1>2, <1>3, PromotedNone
<1>6. Promoted(program, s, t, 0 + 1)
  BY <1>1, <1>2, <1>3, <1>4, <1>5, PromotedOnce
<1>7. ~(P!Committed(t[1]) < P!Committed(old))
  <2>1. t[1].reserved = old.reserved + 1 /\ t[1].confirmed = old.confirmed
    BY <1>3, <1>6 DEF Promoted
  <2>2. old.reserved \in Nat /\ old.confirmed \in Nat
    BY <1>4 DEF P!ProgramCapacity
  <2>3. /\ P!Committed(t[1]) = (old.reserved + 1) + old.confirmed
        /\ P!Committed(old) = old.reserved + old.confirmed
    BY <2>1 DEF P!Committed
  <2> HIDE DEF t, old
  <2>4. QED BY <2>2, <2>3
<1> HIDE DEF t
<1>8. NoneGiven(program, s)
  BY <1>3 DEF NoneGiven
<1>9. QED BY <1>1, <1>6, <1>7, <1>8, WriteStep

\* Nobody waited and no seat was freed.
LEMMA TurnNobodyWaiting ==
  ASSUME NEW program, waitlists[program] = <<>>,
         ~(P!Committed(seatPrograms'[program]) < P!Committed(seatPrograms[program]))
  PROVE  Turn(program)
<1>1. 1..Len(waitlists[program]) = {}
  OBVIOUS
<1>2. QED BY <1>1 DEF Turn

LEMMA RequestFreeSeat ==
  ASSUME SeatsInv, now' = now, NEW who \in Applicants, NEW program \in DOMAIN seatPrograms,
         <<program, who>> \notin DOMAIN seats, P!SeatFree(program),
         seatPrograms' = [seatPrograms EXCEPT ![program].reserved = @ + 1],
         seats' = P!Set(seats, <<program, who>>, P!Offer(seatPrograms[program])),
         UNCHANGED waitlists
  PROVE  SeatsStepOK
<1> DEFINE k == <<program, who>>
           old == seatPrograms[program]
           r == [old EXCEPT !.reserved = @ + 1]
           v == P!Offer(old)
           q == waitlists[program]
           O == Seated(seats, program, "Offered")
           F == Seated(seats, program, "Confirmed")
           W == Seated(seats, program, "Waitlisted")
<1>1. /\ program \in SeatPrograms /\ StoreOK(seats) /\ now \in Nat
      /\ CountsOK(program, old, seats) /\ QueueOK(program, q, seats)
  BY StoredProgram
<1>2. /\ old \in P!ProgramCapacity
      /\ old.reserved \in Nat /\ old.confirmed \in Nat /\ old.capacity \in Nat
      /\ old.ttl \in Nat
  BY <1>1 DEF CountsOK, P!ProgramCapacity
<1>3. old.reserved + old.confirmed < old.capacity /\ q = <<>>
  BY DEF P!SeatFree, P!Committed
<1>4. v \in P!SeatRecord /\ v.state = "Offered"
  BY <1>1, <1>2 DEF P!Offer, P!SeatRecord
<1>5. Written(seatPrograms, seatPrograms', program, r) /\ Written(waitlists, waitlists', program, q)
  BY DEF Written, SeatsInv
<1>6. Written(seats, seats', k, v)
  BY DEF P!Set, Written
<1>7. /\ r \in P!ProgramCapacity /\ r.reserved = old.reserved + 1
      /\ r.confirmed = old.confirmed /\ r.capacity = old.capacity
  BY <1>2 DEF P!ProgramCapacity
<1>8. who \notin O /\ who \notin F /\ who \notin W
  BY DEF Seated
<1> HIDE DEF r, v
<1>9. Moved(seats, seats', program, who, "Offered")
  BY <1>4, <1>6, MoveSeat, Zenon
<1>10. /\ Seated(seats', program, "Offered") = O \cup {who}
       /\ Seated(seats', program, "Confirmed") = F
       /\ Seated(seats', program, "Waitlisted") = W
       /\ \A other, x : other # program => Seated(seats', other, x) = Seated(seats, other, x)
  <2> HIDE DEF O, F, W
  <2>1. F \ {who} = F /\ W \ {who} = W
    BY <1>8
  <2>2. QED BY <1>9, <2>1 DEF Moved, O, F, W
<1>11. StoreOK(seats') /\ \A y \in DOMAIN seats' : y[1] \in DOMAIN seatPrograms \cup {program}
  <2>1. k[1] = program
    OBVIOUS
  <2> HIDE DEF k
  <2>2. QED BY <1>1, <1>4, <1>6, <2>1 DEF Written, StoreOK, SeatsInv
<1>12. CountsOK(program, r, seats')
  <2>1. IsFiniteSet(O) /\ old.reserved = Cardinality(O) /\ IsFiniteSet(F)
           /\ old.confirmed = Cardinality(F)
    BY <1>1 DEF CountsOK
  <2> HIDE DEF O, F, old
  <2>2. IsFiniteSet(O \cup {who}) /\ Cardinality(O \cup {who}) = old.reserved + 1
    BY <1>8, <2>1, FS_AddElement
  <2>3. (old.reserved + 1) + old.confirmed <= old.capacity
    BY <1>2, <1>3
  <2>4. QED BY <1>7, <1>10, <2>1, <2>2, <2>3 DEF CountsOK
<1>13. QueueOK(program, q, seats')
  BY <1>1, <1>10 DEF QueueOK
<1>14. Turn(program)
  <2>1. P!Committed(seatPrograms'[program]) = (old.reserved + 1) + old.confirmed
    BY <1>5, <1>7 DEF Written, P!Committed
  <2>2. P!Committed(old) = old.reserved + old.confirmed
    BY DEF P!Committed
  <2>3. ~(P!Committed(seatPrograms'[program]) < P!Committed(seatPrograms[program]))
    BY <1>2, <2>1, <2>2
  <2>4. QED BY <1>3, <2>3, TurnNobodyWaiting
<1>15. /\ SeatsInv'
       /\ \A other \in DOMAIN seatPrograms : other # program => Turn(other)
  <2> HIDE DEF k, old, q
  <2>1. QED BY <1>1, <1>5, <1>10, <1>11, <1>12, <1>13, ProgramStep
<1>16. QED BY <1>14, <1>15 DEF SeatsStepOK

\* Everyone who waits is in line once, the newcomer last.
LEMMA QueueUp ==
  ASSUME NEW program, NEW q, NEW st, NEW st2, NEW who \in Applicants,
         QueueOK(program, q, st), who \notin Seated(st, program, "Waitlisted"),
         Seated(st2, program, "Waitlisted") = Seated(st, program, "Waitlisted") \cup {who}
  PROVE  QueueOK(program, Append(q, who), st2)
<1> DEFINE W == Seated(st, program, "Waitlisted")
           W2 == Seated(st2, program, "Waitlisted")
           a == Append(q, who)
<1>1. /\ q \in Seq(Applicants) /\ IsFiniteSet(W) /\ Len(q) = Cardinality(W)
      /\ \A i \in 1..Len(q) : q[i] \in W
      /\ \A w \in W : \E i \in 1..Len(q) : q[i] = w
      /\ \A i, j \in 1..Len(q) : q[i] = q[j] => i = j
  BY DEF QueueOK
<1>2. W2 = W \cup {who} /\ who \notin W
  OBVIOUS
<1>3. /\ a \in Seq(Applicants) /\ Len(q) \in Nat /\ Len(a) = Len(q) + 1
      /\ \A i \in 1..Len(q) : a[i] = q[i]
      /\ a[Len(q) + 1] = who
  BY <1>1
<1> HIDE DEF W, W2, a
<1>4. IsFiniteSet(W2) /\ Len(a) = Cardinality(W2)
  <2>1. IsFiniteSet(W \cup {who}) /\ Cardinality(W \cup {who}) = Cardinality(W) + 1
    BY <1>1, <1>2, FS_AddElement
  <2>2. QED BY <1>1, <1>2, <1>3, <2>1
<1>5. \A i \in 1..Len(a) : i \in 1..Len(q) \/ i = Len(q) + 1
  BY <1>3
<1>6. Len(q) + 1 \in 1..Len(a) /\ \A i \in 1..Len(q) : i \in 1..Len(a)
  BY <1>3
<1>7. \A i \in 1..Len(a) : a[i] \in W2
  BY <1>1, <1>2, <1>3, <1>5
<1>8. \A w \in W2 : \E i \in 1..Len(a) : a[i] = w
  BY <1>1, <1>2, <1>3, <1>6
<1>9. \A i, j \in 1..Len(a) : a[i] = a[j] => i = j
  BY <1>1, <1>2, <1>3, <1>5
<1>10. QED BY <1>3, <1>4, <1>7, <1>8, <1>9 DEF QueueOK, W2, a

LEMMA RequestWaitlisted ==
  ASSUME SeatsInv, now' = now, NEW who \in Applicants, NEW program \in DOMAIN seatPrograms,
         <<program, who>> \notin DOMAIN seats,
         waitlists' = [waitlists EXCEPT ![program] = Append(@, who)],
         seats' = P!Set(seats, <<program, who>>, [state |-> "Waitlisted", expires |-> 0]),
         UNCHANGED seatPrograms
  PROVE  SeatsStepOK
<1> DEFINE k == <<program, who>>
           r == seatPrograms[program]
           v == [state |-> "Waitlisted", expires |-> 0]
           q == waitlists[program]
           O == Seated(seats, program, "Offered")
           F == Seated(seats, program, "Confirmed")
           W == Seated(seats, program, "Waitlisted")
<1>1. /\ program \in SeatPrograms /\ StoreOK(seats) /\ now \in Nat
      /\ CountsOK(program, r, seats) /\ QueueOK(program, q, seats)
  BY StoredProgram
<1>2. v \in P!SeatRecord /\ v.state = "Waitlisted"
  BY DEF P!SeatRecord
<1>3. /\ Written(seatPrograms, seatPrograms', program, r)
      /\ Written(waitlists, waitlists', program, Append(q, who))
  BY <1>1 DEF Written, SeatsInv
<1>4. Written(seats, seats', k, v)
  BY DEF P!Set, Written
<1>5. who \notin O /\ who \notin F /\ who \notin W
  BY DEF Seated
<1> HIDE DEF v
<1>6. Moved(seats, seats', program, who, "Waitlisted")
  BY <1>2, <1>4, MoveSeat, Zenon
<1>7. /\ Seated(seats', program, "Offered") = O
      /\ Seated(seats', program, "Confirmed") = F
      /\ Seated(seats', program, "Waitlisted") = W \cup {who}
      /\ \A other, x : other # program => Seated(seats', other, x) = Seated(seats, other, x)
  <2> HIDE DEF O, F, W
  <2>1. F \ {who} = F /\ O \ {who} = O
    BY <1>5
  <2>2. QED BY <1>6, <2>1 DEF Moved, O, F, W
<1>8. StoreOK(seats') /\ \A y \in DOMAIN seats' : y[1] \in DOMAIN seatPrograms \cup {program}
  <2>1. k[1] = program
    OBVIOUS
  <2> HIDE DEF k
  <2>2. QED BY <1>1, <1>2, <1>4, <2>1 DEF Written, StoreOK, SeatsInv
<1>9. CountsOK(program, r, seats')
  BY <1>1, <1>7 DEF CountsOK
<1>10. QueueOK(program, Append(q, who), seats')
  BY <1>1, <1>5, <1>7, QueueUp
<1>11. Turn(program)
  <2>1. P!Committed(r) \in Nat /\ seatPrograms'[program] = r
    BY <1>1 DEF CountsOK, P!ProgramCapacity, P!Committed
  <2>2. ~(P!Committed(seatPrograms'[program]) < P!Committed(seatPrograms[program]))
    BY <2>1
  <2>3. QED BY <1>7, <2>2, TurnIdle
<1>12. /\ SeatsInv'
       /\ \A other \in DOMAIN seatPrograms : other # program => Turn(other)
  <2> HIDE DEF k, r
  <2>1. QED BY <1>1, <1>3, <1>7, <1>8, <1>9, <1>10, ProgramStep
<1>13. QED BY <1>11, <1>12 DEF SeatsStepOK

LEMMA RequestSeatPreserves ==
  ASSUME SeatsInv, now' = now, NEW who \in Applicants, NEW program \in SeatPrograms,
         P!RequestSeat(who, program)
  PROVE  SeatsStepOK
BY RequestFreeSeat, RequestWaitlisted DEF P!RequestSeat, P!Has

LEMMA ConfirmSeatPreserves ==
  ASSUME SeatsInv, now' = now, NEW who \in Applicants, NEW program \in SeatPrograms,
         P!ConfirmSeat(who, program)
  PROVE  SeatsStepOK
<1> DEFINE k == <<program, who>>
           old == seatPrograms[program]
           r1 == [old EXCEPT !.reserved = @ - 1]
           r == [r1 EXCEPT !.confirmed = @ + 1]
           v == [state |-> "Confirmed", expires |-> 0]
           q == waitlists[program]
           O == Seated(seats, program, "Offered")
           F == Seated(seats, program, "Confirmed")
           W == Seated(seats, program, "Waitlisted")
<1>1. /\ k \in DOMAIN seats /\ seats[k].state = "Offered"
      /\ seatPrograms' = [seatPrograms EXCEPT ![program].reserved = @ - 1,
                                              ![program].confirmed = @ + 1]
      /\ seats' = [seats EXCEPT ![k] = v] /\ waitlists' = waitlists
  BY DEF P!ConfirmSeat, P!IsIn, P!Has
<1>2. program \in DOMAIN seatPrograms
  BY <1>1 DEF SeatsInv
<1>3. /\ StoreOK(seats) /\ CountsOK(program, old, seats) /\ QueueOK(program, q, seats)
  BY <1>2, StoredProgram
<1>4. v \in P!SeatRecord /\ v.state = "Confirmed"
  BY DEF P!SeatRecord
<1>5. /\ Written(seatPrograms, seatPrograms', program, r)
      /\ Written(waitlists, waitlists', program, q) /\ Written(seats, seats', k, v)
  BY <1>1, <1>2 DEF Written, SeatsInv
<1>6. who \in O /\ who \notin F /\ who \notin W
  <2>1. who \in O
    BY <1>1 DEF Seated
  <2>2. QED BY <2>1, OneState
<1> HIDE DEF v
<1>7. Moved(seats, seats', program, who, "Confirmed")
  BY <1>4, <1>5, MoveSeat, Zenon
<1>8. /\ Seated(seats', program, "Offered") = O \ {who}
      /\ Seated(seats', program, "Confirmed") = F \cup {who}
      /\ Seated(seats', program, "Waitlisted") = W
      /\ \A other, x : other # program => Seated(seats', other, x) = Seated(seats, other, x)
  <2> HIDE DEF O, F, W
  <2>1. W \ {who} = W
    BY <1>6
  <2>2. QED BY <1>7, <2>1 DEF Moved, O, F, W
<1>9. StoreOK(seats') /\ \A y \in DOMAIN seats' : y[1] \in DOMAIN seatPrograms \cup {program}
  <2> HIDE DEF k
  <2>1. QED BY <1>1, <1>3, <1>4, <1>5 DEF Written, StoreOK, SeatsInv
<1>10. /\ IsFiniteSet(O) /\ old.reserved = Cardinality(O) /\ IsFiniteSet(F)
       /\ old.confirmed = Cardinality(F) /\ old \in P!ProgramCapacity
       /\ old.reserved + old.confirmed <= old.capacity
       /\ old.reserved \in Nat /\ old.confirmed \in Nat /\ old.capacity \in Nat
  BY <1>3 DEF CountsOK, P!ProgramCapacity
<1>11. /\ IsFiniteSet(O \ {who}) /\ Cardinality(O \ {who}) = old.reserved - 1
       /\ IsFiniteSet(F \cup {who}) /\ Cardinality(F \cup {who}) = old.confirmed + 1
       /\ old.reserved - 1 \in Nat
  <2> HIDE DEF O, F, old
  <2>1. /\ IsFiniteSet(O \ {who}) /\ Cardinality(O \ {who}) = Cardinality(O) - 1
    BY <1>6, <1>10, FS_RemoveElement
  <2>2. Cardinality(O \ {who}) \in Nat
    BY <2>1, FS_CardinalityType
  <2>3. IsFiniteSet(F \cup {who}) /\ Cardinality(F \cup {who}) = Cardinality(F) + 1
    BY <1>6, <1>10, FS_AddElement
  <2>4. QED BY <1>10, <2>1, <2>2, <2>3
<1>12. /\ r \in P!ProgramCapacity /\ r.reserved = old.reserved - 1
       /\ r.confirmed = old.confirmed + 1 /\ r.capacity = old.capacity
  <2>1. /\ r1 \in P!ProgramCapacity /\ r1.reserved = old.reserved - 1
        /\ r1.confirmed = old.confirmed /\ r1.capacity = old.capacity
    BY <1>10, <1>11 DEF P!ProgramCapacity
  <2> HIDE DEF r1, old
  <2>2. /\ r \in P!ProgramCapacity /\ r.reserved = r1.reserved
        /\ r.confirmed = r1.confirmed + 1 /\ r.capacity = r1.capacity
    BY <2>1 DEF P!ProgramCapacity
  <2>3. QED BY <2>1, <2>2
<1>13. (old.reserved - 1) + (old.confirmed + 1) = old.reserved + old.confirmed
  <2> HIDE DEF old
  <2>1. QED BY <1>10
<1> HIDE DEF r
<1>14. CountsOK(program, r, seats')
  BY <1>8, <1>10, <1>11, <1>12, <1>13 DEF CountsOK
<1>15. QueueOK(program, q, seats')
  BY <1>3, <1>8 DEF QueueOK
<1>16. Turn(program)
  <2>1. P!Committed(seatPrograms'[program]) = P!Committed(old)
    BY <1>5, <1>12, <1>13 DEF Written, P!Committed
  <2>2. P!Committed(old) \in Nat
    BY <1>10 DEF P!Committed
  <2>3. ~(P!Committed(seatPrograms'[program]) < P!Committed(seatPrograms[program]))
    BY <2>1, <2>2
  <2>4. QED BY <1>8, <2>3, TurnIdle
<1>17. /\ SeatsInv'
       /\ \A other \in DOMAIN seatPrograms : other # program => Turn(other)
  <2> HIDE DEF k, old, q
  <2>1. QED BY <1>5, <1>8, <1>9, <1>14, <1>15, ProgramStep
<1>18. QED BY <1>16, <1>17 DEF SeatsStepOK

\* decline, expire and release: the seat is gone from the record and the store, and the
\* first in line gets it if promotion is automatic.
LEMMA GivenBack ==
  ASSUME SeatsInv, now' = now, NEW who \in Applicants, NEW program \in DOMAIN seatPrograms,
         NEW r, NEW st, st = P!Remove(seats, {<<program, who>>}),
         CountsOK(program, r, st), QueueOK(program, waitlists[program], st),
         r.automatic = seatPrograms[program].automatic,
         P!Committed(r) = P!Committed(seatPrograms[program]) - 1,
         P!Committed(r) < r.capacity,
         P!Write(program, P!PassOn(program, <<r, waitlists[program], st>>))
  PROVE  SeatsStepOK
<1> DEFINE s == <<r, waitlists[program], st>>
           t == P!PassOn(program, s)
           old == P!Committed(seatPrograms[program])
<1>1. s[1] = r /\ s[2] = waitlists[program] /\ s[3] = st
  OBVIOUS
<1>2. StoreOK(seats) /\ now \in Nat /\ CountsOK(program, seatPrograms[program], seats)
  BY StoredProgram
<1>3. r \in P!ProgramCapacity /\ waitlists[program] \in Seq(Applicants) /\ old \in Nat
  BY <1>2 DEF CountsOK, QueueOK, P!ProgramCapacity, P!Committed
<1>4. Dropped(seats, st, program, who)
  BY DropSeat, Zenon
<1>5. DOMAIN st \subseteq DOMAIN seats /\ StoreOK(st)
  BY <1>2 DEF P!Remove, StoreOK
<1>6. P!Write(program, t)
  OBVIOUS
<1>7. t = IF s[1].automatic /\ P!CanPromote(s) THEN P!PromoteNextInternal(program, s) ELSE s
  BY DEF P!PassOn
<1> HIDE DEF s, t, old
<1>8. NoneGiven(program, s)
  BY <1>1, <1>4, <1>5 DEF Dropped, NoneGiven
<1>9. Promoted(program, s, s, 0)
  BY <1>1, <1>5, PromotedNone
<1>10. CASE s[1].automatic /\ P!CanPromote(s)
  <2>0. Promoted(program, s, t, 0 + 1)
    BY <1>1, <1>2, <1>3, <1>7, <1>9, <1>10, PromotedOnce
  <2>1. Promoted(program, s, t, 1)
    BY <2>0
  <2>2. t[1].reserved = r.reserved + 1 /\ t[1].confirmed = r.confirmed
    BY <1>1, <2>1 DEF Promoted
  <2>3. r.reserved \in Nat /\ r.confirmed \in Nat
    BY <1>3 DEF P!ProgramCapacity
  <2>4. /\ P!Committed(t[1]) = (r.reserved + 1) + r.confirmed
        /\ r.reserved + r.confirmed = old - 1
    BY <2>2 DEF P!Committed, old
  <2>5. ~(P!Committed(t[1]) < old)
    BY <1>3, <2>3, <2>4
  <2>6. ~(P!Committed(t[1]) < P!Committed(seatPrograms[program]))
    BY <2>5 DEF old
  <2>7. QED BY <1>6, <1>8, <2>1, <2>6, WriteStep
<1>11. CASE ~(s[1].automatic /\ P!CanPromote(s))
  <2>1. t = s
    BY <1>7, <1>11
  <2>2. seatPrograms[program].automatic => t[2] = <<>>
    BY <1>1, <1>11, <2>1 DEF P!CanPromote
  <2>3. Promoted(program, s, t, 0)
    BY <1>9, <2>1
  <2>4. QED BY <1>6, <1>8, <2>2, <2>3, WriteStep
<1>12. QED BY <1>10, <1>11

\* What the seats and the queue become when somebody in the given state leaves.
Left(who, program, state, st) ==
    /\ program \in DOMAIN seatPrograms
    /\ who \in Seated(seats, program, state)
    /\ \A x : x # state => Seated(st, program, x) = Seated(seats, program, x)
    /\ Seated(st, program, state) = Seated(seats, program, state) \ {who}
    /\ QueueOK(program, waitlists[program], st)

LEMMA LeavingSeat ==
  ASSUME SeatsInv, NEW who \in Applicants, NEW program, NEW state,
         state \in {"Offered", "Confirmed"}, P!IsIn(who, program, state), NEW st,
         st = P!Remove(seats, {<<program, who>>})
  PROVE  Left(who, program, state, st)
<1>1. program \in DOMAIN seatPrograms /\ who \in Seated(seats, program, state)
  BY DEF P!IsIn, P!Has, SeatsInv, Seated
<1>2. \A x : Seated(st, program, x) = Seated(seats, program, x) \ {who}
  BY DropSeat DEF Dropped
<1>3. \A x : x # state => Seated(st, program, x) = Seated(seats, program, x)
  <2>1. TAKE x
  <2>2. HAVE x # state
  <2>3. who \notin Seated(seats, program, x)
    BY <1>1, <2>2, OneState
  <2>4. QED BY <1>2, <2>3
<1>4. QueueOK(program, waitlists[program], seats)
  BY <1>1, StoredProgram
<1>5. Seated(st, program, "Waitlisted") = Seated(seats, program, "Waitlisted")
  BY <1>3
<1>6. QueueOK(program, waitlists[program], st)
  BY <1>4, <1>5 DEF QueueOK
<1>7. QED BY <1>1, <1>2, <1>3, <1>6 DEF Left

\* One member less.
LEMMA OneLess ==
  ASSUME NEW T, IsFiniteSet(T), NEW x \in T, NEW n, n = Cardinality(T)
  PROVE  IsFiniteSet(T \ {x}) /\ Cardinality(T \ {x}) = n - 1 /\ n - 1 \in Nat
<1>1. IsFiniteSet(T \ {x}) /\ Cardinality(T \ {x}) = Cardinality(T) - 1
  BY FS_RemoveElement
<1>2. Cardinality(T \ {x}) \in Nat
  BY <1>1, FS_CardinalityType
<1>3. QED BY <1>1, <1>2

LEMMA ReleaseOfferPreserves ==
  ASSUME SeatsInv, now' = now, NEW who \in Applicants, NEW program \in SeatPrograms,
         P!IsIn(who, program, "Offered"), P!ReleaseOffer(who, program)
  PROVE  SeatsStepOK
<1> DEFINE old == seatPrograms[program]
           r == [old EXCEPT !.reserved = @ - 1]
           st == P!Remove(seats, {<<program, who>>})
           O == Seated(seats, program, "Offered")
<1>1. /\ program \in DOMAIN seatPrograms /\ who \in O
      /\ Seated(st, program, "Confirmed") = Seated(seats, program, "Confirmed")
      /\ Seated(st, program, "Offered") = O \ {who}
      /\ QueueOK(program, waitlists[program], st)
  <2>1. Left(who, program, "Offered", st)
    BY LeavingSeat
  <2>2. QED BY <2>1 DEF Left
<1>2. CountsOK(program, old, seats)
  BY <1>1, StoredProgram
<1>3. /\ old \in P!ProgramCapacity /\ old.reserved \in Nat /\ old.confirmed \in Nat
      /\ old.capacity \in Nat /\ old.reserved + old.confirmed <= old.capacity
      /\ IsFiniteSet(O) /\ old.reserved = Cardinality(O)
  BY <1>2 DEF CountsOK, P!ProgramCapacity
<1>4. /\ IsFiniteSet(O \ {who}) /\ Cardinality(O \ {who}) = old.reserved - 1
      /\ old.reserved - 1 \in Nat
  <2> HIDE DEF O, old
  <2>1. QED BY <1>1, <1>3, OneLess
<1>5. /\ r \in P!ProgramCapacity /\ r.reserved = old.reserved - 1
      /\ r.confirmed = old.confirmed /\ r.capacity = old.capacity
      /\ r.automatic = old.automatic
  BY <1>3, <1>4 DEF P!ProgramCapacity
<1>6. P!Write(program, P!PassOn(program, <<r, waitlists[program], st>>))
  BY DEF P!ReleaseOffer
<1> HIDE DEF r, st
<1>7. P!Committed(r) = P!Committed(old) - 1 /\ P!Committed(r) < r.capacity
  <2>1. P!Committed(r) = (old.reserved - 1) + old.confirmed
           /\ P!Committed(old) = old.reserved + old.confirmed
    BY <1>5 DEF P!Committed
  <2> HIDE DEF old
  <2>2. QED BY <1>3, <1>5, <2>1
<1>8. CountsOK(program, r, st)
  <2>1. r.reserved + r.confirmed <= r.capacity
    <3> HIDE DEF old
    <3>1. QED BY <1>3, <1>5
  <2>2. QED BY <1>1, <1>2, <1>4, <1>5, <2>1 DEF CountsOK
<1>9. QED BY <1>1, <1>5, <1>6, <1>7, <1>8, GivenBack DEF st

LEMMA ReleaseConfirmedSeatPreserves ==
  ASSUME SeatsInv, now' = now, NEW who \in Applicants, NEW program \in SeatPrograms,
         P!ReleaseConfirmedSeat(who, program)
  PROVE  SeatsStepOK
<1> DEFINE old == seatPrograms[program]
           r == [old EXCEPT !.confirmed = @ - 1]
           st == P!Remove(seats, {<<program, who>>})
           F == Seated(seats, program, "Confirmed")
<1>0. P!IsIn(who, program, "Confirmed")
  BY DEF P!ReleaseConfirmedSeat
<1>1. /\ program \in DOMAIN seatPrograms /\ who \in F
      /\ Seated(st, program, "Offered") = Seated(seats, program, "Offered")
      /\ Seated(st, program, "Confirmed") = F \ {who}
      /\ QueueOK(program, waitlists[program], st)
  <2>1. Left(who, program, "Confirmed", st)
    BY <1>0, LeavingSeat
  <2>2. QED BY <2>1 DEF Left
<1>2. CountsOK(program, old, seats)
  BY <1>1, StoredProgram
<1>3. /\ old \in P!ProgramCapacity /\ old.reserved \in Nat /\ old.confirmed \in Nat
      /\ old.capacity \in Nat /\ old.reserved + old.confirmed <= old.capacity
      /\ IsFiniteSet(F) /\ old.confirmed = Cardinality(F)
  BY <1>2 DEF CountsOK, P!ProgramCapacity
<1>4. /\ IsFiniteSet(F \ {who}) /\ Cardinality(F \ {who}) = old.confirmed - 1
      /\ old.confirmed - 1 \in Nat
  <2> HIDE DEF F, old
  <2>1. QED BY <1>1, <1>3, OneLess
<1>5. /\ r \in P!ProgramCapacity /\ r.confirmed = old.confirmed - 1
      /\ r.reserved = old.reserved /\ r.capacity = old.capacity
      /\ r.automatic = old.automatic
  BY <1>3, <1>4 DEF P!ProgramCapacity
<1>6. P!Write(program, P!PassOn(program, <<r, waitlists[program], st>>))
  BY DEF P!ReleaseConfirmedSeat
<1> HIDE DEF r, st
<1>7. P!Committed(r) = P!Committed(old) - 1 /\ P!Committed(r) < r.capacity
  <2>1. P!Committed(r) = old.reserved + (old.confirmed - 1)
           /\ P!Committed(old) = old.reserved + old.confirmed
    BY <1>5 DEF P!Committed
  <2> HIDE DEF old
  <2>2. QED BY <1>3, <1>5, <2>1
<1>8. CountsOK(program, r, st)
  <2>1. r.reserved + r.confirmed <= r.capacity
    <3> HIDE DEF old
    <3>1. QED BY <1>3, <1>5
  <2>2. QED BY <1>1, <1>2, <1>4, <1>5, <2>1 DEF CountsOK
<1>9. QED BY <1>1, <1>5, <1>6, <1>7, <1>8, GivenBack DEF st

LEMMA SeatsStutter ==
  ASSUME SeatsInv, now' \in Nat, UNCHANGED <<seatPrograms, waitlists, seats>>
  PROVE  SeatsStepOK
<1>1. SeatsInv'
  BY DEF SeatsInv
<1>2. ASSUME NEW program \in DOMAIN seatPrograms PROVE Turn(program)
  <2>1. P!Committed(seatPrograms[program]) \in Nat
    BY DEF SeatsInv, CountsOK, P!ProgramCapacity, P!Committed
  <2>2. ~(P!Committed(seatPrograms'[program]) < P!Committed(seatPrograms[program]))
    BY <2>1
  <2>3. QED BY <2>2, TurnIdle
<1>3. QED BY <1>1, <1>2 DEF SeatsStepOK

LEMMA SeatsNext == ASSUME SeatsInv, now' = now, P!Next PROVE SeatsStepOK
<1>1. CASE \E organizer \in Organizers, program \in SeatPrograms :
             \/ \E capacity \in SeatCapacities, ttl \in OfferTtls, automatic \in BOOLEAN :
                    \/ P!CreateProgram(organizer, program, capacity, ttl, automatic)
                    \/ P!ConfigureProgram(organizer, program, capacity, ttl, automatic)
             \/ P!PromoteNext(organizer, program)
  BY <1>1, CreateProgramPreserves, ConfigureProgramPreserves, PromoteNextPreserves, ZenonT(60)
<1>2. CASE \E who \in Applicants, program \in SeatPrograms :
             \/ P!RequestSeat(who, program) \/ P!ConfirmSeat(who, program)
             \/ P!DeclineOffer(who, program) \/ P!ExpireOffer(who, program)
             \/ P!ReleaseConfirmedSeat(who, program)
  <2>1. \A who, program : P!DeclineOffer(who, program) \/ P!ExpireOffer(who, program)
          => P!IsIn(who, program, "Offered") /\ P!ReleaseOffer(who, program)
    BY DEF P!DeclineOffer, P!ExpireOffer
  <2>2. QED BY <1>2, <2>1, RequestSeatPreserves, ConfirmSeatPreserves, ReleaseOfferPreserves,
               ReleaseConfirmedSeatPreserves, ZenonT(60)
<1>3. CASE \E id \in ContractIds, parties \in Mentors \X Mentees, terms \in Terms :
             P!Publish(id, parties, terms)
  <2>1. now' \in Nat /\ UNCHANGED <<seatPrograms, waitlists, seats>>
    BY <1>3 DEF P!Publish, SeatsInv
  <2>2. QED BY <2>1, SeatsStutter
<1>4. QED BY <1>1, <1>2, <1>3, Zenon DEF P!Next

-----------------------------------------------------------------------------
(* What a step may do: session times, imported calendars, contract versions *)

ConfirmedByBoth ==
    \A id \in DOMAIN sessions :
        sessions[id].status = "Confirmed" => sessions[id].confirmed = S!Parties(sessions[id])

\* What ConsentToTime asks of a step.
Consent ==
    \A id \in DOMAIN sessions :
        LET s == sessions[id]
            t == sessions'[id]
        IN  /\ t.status = "Confirmed" => t.confirmed = S!Parties(t)
            /\ <<t.start_utc, t.duration>> # <<s.start_utc, s.duration>> =>
                 /\ t.status = "Booked" /\ t.confirmed = {}
                 /\ \E pid \in DOMAIN proposals :
                      proposals[pid].session_id = id /\ now <= proposals[pid].expires_at
                        /\ proposals'[pid].status = "Applied"

LEMMA ConsentStutter ==
  ASSUME ConfirmedByBoth, UNCHANGED sessions PROVE ConfirmedByBoth' /\ Consent
BY DEF ConfirmedByBoth, Consent, S!Parties

LEMMA ConsentBook ==
  ASSUME SchedulingInv, ConfirmedByBoth,
         NEW caller, NEW g, NEW id, NEW key, NEW start, NEW duration,
         S!BookSession(caller, g, id, key, start, duration)
  PROVE  ConfirmedByBoth' /\ Consent
<1>1. /\ DOMAIN sessions' = DOMAIN sessions \cup {id} /\ id \notin DOMAIN sessions
      /\ \A i \in DOMAIN sessions : sessions'[i] = sessions[i]
      /\ sessions'[id].status = "Booked"
  BY DEF S!BookSession, S!Set, S!Has
<1>2. QED BY <1>1 DEF ConfirmedByBoth, Consent, S!Parties

LEMMA ConsentConfirm ==
  ASSUME SchedulingInv, ConfirmedByBoth, NEW caller \in Persons, NEW id,
         S!ConfirmSession(caller, id)
  PROVE  ConfirmedByBoth' /\ Consent
<1> DEFINE s == sessions[id]
           confirmed == s.confirmed \cup {caller}
           t == sessions'[id]
<1>1. /\ id \in DOMAIN sessions /\ DOMAIN sessions' = DOMAIN sessions
      /\ \A i \in DOMAIN sessions : i # id => sessions'[i] = sessions[i]
      /\ caller \in S!Parties(s) \ s.confirmed
  BY DEF S!ConfirmSession, S!Has
<1>2. s \in S!Session
  BY <1>1 DEF SchedulingInv, S!TypeOK
<1>3. /\ t.mentor = s.mentor /\ t.mentee = s.mentee /\ t.start_utc = s.start_utc
      /\ t.duration = s.duration /\ t.confirmed = confirmed
      /\ t.status = IF confirmed = S!Parties(s) THEN "Confirmed" ELSE s.status
  BY <1>1, <1>2 DEF S!ConfirmSession, S!Session
<1>4. s.status # "Confirmed"
  BY <1>1 DEF ConfirmedByBoth
<1>5. S!Parties(t) = S!Parties(s)
  BY <1>3 DEF S!Parties
<1> HIDE DEF s, t, confirmed
<1>6. t.status = "Confirmed" => t.confirmed = S!Parties(t)
  BY <1>3, <1>4, <1>5
<1>7. ConfirmedByBoth'
  BY <1>1, <1>6 DEF ConfirmedByBoth, t, S!Parties
<1>8. ASSUME NEW i \in DOMAIN sessions
      PROVE  /\ sessions'[i].start_utc = sessions[i].start_utc
             /\ sessions'[i].duration = sessions[i].duration
  BY <1>1, <1>3 DEF s, t
<1>9. QED BY <1>1, <1>7, <1>8 DEF ConfirmedByBoth, Consent, S!Parties

LEMMA ConsentApprove ==
  ASSUME SchedulingInv, ConfirmedByBoth, NEW caller, NEW pid, S!ApproveReschedule(caller, pid)
  PROVE  ConfirmedByBoth' /\ Consent
<1> DEFINE r  == proposals[pid]
           id == r.session_id
           s  == sessions[id]
           t  == sessions'[id]
<1>1. /\ pid \in DOMAIN proposals /\ now <= r.expires_at
      /\ sessions' = [sessions EXCEPT ![id] =
             [s EXCEPT !.start_utc = r.new_start_utc, !.duration = r.new_duration,
                       !.revision = @ + 1, !.status = "Booked", !.confirmed = {}]]
      /\ proposals' = [proposals EXCEPT ![pid].status = "Applied"]
  BY DEF S!ApproveReschedule, S!Has
<1>2. id \in DOMAIN sessions /\ s \in S!Session /\ r \in S!RescheduleProposal
  BY <1>1 DEF SchedulingInv, S!TypeOK, S!Has
<1>3. /\ DOMAIN sessions' = DOMAIN sessions
      /\ \A i \in DOMAIN sessions : i # id => sessions'[i] = sessions[i]
  BY <1>1
<1>4. t.status = "Booked" /\ t.confirmed = {}
  BY <1>1, <1>2 DEF S!Session
<1>5. proposals'[pid].status = "Applied"
  BY <1>1, <1>2 DEF S!RescheduleProposal
<1>6. ConfirmedByBoth'
  BY <1>3, <1>4 DEF ConfirmedByBoth, S!Parties
<1>7. ASSUME NEW i \in DOMAIN sessions
      PROVE  \/ sessions'[i] = sessions[i]
             \/ i = id /\ sessions'[i].status = "Booked" /\ sessions'[i].confirmed = {}
  BY <1>3, <1>4
<1>8. ASSUME NEW i \in DOMAIN sessions
      PROVE  LET u == sessions[i]
                 v == sessions'[i]
             IN  /\ v.status = "Confirmed" => v.confirmed = S!Parties(v)
                 /\ <<v.start_utc, v.duration>> # <<u.start_utc, u.duration>> =>
                      /\ v.status = "Booked" /\ v.confirmed = {}
                      /\ \E p \in DOMAIN proposals :
                           proposals[p].session_id = i /\ now <= proposals[p].expires_at
                             /\ proposals'[p].status = "Applied"
  <2>1. sessions'[i].status = "Confirmed" => sessions'[i].confirmed = S!Parties(sessions'[i])
    BY <1>3, <1>6 DEF ConfirmedByBoth, S!Parties
  <2>2. ASSUME sessions'[i] # sessions[i]
        PROVE  /\ sessions'[i].status = "Booked" /\ sessions'[i].confirmed = {}
               /\ \E p \in DOMAIN proposals :
                    proposals[p].session_id = i /\ now <= proposals[p].expires_at
                      /\ proposals'[p].status = "Applied"
    BY <1>1, <1>5, <1>7, <2>2
  <2>3. QED BY <2>1, <2>2, Zenon
<1>9. QED BY <1>6, <1>8, Zenon DEF Consent

LEMMA ConsentNext ==
  ASSUME SchedulingInv, ConfirmedByBoth, S!Next PROVE ConfirmedByBoth' /\ Consent
<1>1. ASSUME NEW caller, \/ \E new : S!SetRegistrar(caller, new)
                         \/ \E lead : S!SetMinLeadTime(caller, lead)
                         \/ \E p : S!SetReschedulePolicy(caller, p)
                         \/ \E g, m : S!RegisterAgreement(caller, g, m[1], m[2])
                         \/ \E g, value : S!SetAgreementActive(caller, g, value)
                         \/ \E id, pid, start, duration :
                                S!ProposeReschedule(caller, id, pid, start, duration)
                         \/ \E pid : S!DeclineReschedule(caller, pid)
      PROVE  ConfirmedByBoth' /\ Consent
  <2>1. UNCHANGED sessions
    BY <1>1 DEF S!SetRegistrar, S!SetMinLeadTime, S!SetReschedulePolicy, S!RegisterAgreement,
                S!SetAgreementActive, S!ProposeReschedule, S!DeclineReschedule
  <2>2. QED BY <2>1, ConsentStutter
<1>2. QED BY <1>1, ConsentBook, ConsentConfirm, ConsentApprove, ZenonT(60) DEF S!Next

\* What SyncsInOrder asks of a step.
InOrder ==
    \A c \in DOMAIN connections :
        /\ connections'[c].epoch >= connections[c].epoch
        /\ K!Get(busy', c, <<>>) # K!Get(busy, c, <<>>) =>
               \/ connections'[c].epoch > connections[c].epoch
               \/ connections'[c].status # "Active"

LEMMA EpochsAreNumbers ==
  ASSUME K!TypeOK, NEW c \in DOMAIN connections PROVE connections[c].epoch \in Nat
<1>1. connections[c] \in K!Connection
  BY DEF K!TypeOK
<1>2. connections[c].epoch \in Epochs \cup {0}
  BY <1>1 DEF K!Connection
<1> DEFINE e == connections[c].epoch
<1>3. e \in Epochs \cup {0} /\ Epochs \subseteq Nat
  BY <1>2, PlacesConstants
<1> HIDE DEF e
<1>4. e \in Nat
  BY ONLY <1>3
<1>5. QED BY <1>4 DEF e

LEMMA InOrderStutter ==
  ASSUME K!TypeOK, UNCHANGED calendarVars PROVE K!TypeOK' /\ InOrder
<1>1. connections' = connections /\ busy' = busy
  BY DEF calendarVars
<1>2. QED BY <1>1, EpochsAreNumbers DEF K!TypeOK, InOrder

\* A step on one connection, d: the others keep their record and their windows.
OnlyConnection(d) ==
    /\ DOMAIN connections' = DOMAIN connections \cup {d}
    /\ \A c \in DOMAIN connections : c # d =>
         connections'[c] = connections[c] /\ K!Get(busy', c, <<>>) = K!Get(busy, c, <<>>)

LEMMA InOrderStep ==
  ASSUME K!TypeOK, NEW d, OnlyConnection(d), connections'[d] \in K!Connection,
         d \in DOMAIN connections =>
             /\ connections'[d].epoch >= connections[d].epoch
             /\ K!Get(busy', d, <<>>) # K!Get(busy, d, <<>>) =>
                    \/ connections'[d].epoch > connections[d].epoch
                    \/ connections'[d].status # "Active"
  PROVE  K!TypeOK' /\ InOrder
<1>1. K!TypeOK'
  BY DEF K!TypeOK, OnlyConnection
<1>2. ASSUME NEW c \in DOMAIN connections, c # d
      PROVE  /\ connections'[c].epoch >= connections[c].epoch
             /\ K!Get(busy', c, <<>>) = K!Get(busy, c, <<>>)
  BY <1>2, EpochsAreNumbers DEF OnlyConnection
<1>3. QED BY <1>1, <1>2 DEF InOrder

LEMMA OtherWindows ==
  ASSUME NEW d, NEW windows, NEW c, c # d
  PROVE  K!Get(K!PutBusy(d, windows), c, <<>>) = K!Get(busy, c, <<>>)
BY DEF K!PutBusy, K!Get, K!Set, K!Remove

LEMMA InOrderNext == ASSUME K!TypeOK, K!Next PROVE K!TypeOK' /\ InOrder
<1>1. PICK d \in Owners \X ConnectionIds :
        \/ \E scopes \in ScopeMasks, expires \in CalendarExpiries :
               K!Connect(d, scopes, expires)
        \/ \E epoch \in Epochs, payload \in PayloadHashes, windows \in BusyLists :
               K!RecordBusy(d, epoch, payload, windows)
        \/ K!MarkSyncFailed(d)
        \/ K!ExpireConnection(d)
        \/ K!Disconnect(d)
  BY DEF K!Next
<1>2. ASSUME NEW scopes \in ScopeMasks, NEW expires \in CalendarExpiries,
             K!Connect(d, scopes, expires)
      PROVE  K!TypeOK' /\ InOrder
  <2> DEFINE v == [status |-> "Active", epoch |-> 0, payload |-> ZeroHash,
                   expires |-> expires, degraded |-> FALSE]
  <2>1. /\ connections' = K!Set(connections, d, v) /\ busy' = busy
        /\ d \notin DOMAIN connections
    BY <1>2 DEF K!Connect, K!Has
  <2>2. v \in K!Connection
    BY DEF K!Connection
  <2> HIDE DEF v
  <2>3. connections'[d] = v /\ OnlyConnection(d)
    BY <2>1 DEF K!Set, OnlyConnection
  <2>4. QED BY <2>1, <2>2, <2>3, InOrderStep
<1>3. ASSUME NEW epoch \in Epochs, NEW payload \in PayloadHashes, NEW windows \in BusyLists,
             K!RecordBusy(d, epoch, payload, windows)
      PROVE  K!TypeOK' /\ InOrder
  <2> DEFINE u == connections[d]
             v1 == [u EXCEPT !.epoch = epoch]
             v2 == [v1 EXCEPT !.payload = payload]
             v3 == [v2 EXCEPT !.degraded = FALSE]
  <2>1. /\ d \in DOMAIN connections /\ epoch > u.epoch
        /\ busy' = K!PutBusy(d, K!Normalize(windows))
        /\ connections' = [connections EXCEPT ![d].epoch = epoch, ![d].payload = payload,
                                              ![d].degraded = FALSE]
    BY <1>3 DEF K!RecordBusy, K!IsActive, K!Has, K!NewerEpoch
  <2>2. u \in K!Connection
    BY <2>1 DEF K!TypeOK
  <2>3. connections'[d] = v3
    BY <2>1
  <2>4. DOMAIN connections' = DOMAIN connections
           /\ \A c \in DOMAIN connections : c # d => connections'[c] = connections[c]
    BY <2>1
  <2> HIDE DEF u
  <2>5. v1 \in K!Connection /\ v1.epoch = epoch
    BY <2>2 DEF K!Connection
  <2> HIDE DEF v1
  <2>6. v2 \in K!Connection /\ v2.epoch = epoch
    BY <2>5 DEF K!Connection
  <2> HIDE DEF v2
  <2>7. v3 \in K!Connection /\ v3.epoch = epoch
    BY <2>6 DEF K!Connection
  <2> HIDE DEF v3
  <2>8. epoch \in Nat /\ u.epoch \in Nat
    BY <2>1, EpochsAreNumbers, PlacesConstants DEF u
  <2>9. /\ connections'[d].epoch > connections[d].epoch
        /\ connections'[d].epoch >= connections[d].epoch
    BY <2>1, <2>3, <2>7, <2>8 DEF u
  <2>10. OnlyConnection(d)
    <3>1. \A c : c # d => K!Get(busy', c, <<>>) = K!Get(busy, c, <<>>)
      BY <2>1, OtherWindows, Zenon
    <3>2. QED BY <2>1, <2>4, <3>1 DEF OnlyConnection
  <2>11. QED BY <2>3, <2>7, <2>9, <2>10, InOrderStep
<1>4. ASSUME K!MarkSyncFailed(d) PROVE K!TypeOK' /\ InOrder
  <2>1. /\ d \in DOMAIN connections /\ busy' = busy
        /\ connections' = [connections EXCEPT ![d].degraded = TRUE]
    BY <1>4 DEF K!MarkSyncFailed, K!IsActive, K!Has
  <2>2. connections[d] \in K!Connection /\ connections[d].epoch \in Nat
    BY <2>1, EpochsAreNumbers DEF K!TypeOK
  <2>3. connections'[d] \in K!Connection /\ connections'[d].epoch = connections[d].epoch
    BY <2>1, <2>2 DEF K!Connection
  <2>4. OnlyConnection(d)
    BY <2>1 DEF OnlyConnection
  <2>5. connections'[d].epoch >= connections[d].epoch
    BY <2>2, <2>3
  <2>6. QED BY <2>1, <2>3, <2>4, <2>5, InOrderStep
<1>5. ASSUME NEW status \in {"Expired", "Revoked"}, d \in DOMAIN connections,
             connections' = [connections EXCEPT ![d].status = status, ![d].degraded = FALSE],
             busy' = K!PutBusy(d, <<>>)
      PROVE  K!TypeOK' /\ InOrder
  <2> DEFINE u == connections[d]
             v1 == [u EXCEPT !.status = status]
             v2 == [v1 EXCEPT !.degraded = FALSE]
  <2>1. u \in K!Connection /\ u.epoch \in Nat
    BY <1>5, EpochsAreNumbers DEF K!TypeOK
  <2>2. connections'[d] = v2
    BY <1>5
  <2>3. DOMAIN connections' = DOMAIN connections
           /\ \A c \in DOMAIN connections : c # d => connections'[c] = connections[c]
    BY <1>5
  <2> HIDE DEF u
  <2>4. v1 \in K!Connection /\ v1.epoch = u.epoch /\ v1.status # "Active"
    BY <2>1 DEF K!Connection
  <2> HIDE DEF v1
  <2>5. v2 \in K!Connection /\ v2.epoch = u.epoch /\ v2.status # "Active"
    BY <2>4 DEF K!Connection
  <2> HIDE DEF v2
  <2>6. OnlyConnection(d)
    <3>1. \A c : c # d => K!Get(busy', c, <<>>) = K!Get(busy, c, <<>>)
      BY <1>5, OtherWindows, Zenon
    <3>2. QED BY <1>5, <2>3, <3>1 DEF OnlyConnection
  <2>7. connections'[d].epoch >= connections[d].epoch
    BY <2>1, <2>2, <2>5 DEF u
  <2>8. QED BY <2>2, <2>5, <2>6, <2>7, InOrderStep
<1>6. ASSUME K!ExpireConnection(d) PROVE K!TypeOK' /\ InOrder
  BY <1>5, <1>6 DEF K!ExpireConnection, K!IsActive, K!Has
<1>7. ASSUME K!Disconnect(d) PROVE K!TypeOK' /\ InOrder
  BY <1>5, <1>7 DEF K!Disconnect, K!Has
<1>8. QED BY <1>1, <1>2, <1>3, <1>4, <1>6, <1>7

\* An agreement that has versions has one pair of parties.
VersionsInv ==
    \A id \in DOMAIN versions :
        /\ versions[id] \in Seq([parties : Mentors \X Mentees, terms : Terms])
        /\ Len(versions[id]) > 0
        /\ \A i \in 1..Len(versions[id]) : versions[id][i].parties = versions[id][1].parties

\* What VersionsAppendOnly asks of a step.
AppendOnly ==
    \A id \in DOMAIN versions :
        /\ SubSeq(versions'[id], 1, Len(versions[id])) = versions[id]
        /\ \A v \in P!Range(versions'[id]) : v.parties = versions[id][1].parties

LEMMA WholeSequence ==
  ASSUME NEW T, NEW q \in Seq(T) PROVE SubSeq(q, 1, Len(q)) = q
OBVIOUS

LEMMA AppendedPrefix ==
  ASSUME NEW T, NEW q \in Seq(T), NEW x \in T PROVE SubSeq(Append(q, x), 1, Len(q)) = q
OBVIOUS

LEMMA KeptVersions ==
  ASSUME VersionsInv, NEW id \in DOMAIN versions
  PROVE  /\ SubSeq(versions[id], 1, Len(versions[id])) = versions[id]
         /\ \A v \in P!Range(versions[id]) : v.parties = versions[id][1].parties
<1> DEFINE q == versions[id]
<1>1. /\ q \in Seq([parties : Mentors \X Mentees, terms : Terms])
      /\ \A i \in 1..Len(q) : q[i].parties = q[1].parties
  BY DEF VersionsInv
<1> HIDE DEF q
<1>2. SubSeq(q, 1, Len(q)) = q
  BY <1>1, WholeSequence
<1>3. DOMAIN q = 1..Len(q)
  BY <1>1
<1>4. \A v \in P!Range(q) : v.parties = q[1].parties
  BY <1>1, <1>3 DEF P!Range
<1>5. QED BY <1>2, <1>4 DEF q

LEMMA VersionsStutter ==
  ASSUME VersionsInv, UNCHANGED versions PROVE VersionsInv' /\ AppendOnly
<1>1. VersionsInv'
  BY DEF VersionsInv
<1>2. AppendOnly
  BY KeptVersions DEF AppendOnly
<1>3. QED BY <1>1, <1>2

LEMMA PublishAppends ==
  ASSUME VersionsInv, NEW id, NEW parties \in Mentors \X Mentees, NEW terms \in Terms,
         P!Publish(id, parties, terms)
  PROVE  VersionsInv' /\ AppendOnly
<1> DEFINE T == [parties : Mentors \X Mentees, terms : Terms]
           x == [parties |-> parties, terms |-> terms]
           old == P!Get(versions, id, <<>>)
           new == Append(old, x)
<1>1. /\ old # <<>> => old[Len(old)].parties = parties
      /\ DOMAIN versions' = DOMAIN versions \cup {id} /\ versions'[id] = new
      /\ \A i \in DOMAIN versions : i # id => versions'[i] = versions[i]
  BY DEF P!Publish, P!Set
<1>2. x \in T /\ x.parties = parties
  OBVIOUS
<1>3. old \in Seq(T) /\ \A i \in 1..Len(old) : old[i].parties = old[1].parties
  <2>1. CASE id \in DOMAIN versions
    BY <2>1 DEF P!Get, VersionsInv
  <2>2. CASE id \notin DOMAIN versions
    <3>1. old = <<>>
      BY <2>2 DEF P!Get
    <3> HIDE DEF old
    <3>2. QED BY <3>1
  <2>3. QED BY <2>1, <2>2
<1>4. id \in DOMAIN versions => old = versions[id] /\ Len(old) > 0
  BY DEF P!Get, VersionsInv
<1> HIDE DEF T, x, old
<1>5. /\ new \in Seq(T) /\ Len(old) \in Nat /\ Len(new) = Len(old) + 1
      /\ \A i \in 1..Len(old) : new[i] = old[i]
      /\ new[Len(old) + 1] = x
  BY <1>2, <1>3
<1>6. Len(old) > 0 => old[1].parties = parties
  BY <1>1, <1>3, <1>5
<1>7. SubSeq(new, 1, Len(old)) = old
  BY <1>2, <1>3, AppendedPrefix
<1> HIDE DEF new
<1>8. new[1].parties = parties /\ \A i \in 1..Len(new) : new[i].parties = parties
  BY <1>2, <1>3, <1>5, <1>6
<1>9. VersionsInv'
  <2>1. ASSUME NEW i \in DOMAIN versions'
        PROVE  /\ versions'[i] \in Seq(T) /\ Len(versions'[i]) > 0
               /\ \A j \in 1..Len(versions'[i]) :
                    versions'[i][j].parties = versions'[i][1].parties
    <3>1. CASE i = id
      BY <1>1, <1>5, <1>8, <3>1
    <3>2. CASE i # id
      BY <1>1, <2>1, <3>2 DEF VersionsInv, T
    <3>3. QED BY <3>1, <3>2
  <2>2. QED BY <2>1 DEF VersionsInv, T
<1>10. AppendOnly
  <2>1. ASSUME NEW i \in DOMAIN versions
        PROVE  /\ SubSeq(versions'[i], 1, Len(versions[i])) = versions[i]
               /\ \A v \in P!Range(versions'[i]) : v.parties = versions[i][1].parties
    <3>1. CASE i = id
      <4>1. DOMAIN new = 1..Len(new)
        BY <1>5
      <4>2. \A v \in P!Range(new) : v.parties = old[1].parties
        BY <1>4, <1>6, <1>8, <2>1, <3>1, <4>1 DEF P!Range
      <4>3. QED BY <1>1, <1>4, <1>7, <2>1, <3>1, <4>2
    <3>2. CASE i # id
      BY <1>1, <2>1, <3>2, KeptVersions
    <3>3. QED BY <3>1, <3>2
  <2>2. QED BY <2>1 DEF AppendOnly
<1>11. QED BY <1>9, <1>10

LEMMA VersionsNext == ASSUME VersionsInv, P!Next PROVE VersionsInv' /\ AppendOnly
<1>1. \A program, s : P!Write(program, s) => UNCHANGED versions
  BY DEF P!Write
<1>2. CASE \E organizer \in Organizers, program \in SeatPrograms :
             \/ \E capacity \in SeatCapacities, ttl \in OfferTtls, automatic \in BOOLEAN :
                    \/ P!CreateProgram(organizer, program, capacity, ttl, automatic)
                    \/ P!ConfigureProgram(organizer, program, capacity, ttl, automatic)
             \/ P!PromoteNext(organizer, program)
  <2>1. \A organizer, program, capacity, ttl, automatic :
          P!CreateProgram(organizer, program, capacity, ttl, automatic) => UNCHANGED versions
    BY DEF P!CreateProgram
  <2>2. \A organizer, program, capacity, ttl, automatic :
          P!ConfigureProgram(organizer, program, capacity, ttl, automatic)
            => UNCHANGED versions
    BY <1>1, Zenon DEF P!ConfigureProgram
  <2>3. \A organizer, program : P!PromoteNext(organizer, program) => UNCHANGED versions
    BY <1>1, Zenon DEF P!PromoteNext
  <2>4. UNCHANGED versions
    BY <1>2, <2>1, <2>2, <2>3, Zenon
  <2>5. QED BY <2>4, VersionsStutter
<1>3. CASE \E who \in Applicants, program \in SeatPrograms :
             \/ P!RequestSeat(who, program) \/ P!ConfirmSeat(who, program)
             \/ P!DeclineOffer(who, program) \/ P!ExpireOffer(who, program)
             \/ P!ReleaseConfirmedSeat(who, program)
  <2>1. UNCHANGED versions
    BY <1>1, <1>3, Zenon DEF P!RequestSeat, P!ConfirmSeat, P!DeclineOffer, P!ExpireOffer,
                             P!ReleaseOffer, P!ReleaseConfirmedSeat
  <2>2. QED BY <2>1, VersionsStutter
<1>4. CASE \E id \in ContractIds, parties \in Mentors \X Mentees, terms \in Terms :
             P!Publish(id, parties, terms)
  BY <1>4, PublishAppends
<1>5. QED BY <1>2, <1>3, <1>4, Zenon DEF P!Next

-----------------------------------------------------------------------------
(* Normalizing a week *)

TimeWindow == [weekday : Nat, start : Nat, end : Nat]
IsMerge(w, g) ==
    g = [s \in SUBSET (DOMAIN w) |->
           IF s = {} THEN <<>> ELSE L!MergeWindow(g[s \ {Top(s)}], w[Top(s)])]

LEMMA MergedType ==
  ASSUME NEW list \in Seq(TimeWindow), NEW w \in TimeWindow
  PROVE  L!MergeWindow(list, w) \in Seq(TimeWindow)
<1>1. CASE list # <<>>
  <2> DEFINE n == Len(list)
             r == list[n]
             e == IF w.end > r.end THEN w.end ELSE r.end
  <2>1. n \in 1..Len(list) /\ r \in TimeWindow
    BY <1>1
  <2>2. e \in Nat /\ [r EXCEPT !.end = e] \in TimeWindow
    BY <2>1 DEF TimeWindow
  <2>3. [list EXCEPT ![n] = [r EXCEPT !.end = e]] \in Seq(TimeWindow)
    BY <2>1, <2>2
  <2>4. Append(list, w) \in Seq(TimeWindow)
    OBVIOUS
  <2>5. QED BY <1>1, <2>3, <2>4 DEF L!MergeWindow
<1>2. CASE list = <<>>
  BY <1>2 DEF L!MergeWindow
<1>3. QED BY <1>1, <1>2

\* normalize_windows merges the windows one after another.
LEMMA MergeSteps ==
  ASSUME NEW w \in Seq(TimeWindow)
  PROVE  \E p : /\ p[0] = <<>>
                /\ \A i \in 1..Len(w) : p[i] = L!MergeWindow(p[i - 1], w[i])
                /\ L!NormalizeWindows(w) = p[Len(w)]
<1> DEFINE n == Len(w)
           V == Seq(TimeWindow)
           step == [x \in V \X (1..n) |-> L!MergeWindow(x[1], w[x[2]])]
<1>1. n \in Nat /\ DOMAIN w = 1..n /\ \A i \in 1..n : w[i] \in TimeWindow
  OBVIOUS
<1>2. step \in [V \X (1..n) -> V] /\ <<>> \in V
  BY <1>1, MergedType
<1>3. PICK g \in [SUBSET (1..n) -> V] : IsListFold(<<>>, step, n, g)
  <2> HIDE DEF n, V, step
  <2>1. QED BY <1>1, <1>2, FoldOverList
<1>4. IsMerge(w, g)
  <2>1. ASSUME NEW s \in SUBSET (1..n), s # {}
        PROVE  step[<<g[s \ {Top(s)}], Top(s)>>] = L!MergeWindow(g[s \ {Top(s)}], w[Top(s)])
    <3>1. Top(s) \in 1..n /\ g[s \ {Top(s)}] \in V
      BY <1>1, <2>1, TopIn
    <3>2. QED BY <3>1
  <2> HIDE DEF step
  <2>2. g = [s \in SUBSET (1..n) |->
               IF s = {} THEN <<>> ELSE L!MergeWindow(g[s \ {Top(s)}], w[Top(s)])]
    BY <1>3, <2>1 DEF IsListFold
  <2>3. QED BY <1>1, <2>2 DEF IsMerge
<1>5. PICK h : IsMerge(w, h) /\ L!NormalizeWindows(w) = h[1..n]
  <2>1. L!NormalizeWindows(w) = (CHOOSE h : IsMerge(w, h))[DOMAIN w]
    BY DEF L!NormalizeWindows, L!Seqs!FoldLeft, L!Seqs!MapThenFoldSet, L!Seqs!Max, IsMerge, Top
  <2>2. IsMerge(w, CHOOSE h : IsMerge(w, h))
    BY <1>4
  <2>3. QED BY <1>1, <2>1, <2>2
<1> DEFINE p == [i \in 0..n |-> h[1..i]]
<1>6. p[0] = <<>> /\ L!NormalizeWindows(w) = p[n]
  <2>1. 1..0 = {} /\ {} \in SUBSET (1..n) /\ 0 \in 0..n /\ n \in 0..n
    BY <1>1
  <2>2. h[{}] = <<>>
    BY <1>1, <1>5, <2>1 DEF IsMerge
  <2>3. QED BY <1>5, <2>1, <2>2
<1>7. ASSUME NEW i \in 1..n PROVE p[i] = L!MergeWindow(p[i - 1], w[i])
  <2>1. Top(1..i) = i /\ (1..i) \ {i} = 1..(i - 1) /\ 1..i # {} /\ 1..i \in SUBSET (1..n)
    BY <1>1, TopOfRange
  <2>2. h[1..i] = L!MergeWindow(h[1..(i - 1)], w[i])
    BY <1>1, <1>5, <2>1 DEF IsMerge
  <2>3. i \in 0..n /\ i - 1 \in 0..n
    BY <1>1
  <2>4. QED BY <2>2, <2>3
<1> HIDE DEF p
<1>8. QED BY <1>6, <1>7

Span(v) == {<<v.weekday, t>> : t \in v.start..(v.end - 1)}
HoursOf(f, D) == UNION {Span(f[i]) : i \in D}
Separate(v, w) ==
    v.weekday < w.weekday \/ (v.weekday = w.weekday /\ v.end < w.start)
\* A merged week: the windows are separate, and a window after the last may still come.
WeekApart(q) == \A i \in 2..Len(q) : Separate(q[i - 1], q[i])

LEMMA InOrderTransitive ==
  ASSUME NEW u \in TimeWindow, NEW v \in TimeWindow, NEW w \in TimeWindow,
         L!InOrder(u, v), L!InOrder(v, w)
  PROVE  L!InOrder(u, w)
BY DEF L!InOrder, TimeWindow

LEMMA MergedSpan ==
  ASSUME NEW v \in TimeWindow, NEW w \in TimeWindow, v.weekday = w.weekday,
         v.start <= w.start, w.start <= v.end,
         NEW u \in TimeWindow, u.weekday = v.weekday, u.start = v.start,
         u.end = IF w.end > v.end THEN w.end ELSE v.end
  PROVE  Span(u) = Span(v) \cup Span(w)
<1>1. /\ v.weekday \in Nat /\ v.start \in Nat /\ v.end \in Nat
      /\ w.start \in Nat /\ w.end \in Nat
  BY DEF TimeWindow
<1>2. u.start..(u.end - 1) = v.start..(v.end - 1) \cup w.start..(w.end - 1)
  BY <1>1
<1>3. QED BY <1>2 DEF Span

LEMMA MergeKeeps ==
  ASSUME NEW list \in Seq(TimeWindow), NEW w \in TimeWindow, WeekApart(list),
         list # <<>> => L!InOrder(list[Len(list)], w),
         NEW new, new = L!MergeWindow(list, w)
  PROVE  /\ new \in Seq(TimeWindow) /\ WeekApart(new)
         /\ new # <<>> /\ L!InOrder(new[Len(new)], w)
         /\ HoursOf(new, DOMAIN new) = HoursOf(list, DOMAIN list) \cup Span(w)
<1> DEFINE n == Len(list)
           last == list[n]
<1>1. new \in Seq(TimeWindow)
  BY MergedType
<1>2. w.weekday \in Nat /\ w.start \in Nat /\ w.end \in Nat
  BY DEF TimeWindow
<1>3. n \in Nat /\ DOMAIN list = 1..n /\ \A i \in 1..n : list[i] \in TimeWindow
  OBVIOUS
<1>4. CASE list # <<>> /\ last.weekday = w.weekday /\ w.start <= last.end
  <2> DEFINE e == IF w.end > last.end THEN w.end ELSE last.end
             u == [last EXCEPT !.end = e]
  <2>1. n > 0 /\ last \in TimeWindow
    BY <1>3, <1>4
  <2>2. new = [list EXCEPT ![n] = u]
    BY <1>4 DEF L!MergeWindow, L!Seqs!Last
  <2>3. /\ u \in TimeWindow /\ u.weekday = last.weekday /\ u.start = last.start
        /\ u.end = e
    BY <1>2, <2>1 DEF TimeWindow
  <2>4. last.weekday \in Nat /\ last.start \in Nat /\ last.end \in Nat
    BY <2>1 DEF TimeWindow
  <2>5. last.start <= w.start
    BY <1>2, <1>4, <2>4 DEF L!InOrder
  <2> HIDE DEF u
  <2>6. Span(u) = Span(last) \cup Span(w)
    <3>1. u.end = IF w.end > last.end THEN w.end ELSE last.end
      BY <2>3
    <3>2. last.weekday = w.weekday /\ w.start <= last.end
      BY <1>4
    <3> HIDE DEF last, e
    <3>3. QED BY <2>1, <2>3, <2>5, <3>1, <3>2, MergedSpan
  <2>7. Len(new) = n /\ DOMAIN new = 1..n /\ new[n] = u
        /\ \A i \in 1..n : i # n => new[i] = list[i]
    BY <1>3, <2>1, <2>2
  <2>8. L!InOrder(new[Len(new)], w)
    BY <1>4, <2>3, <2>5, <2>7 DEF L!InOrder
  <2>9. WeekApart(new)
    <3>1. ASSUME NEW i \in 2..n PROVE Separate(new[i - 1], new[i])
      <4>1. Separate(list[i - 1], list[i])
        BY <3>1 DEF WeekApart
      <4>2. new[i - 1] = list[i - 1] /\ new[i] = (IF i = n THEN u ELSE list[i])
        <5>1. i \in 1..n /\ i - 1 \in 1..n /\ i - 1 # n
          BY <1>3, <3>1
        <5> HIDE DEF n
        <5>2. QED BY <2>7, <5>1
      <4>3. QED BY <2>3, <4>1, <4>2 DEF Separate
    <3>2. QED BY <2>7, <3>1 DEF WeekApart
  <2>10. HoursOf(new, DOMAIN new) = HoursOf(list, DOMAIN list) \cup Span(w)
    <3>1. HoursOf(new, 1..n) \subseteq HoursOf(list, 1..n) \cup Span(w)
      <4>1. ASSUME NEW i \in 1..n PROVE Span(new[i]) \subseteq HoursOf(list, 1..n) \cup Span(w)
        <5>1. Span(list[i]) \subseteq HoursOf(list, 1..n)
          BY Zenon DEF HoursOf
        <5>2. CASE i = n
          BY <2>6, <2>7, <5>1, <5>2
        <5>3. CASE i # n
          BY <2>7, <5>1, <5>3
        <5>4. QED BY <5>2, <5>3
      <4>2. QED BY <4>1 DEF HoursOf
    <3>2. HoursOf(list, 1..n) \cup Span(w) \subseteq HoursOf(new, 1..n)
      <4>1. ASSUME NEW i \in 1..n PROVE Span(list[i]) \subseteq HoursOf(new, 1..n)
        <5>1. Span(new[i]) \subseteq HoursOf(new, 1..n)
          BY Zenon DEF HoursOf
        <5>2. QED BY <2>6, <2>7, <5>1
      <4>2. Span(w) \subseteq HoursOf(new, 1..n)
        <5>1. n \in 1..n
          BY <1>3, <2>1
        <5>2. Span(new[n]) \subseteq HoursOf(new, 1..n)
          BY <5>1, Zenon DEF HoursOf
        <5>3. QED BY <2>6, <2>7, <5>2
      <4>3. QED BY <4>1, <4>2 DEF HoursOf
    <3>3. QED BY <1>3, <2>7, <3>1, <3>2
  <2>11. new # <<>>
    <3> HIDE DEF n
    <3>1. n \in DOMAIN new
      <4>1. DOMAIN new = 1..n /\ n \in 1..n
        BY <1>3, <2>1, <2>7
      <4>2. QED BY <4>1
    <3>2. QED BY <3>1
  <2>12. QED BY <1>1, <2>8, <2>9, <2>10, <2>11
<1>5. CASE ~(list # <<>> /\ last.weekday = w.weekday /\ w.start <= last.end)
  <2>1. new = Append(list, w)
    BY <1>5 DEF L!MergeWindow, L!Seqs!Last
  <2>2. /\ Len(new) = n + 1 /\ DOMAIN new = 1..(n + 1) /\ new[n + 1] = w
        /\ \A i \in 1..n : new[i] = list[i]
    BY <1>3, <2>1
  <2>3. L!InOrder(new[Len(new)], w)
    BY <1>2, <2>2 DEF L!InOrder
  <2>4. WeekApart(new)
    <3>1. ASSUME NEW i \in 2..(n + 1) PROVE Separate(new[i - 1], new[i])
      <4>1. CASE i = n + 1
        <5>1. n > 0 /\ list # <<>> /\ last \in TimeWindow
          BY <1>3, <3>1, <4>1
        <5>2. last.weekday \in Nat /\ last.end \in Nat
          BY <5>1 DEF TimeWindow
        <5>3. Separate(last, w)
          BY <1>2, <1>5, <5>1, <5>2 DEF L!InOrder, Separate
        <5>4. new[i - 1] = last /\ new[i] = w
          BY <1>3, <2>2, <4>1, <5>1
        <5>5. QED BY <5>3, <5>4
      <4>2. CASE i # n + 1
        <5>1. i \in 2..n
          BY <1>3, <3>1, <4>2
        <5>2. Separate(list[i - 1], list[i])
          BY <5>1 DEF WeekApart
        <5>3. QED BY <2>2, <5>1, <5>2
      <4>3. QED BY <4>1, <4>2
    <3>2. QED BY <2>2, <3>1 DEF WeekApart
  <2>5. HoursOf(new, DOMAIN new) = HoursOf(list, DOMAIN list) \cup Span(w)
    <3>1. 1..(n + 1) = 1..n \cup {n + 1}
      BY <1>3
    <3>2. HoursOf(new, 1..(n + 1)) = HoursOf(new, 1..n) \cup Span(new[n + 1])
      BY <3>1 DEF HoursOf
    <3>3. HoursOf(new, 1..n) = HoursOf(list, 1..n)
      BY <2>2 DEF HoursOf
    <3>4. QED BY <1>3, <2>2, <3>2, <3>3
  <2>6. new # <<>>
    BY <1>3, <2>2
  <2>7. QED BY <1>1, <2>3, <2>4, <2>5, <2>6
<1>6. QED BY <1>4, <1>5

LEMMA NormalizedWeek ==
  ASSUME NEW w \in Seq(TimeWindow), L!ValidWindows(w)
  PROVE  /\ WeekApart(L!NormalizeWindows(w))
         /\ L!Hours(L!NormalizeWindows(w)) = L!Hours(w)
<1> DEFINE n == Len(w)
<1>1. n \in Nat /\ DOMAIN w = 1..n /\ \A i \in 1..n : w[i] \in TimeWindow
  OBVIOUS
<1>2. \A i \in 2..n : L!InOrder(w[i - 1], w[i])
  BY DEF L!ValidWindows
<1>3. PICK p : /\ p[0] = <<>>
               /\ \A i \in 1..n : p[i] = L!MergeWindow(p[i - 1], w[i])
               /\ L!NormalizeWindows(w) = p[n]
  BY MergeSteps
<1> DEFINE Good(i) == /\ p[i] \in Seq(TimeWindow) /\ WeekApart(p[i])
                      /\ i > 0 /\ p[i] # <<>> => L!InOrder(p[i][Len(p[i])], w[i])
                      /\ HoursOf(p[i], DOMAIN p[i]) = HoursOf(w, 1..i)
           T == {i \in Nat : i <= n => Good(i)}
<1>4. 0 \in T
  <2>1. p[0] = <<>> /\ 1..0 = {}
    BY <1>3
  <2>2. WeekApart(<<>>) /\ HoursOf(<<>>, DOMAIN <<>>) = HoursOf(w, {})
    BY DEF WeekApart, HoursOf
  <2>3. p[0] \in Seq(TimeWindow) /\ ~(0 > 0)
    BY <2>1
  <2>4. Good(0)
    BY <2>1, <2>2, <2>3
  <2> HIDE DEF Good
  <2>5. QED BY <2>4
<1>5. ASSUME NEW i \in Nat, i \in T PROVE i + 1 \in T
  <2>1. SUFFICES ASSUME i + 1 <= n PROVE Good(i + 1)
    OBVIOUS
  <2>2. i <= n /\ i + 1 \in 1..n /\ Good(i)
    BY <1>1, <1>5, <2>1
  <2>3. p[i + 1] = L!MergeWindow(p[i], w[i + 1])
    <3>1. p[i + 1] = L!MergeWindow(p[(i + 1) - 1], w[i + 1])
      BY <1>3, <2>2
    <3>2. (i + 1) - 1 = i
      OBVIOUS
    <3>3. QED BY <3>1, <3>2
  <2>4. w[i + 1] \in TimeWindow
    BY <1>1, <2>2
  <2>5. ASSUME p[i] # <<>> PROVE L!InOrder(p[i][Len(p[i])], w[i + 1])
    <3>1. i > 0
      BY <1>3, <2>5
    <3>2. L!InOrder(w[i], w[i + 1]) /\ w[i] \in TimeWindow
      BY <1>1, <1>2, <2>2, <3>1
    <3>3. L!InOrder(p[i][Len(p[i])], w[i]) /\ p[i][Len(p[i])] \in TimeWindow
      BY <2>2, <2>5, <3>1
    <3>4. QED BY <2>4, <3>2, <3>3, InOrderTransitive
  <2>6. /\ p[i + 1] \in Seq(TimeWindow) /\ WeekApart(p[i + 1])
        /\ p[i + 1] # <<>> /\ L!InOrder(p[i + 1][Len(p[i + 1])], w[i + 1])
        /\ HoursOf(p[i + 1], DOMAIN p[i + 1]) = HoursOf(p[i], DOMAIN p[i]) \cup Span(w[i + 1])
    BY <2>2, <2>3, <2>4, <2>5, MergeKeeps
  <2>7. HoursOf(w, 1..(i + 1)) = HoursOf(w, 1..i) \cup Span(w[i + 1])
    <3>1. 1..(i + 1) = 1..i \cup {i + 1}
      OBVIOUS
    <3>2. QED BY <3>1 DEF HoursOf
  <2>8. QED BY <2>2, <2>6, <2>7
<1>6. n \in T
  <2> HIDE DEF T
  <2>1. QED BY <1>1, <1>4, <1>5, NatSetInduction
<1>7. \A q : L!Hours(q) = HoursOf(q, DOMAIN q)
  BY DEF L!Hours, HoursOf, Span
<1>8. QED BY <1>1, <1>3, <1>6, <1>7

-----------------------------------------------------------------------------
(* Normalizing an imported calendar *)

Pair == Nat \X Nat
IsSort(w, g) ==
    g = [s \in SUBSET (DOMAIN [i \in DOMAIN w |-> i]) |->
           IF s = {} THEN w
           ELSE K!SwapLeast(g[s \ {Top(s)}], [i \in DOMAIN w |-> i][Top(s)])]

\* Lists of n windows.
Lists(n) == {q \in Seq(Pair) : Len(q) = n}

LEMMA FirstEarliestExists ==
  ASSUME NEW n \in Nat, NEW q \in Lists(n), NEW i \in 1..n
  PROVE  /\ K!FirstEarliest(q, i) \in i..n
         /\ \A k \in i..n : q[K!FirstEarliest(q, i)][1] <= q[k][1]
<1>1. /\ Len(q) = n /\ DOMAIN q = 1..n
      /\ \A k \in 1..n : q[k] \in Pair /\ q[k][1] \in Nat /\ q[k][2] \in Nat
  BY DEF Lists, Pair
<1> DEFINE E == {q[k][1] : k \in i..n}
<1>2. PICK m \in E : \A x \in E : m <= x
  <2>1. \A k \in i..n : k \in 1..n
    OBVIOUS
  <2>2. E \subseteq Nat
    BY <1>1, <2>1
  <2>3. i \in i..n
    OBVIOUS
  <2>4. E # {}
    BY <2>3
  <2> HIDE DEF E
  <2>5. QED BY <2>2, <2>4, NatLeast
<1> DEFINE J == {k \in i..n : q[k][1] = m}
<1>3. PICK j \in J : \A k \in J : j <= k
  <2>1. J \subseteq Nat /\ J # {}
    BY <1>2
  <2> HIDE DEF J
  <2>2. QED BY <2>1, NatLeast
<1>4. j \in i..n /\ q[j][1] = m /\ \A k \in i..n : m <= q[k][1]
  BY <1>2, <1>3
<1>5. \A k \in i..(j - 1) : q[j][1] < q[k][1]
  <2>1. ASSUME NEW k \in i..(j - 1) PROVE m < q[k][1]
    <3>1. k \in i..n /\ k \in 1..n /\ k < j
      BY <1>4
    <3>2. k \notin J
      BY <1>3, <1>4, <3>1
    <3>3. q[k][1] # m /\ m <= q[k][1]
      BY <1>4, <3>1, <3>2
    <3>4. q[k][1] \in Nat /\ m \in Nat
      BY <1>1, <1>4, <3>1
    <3>5. QED BY ONLY <3>3, <3>4
  <2>2. QED BY <1>4, <2>1
<1>6. \E x \in i..Len(q) : /\ \A k \in i..Len(q) : q[x][1] <= q[k][1]
                           /\ \A k \in i..(x - 1) : q[x][1] < q[k][1]
  BY <1>1, <1>4, <1>5
<1>7. QED BY <1>1, <1>6, Zenon DEF K!FirstEarliest

\* r is q with the window of place i swapped with the earliest from there on.
Swapped(q, r, i, n) ==
    \E j \in i..n : /\ r[i] = q[j] /\ r[j] = q[i]
                    /\ \A k \in 1..n : k # i /\ k # j => r[k] = q[k]
                    /\ \A k \in i..n : q[j][1] <= q[k][1]

LEMMA SwapKeeps ==
  ASSUME NEW n \in Nat, NEW q \in Lists(n), NEW i \in 1..n, NEW r, r = K!SwapLeast(q, i)
  PROVE  r \in Lists(n) /\ Swapped(q, r, i, n)
<1> DEFINE j == K!FirstEarliest(q, i)
<1>1. j \in i..n /\ \A k \in i..n : q[j][1] <= q[k][1]
  BY FirstEarliestExists
<1>2. r = [q EXCEPT ![i] = q[j], ![j] = q[i]]
  BY DEF K!SwapLeast
<1> HIDE DEF j
<1>3. Len(q) = n /\ q \in Seq(Pair) /\ DOMAIN q = 1..n /\ \A k \in 1..n : q[k] \in Pair
  BY DEF Lists
<1>4. j \in 1..n
  BY <1>1
<1>5. r \in Lists(n)
  BY <1>2, <1>3, <1>4 DEF Lists
<1>6. /\ r[i] = q[j] /\ r[j] = q[i]
      /\ \A k \in 1..n : k # i /\ k # j => r[k] = q[k]
  BY <1>2, <1>3, <1>4
<1>7. QED BY <1>1, <1>5, <1>6 DEF Swapped

\* The selection sort swaps place after place.
LEMMA SortSteps ==
  ASSUME NEW w \in Seq(Pair)
  PROVE  \E p : /\ p[0] = w
                /\ \A i \in 1..Len(w) : p[i] = K!SwapLeast(p[i - 1], i)
                /\ K!ByStart(w) = p[Len(w)]
<1> DEFINE n == Len(w)
           V == Lists(n)
           step == [x \in V \X (1..n) |-> K!SwapLeast(x[1], x[2])]
<1>1. n \in Nat /\ DOMAIN w = 1..n
  OBVIOUS
<1>2. step \in [V \X (1..n) -> V] /\ w \in V
  <2>1. w \in V
    BY DEF Lists
  <2> HIDE DEF V
  <2>2. \A x \in V \X (1..n) : x[1] \in V /\ x[2] \in 1..n
    OBVIOUS
  <2>3. \A q \in V, i \in 1..n : K!SwapLeast(q, i) \in V
    BY <1>1, SwapKeeps DEF V
  <2> HIDE DEF n
  <2>4. \A x \in V \X (1..n) : K!SwapLeast(x[1], x[2]) \in V
    BY <2>2, <2>3
  <2>5. QED BY <2>1, <2>4
<1>3. PICK g \in [SUBSET (1..n) -> V] : IsListFold(w, step, n, g)
  <2> HIDE DEF n, V, step
  <2>1. QED BY <1>1, <1>2, FoldOverList
<1>4. IsSort(w, g)
  <2>1. ASSUME NEW s \in SUBSET (1..n), s # {}
        PROVE  step[<<g[s \ {Top(s)}], Top(s)>>] =
                 K!SwapLeast(g[s \ {Top(s)}], [i \in DOMAIN w |-> i][Top(s)])
    <3>1. Top(s) \in 1..n /\ g[s \ {Top(s)}] \in V
      BY <1>1, <2>1, TopIn
    <3>2. [i \in DOMAIN w |-> i][Top(s)] = Top(s)
      BY <1>1, <3>1
    <3> HIDE DEF V
    <3>3. QED BY <3>1, <3>2
  <2> HIDE DEF step, V
  <2>2. DOMAIN [i \in DOMAIN w |-> i] = 1..n
    BY <1>1
  <2>3. g = [s \in SUBSET (1..n) |->
               IF s = {} THEN w
               ELSE K!SwapLeast(g[s \ {Top(s)}], [i \in DOMAIN w |-> i][Top(s)])]
    BY <1>3, <2>1 DEF IsListFold
  <2>4. QED BY <2>2, <2>3 DEF IsSort
<1>5. PICK h : IsSort(w, h) /\ K!ByStart(w) = h[1..n]
  <2>1. K!ByStart(w) = (CHOOSE h : IsSort(w, h))[DOMAIN [i \in DOMAIN w |-> i]]
    BY DEF K!ByStart, K!Seqs!FoldLeftDomain, K!Seqs!FoldLeft, K!Seqs!MapThenFoldSet,
           K!Seqs!Max, IsSort, Top
  <2>2. IsSort(w, CHOOSE h : IsSort(w, h))
    BY <1>4
  <2>3. DOMAIN [i \in DOMAIN w |-> i] = 1..n
    BY <1>1
  <2>4. QED BY <2>1, <2>2, <2>3
<1> DEFINE p == [i \in 0..n |-> h[1..i]]
<1>6. h = [s \in SUBSET (1..n) |->
             IF s = {} THEN w
             ELSE K!SwapLeast(h[s \ {Top(s)}], [i \in DOMAIN w |-> i][Top(s)])]
  <2>1. DOMAIN [i \in DOMAIN w |-> i] = 1..n
    BY <1>1
  <2>2. QED BY <1>5, <2>1 DEF IsSort
<1>7. p[0] = w /\ K!ByStart(w) = p[n]
  <2>1. 1..0 = {} /\ {} \in SUBSET (1..n) /\ 0 \in 0..n /\ n \in 0..n
    BY <1>1
  <2>2. h[{}] = w
    BY <1>6, <2>1
  <2>3. QED BY <1>5, <2>1, <2>2
<1>8. ASSUME NEW i \in 1..n PROVE p[i] = K!SwapLeast(p[i - 1], i)
  <2>1. Top(1..i) = i /\ (1..i) \ {i} = 1..(i - 1) /\ 1..i # {} /\ 1..i \in SUBSET (1..n)
    BY <1>1, TopOfRange
  <2>2. [k \in DOMAIN w |-> k][i] = i
    BY <1>1
  <2>3. h[1..i] = K!SwapLeast(h[1..(i - 1)], i)
    BY <1>6, <2>1, <2>2
  <2>4. i \in 0..n /\ i - 1 \in 0..n
    BY <1>1
  <2>5. QED BY <2>3, <2>4
<1> HIDE DEF p
<1>9. QED BY <1>7, <1>8

Members(q, D) == {q[k] : k \in D}

LEMMA SameMembers ==
  ASSUME NEW n, NEW q, NEW r, \A k \in 1..n : \E l \in 1..n : r[k] = q[l],
         \A k \in 1..n : \E l \in 1..n : q[k] = r[l]
  PROVE  Members(r, 1..n) = Members(q, 1..n)
<1>1. ASSUME NEW x \in Members(r, 1..n) PROVE x \in Members(q, 1..n)
  <2>1. PICK k \in 1..n : x = r[k]
    BY DEF Members
  <2>2. PICK l \in 1..n : x = q[l]
    BY <2>1
  <2>3. QED BY <2>2 DEF Members
<1>2. ASSUME NEW x \in Members(q, 1..n) PROVE x \in Members(r, 1..n)
  <2>1. PICK k \in 1..n : x = q[k]
    BY DEF Members
  <2>2. PICK l \in 1..n : x = r[l]
    BY <2>1
  <2>3. QED BY <2>2 DEF Members
<1>3. QED BY <1>1, <1>2

LEMMA SortedWindows ==
  ASSUME NEW w \in Seq(Pair), NEW n \in Nat, n = Len(w)
  PROVE  /\ K!ByStart(w) \in Lists(n)
         /\ Members(K!ByStart(w), 1..n) = Members(w, 1..n)
         /\ \A a \in 1..n : \A b \in a..n : K!ByStart(w)[a][1] <= K!ByStart(w)[b][1]
<1>1. PICK p : /\ p[0] = w
               /\ \A i \in 1..n : p[i] = K!SwapLeast(p[i - 1], i)
               /\ K!ByStart(w) = p[n]
  BY SortSteps
<1> DEFINE Good(i) == /\ p[i] \in Lists(n)
                      /\ Members(p[i], 1..n) = Members(w, 1..n)
                      /\ \A a \in 1..i : \A b \in a..n : p[i][a][1] <= p[i][b][1]
           Done == {i \in Nat : i <= n => Good(i)}
<1>2. 0 \in Done
  BY <1>1 DEF Lists
<1>3. ASSUME NEW i \in Nat, i \in Done PROVE i + 1 \in Done
  <2>1. SUFFICES ASSUME i + 1 <= n PROVE Good(i + 1)
    OBVIOUS
  <2>2. i + 1 \in 1..n /\ i \in 0..n /\ Good(i)
    BY <1>3, <2>1
  <2> DEFINE q == p[i]
             r == p[i + 1]
             m == i + 1
  <2>3. r = K!SwapLeast(q, m)
    <3>1. p[i + 1] = K!SwapLeast(p[(i + 1) - 1], i + 1)
      BY <1>1, <2>2
    <3>2. (i + 1) - 1 = i
      OBVIOUS
    <3>3. QED BY <3>1, <3>2
  <2>4. /\ q \in Lists(n) /\ Members(q, 1..n) = Members(w, 1..n)
        /\ \A a \in 1..i : \A b \in a..n : q[a][1] <= q[b][1]
    BY <2>2
  <2>5. m \in 1..n /\ m = i + 1
    BY <2>2
  <2> HIDE DEF q, r, m
  <2>6. r \in Lists(n)
    BY <2>3, <2>4, <2>5, SwapKeeps
  <2>7. PICK j \in m..n : /\ r[m] = q[j] /\ r[j] = q[m]
                          /\ \A k \in 1..n : k # m /\ k # j => r[k] = q[k]
                          /\ \A k \in m..n : q[j][1] <= q[k][1]
    <3>1. Swapped(q, r, m, n)
      BY <2>3, <2>4, <2>5, SwapKeeps
    <3>2. QED BY <3>1 DEF Swapped
  <2>8. j \in 1..n
    BY <2>5
  <2>9. Members(r, 1..n) = Members(q, 1..n)
    <3>1. \A k \in 1..n : \E l \in 1..n : r[k] = q[l]
      BY <2>5, <2>7, <2>8
    <3>2. \A k \in 1..n : \E l \in 1..n : q[k] = r[l]
      BY <2>5, <2>7, <2>8
    <3>3. QED BY <3>1, <3>2, SameMembers
  <2>10. \A b \in m..n : \E c \in m..n : r[b] = q[c]
    <3>1. ASSUME NEW b \in m..n PROVE \E c \in m..n : r[b] = q[c]
      <4>1. m \in m..n /\ b \in 1..n
        BY <2>5
      <4>2. QED BY <2>7, <4>1
    <3>2. QED BY <3>1
  <2>11. ASSUME NEW a \in 1..m, NEW b \in a..n PROVE r[a][1] <= r[b][1]
    <3>1. CASE a = m
      <4>1. PICK c \in m..n : r[b] = q[c]
        BY <2>10, <3>1
      <4>2. QED BY <2>7, <3>1, <4>1
    <3>2. CASE a # m
      <4>1. a \in 1..i /\ a \in 1..n /\ a # j /\ r[a] = q[a]
        BY <2>5, <2>7, <3>2
      <4>2. CASE b \in m..n
        <5>1. PICK c \in m..n : r[b] = q[c]
          BY <2>10, <4>2
        <5>2. c \in a..n
          BY <2>5, <3>2
        <5>3. QED BY <2>4, <4>1, <5>1, <5>2
      <4>3. CASE b \notin m..n
        <5>1. b \in 1..n /\ b # m /\ b # j
          BY <2>5, <4>3
        <5>2. r[b] = q[b]
          BY <2>7, <5>1
        <5>3. QED BY <2>4, <4>1, <5>2
      <4>4. QED BY <4>2, <4>3
    <3>3. QED BY <3>1, <3>2
  <2>12. QED BY <2>4, <2>5, <2>6, <2>9, <2>11 DEF q, r, m
<1>4. n \in Done
  <2> HIDE DEF Done
  <2>1. QED BY <1>2, <1>3, NatSetInduction
<1>5. QED BY <1>1, <1>4

IsBusyMerge(w, g) ==
    g = [s \in SUBSET (DOMAIN w) |->
           IF s = {} THEN <<>> ELSE K!MergeBusy(g[s \ {Top(s)}], w[Top(s)])]

Units(v) == v[1]..(v[2] - 1)
UnitsOf(f, D) == UNION {Units(f[i]) : i \in D}
BusyApart(q) == \A i \in 2..Len(q) : q[i - 1][2] < q[i][1]
Greater(a, b) == IF a > b THEN a ELSE b

\* What a window does to a list: the last window grows, or it is appended.
Grown(list, w, new, n) ==
    /\ n > 0 /\ w[1] <= list[n][2]
    /\ new \in Seq(Pair) /\ Len(new) = n
    /\ new[n] = <<list[n][1], Greater(w[2], list[n][2])>>
    /\ \A i \in 1..n : i # n => new[i] = list[i]
Appended(list, w, new, n) ==
    /\ n > 0 => ~(w[1] <= list[n][2])
    /\ new \in Seq(Pair) /\ Len(new) = n + 1 /\ new[n + 1] = w
    /\ \A i \in 1..n : new[i] = list[i]

LEMMA MergeBusyCases ==
  ASSUME NEW list \in Seq(Pair), NEW w \in Pair, NEW n, n = Len(list),
         NEW new, new = K!MergeBusy(list, w)
  PROVE  /\ n \in Nat /\ DOMAIN list = 1..n /\ \A i \in 1..n : list[i] \in Pair
         /\ Grown(list, w, new, n) \/ Appended(list, w, new, n)
<1>1. n \in Nat /\ DOMAIN list = 1..n /\ \A i \in 1..n : list[i] \in Pair
  OBVIOUS
<1>2. CASE list # <<>> /\ w[1] <= list[n][2]
  <2>1. n > 0 /\ n \in 1..n /\ list[n] \in Pair
    BY <1>1, <1>2
  <2>2. new = [list EXCEPT ![n] = [list[n] EXCEPT ![2] = Greater(w[2], list[n][2])]]
    BY <1>2 DEF K!MergeBusy, K!Seqs!Last, Greater
  <2>3. [list[n] EXCEPT ![2] = Greater(w[2], list[n][2])] =
           <<list[n][1], Greater(w[2], list[n][2])>>
    BY <2>1 DEF Pair
  <2>4. Greater(w[2], list[n][2]) \in Nat /\ list[n][1] \in Nat
    BY <2>1 DEF Pair, Greater
  <2> DEFINE u == <<list[n][1], Greater(w[2], list[n][2])>>
  <2>5. u \in Pair
    BY <2>4 DEF Pair
  <2>6. new = [list EXCEPT ![n] = u]
    BY <2>2, <2>3
  <2> HIDE DEF u
  <2>7. /\ new \in Seq(Pair) /\ Len(new) = n /\ new[n] = u
        /\ \A i \in 1..n : i # n => new[i] = list[i]
    BY <1>1, <2>1, <2>5, <2>6
  <2>8. QED BY <1>1, <1>2, <2>1, <2>7 DEF u, Grown
<1>3. CASE ~(list # <<>> /\ w[1] <= list[n][2])
  <2>1. new = Append(list, w)
    BY <1>3 DEF K!MergeBusy, K!Seqs!Last
  <2>2. /\ new \in Seq(Pair) /\ Len(new) = n + 1 /\ new[n + 1] = w
        /\ \A i \in 1..n : new[i] = list[i]
    BY <1>1, <2>1
  <2>3. n > 0 => list # <<>>
    BY <1>1
  <2>4. QED BY <1>1, <1>3, <2>2, <2>3 DEF Appended
<1>4. QED BY <1>2, <1>3

LEMMA MergeBusyKeeps ==
  ASSUME NEW list \in Seq(Pair), NEW w \in Pair, BusyApart(list),
         list # <<>> => list[Len(list)][1] <= w[1],
         NEW new, new = K!MergeBusy(list, w)
  PROVE  /\ new \in Seq(Pair) /\ BusyApart(new)
         /\ new # <<>> /\ new[Len(new)][1] <= w[1]
         /\ UnitsOf(new, DOMAIN new) = UnitsOf(list, DOMAIN list) \cup Units(w)
<1>1. PICK n : n = Len(list)
  OBVIOUS
<1>2. n \in Nat /\ DOMAIN list = 1..n /\ \A i \in 1..n : list[i] \in Pair
  BY <1>1, MergeBusyCases
<1>3. w[1] \in Nat /\ w[2] \in Nat
  BY DEF Pair
<1>4. CASE Grown(list, w, new, n)
  <2>0. /\ n > 0 /\ w[1] <= list[n][2]
        /\ new \in Seq(Pair) /\ Len(new) = n
        /\ new[n] = <<list[n][1], Greater(w[2], list[n][2])>>
        /\ \A i \in 1..n : i # n => new[i] = list[i]
    BY <1>4 DEF Grown
  <2>1. n \in 1..n /\ list[n] \in Pair /\ list[n][1] \in Nat /\ list[n][2] \in Nat
    BY <1>2, <2>0 DEF Pair
  <2>2. list # <<>> /\ list[n][1] <= w[1]
    BY <1>1, <2>0, <2>1
  <2>3. new[n][1] = list[n][1] /\ new[n][2] = Greater(w[2], list[n][2])
    BY <2>0
  <2>4. Units(new[n]) = Units(list[n]) \cup Units(w)
    <3> DEFINE a == list[n][1]
               b == list[n][2]
    <3>1. a \in Nat /\ b \in Nat /\ a <= w[1] /\ w[1] <= b
      BY <2>0, <2>1, <2>2
    <3> HIDE DEF a, b
    <3>2. a..(Greater(w[2], b) - 1) = a..(b - 1) \cup w[1]..(w[2] - 1)
      BY <1>3, <3>1 DEF Greater
    <3>3. QED BY <2>3, <3>2 DEF Units, a, b
  <2>5. DOMAIN new = 1..n
    BY <2>0
  <2>6. BusyApart(new)
    <3>1. ASSUME NEW i \in 2..n PROVE new[i - 1][2] < new[i][1]
      <4>1. list[i - 1][2] < list[i][1]
        BY <1>1, <3>1 DEF BusyApart
      <4>2. i \in 1..n /\ i - 1 \in 1..n /\ i - 1 # n
        BY <1>2, <3>1
      <4>3. new[i - 1] = list[i - 1] /\ new[i][1] = list[i][1]
        BY <2>0, <2>3, <4>2
      <4>4. QED BY <4>1, <4>3
    <3>2. QED BY <2>0, <3>1 DEF BusyApart
  <2>7. UnitsOf(new, 1..n) = UnitsOf(list, 1..n) \cup Units(w)
    <3>1. \A i \in 1..n : Units(new[i]) \subseteq UnitsOf(list, 1..n) \cup Units(w)
      <4>1. ASSUME NEW i \in 1..n PROVE Units(new[i]) \subseteq Units(list[i]) \cup Units(w)
        <5>1. CASE i = n
          BY <2>4, <5>1
        <5>2. CASE i # n
          BY <2>0, <5>2
        <5>3. QED BY <5>1, <5>2
      <4>2. \A i \in 1..n : Units(list[i]) \subseteq UnitsOf(list, 1..n)
        BY Zenon DEF UnitsOf
      <4>3. QED BY <4>1, <4>2
    <3>2. \A i \in 1..n : Units(list[i]) \subseteq UnitsOf(new, 1..n)
      <4>1. ASSUME NEW i \in 1..n PROVE Units(list[i]) \subseteq Units(new[i])
        <5>1. CASE i = n
          BY <2>4, <5>1
        <5>2. CASE i # n
          BY <2>0, <5>2
        <5>3. QED BY <5>1, <5>2
      <4>2. \A i \in 1..n : Units(new[i]) \subseteq UnitsOf(new, 1..n)
        BY Zenon DEF UnitsOf
      <4>3. QED BY <4>1, <4>2
    <3>3. Units(w) \subseteq UnitsOf(new, 1..n)
      <4>1. Units(new[n]) \subseteq UnitsOf(new, 1..n)
        BY <2>1, Zenon DEF UnitsOf
      <4>2. QED BY <2>4, <4>1
    <3>4. UnitsOf(new, 1..n) \subseteq UnitsOf(list, 1..n) \cup Units(w)
      BY <3>1 DEF UnitsOf
    <3>5. UnitsOf(list, 1..n) \subseteq UnitsOf(new, 1..n)
      BY <3>2 DEF UnitsOf
    <3>6. QED BY <3>3, <3>4, <3>5
  <2>8. new # <<>>
    BY <2>0
  <2>9. QED BY <1>2, <2>0, <2>2, <2>3, <2>5, <2>6, <2>7, <2>8
<1>5. CASE Appended(list, w, new, n)
  <2>0. /\ n > 0 => ~(w[1] <= list[n][2])
        /\ new \in Seq(Pair) /\ Len(new) = n + 1 /\ new[n + 1] = w
        /\ \A i \in 1..n : new[i] = list[i]
    BY <1>5 DEF Appended
  <2>1. DOMAIN new = 1..(n + 1)
    BY <2>0
  <2>2. BusyApart(new)
    <3>1. ASSUME NEW i \in 2..(n + 1) PROVE new[i - 1][2] < new[i][1]
      <4>1. CASE i = n + 1
        <5>1. n > 0 /\ n \in 1..n /\ i - 1 = n
          BY <1>2, <3>1, <4>1
        <5>2. list[n] \in Pair /\ list[n][2] \in Nat
          BY <1>2, <5>1 DEF Pair
        <5>3. new[i - 1] = list[n] /\ new[i] = w
          BY <2>0, <4>1, <5>1
        <5>4. QED BY <1>3, <2>0, <5>1, <5>2, <5>3
      <4>2. CASE i # n + 1
        <5>1. i \in 2..n /\ i \in 1..n /\ i - 1 \in 1..n
          BY <1>2, <3>1, <4>2
        <5>2. list[i - 1][2] < list[i][1]
          BY <1>1, <5>1 DEF BusyApart
        <5>3. QED BY <2>0, <5>1, <5>2
      <4>3. QED BY <4>1, <4>2
    <3>2. QED BY <2>0, <3>1 DEF BusyApart
  <2>3. UnitsOf(new, 1..(n + 1)) = UnitsOf(list, 1..n) \cup Units(w)
    <3>1. 1..(n + 1) = 1..n \cup {n + 1}
      BY <1>2
    <3>2. UnitsOf(new, 1..(n + 1)) = UnitsOf(new, 1..n) \cup Units(new[n + 1])
      BY <3>1 DEF UnitsOf
    <3>3. UnitsOf(new, 1..n) = UnitsOf(list, 1..n)
      BY <2>0 DEF UnitsOf
    <3>4. QED BY <2>0, <3>2, <3>3
  <2>4. new # <<>> /\ new[Len(new)][1] <= w[1]
    BY <1>2, <1>3, <2>0
  <2>5. QED BY <1>2, <2>0, <2>1, <2>2, <2>3, <2>4
<1>6. Grown(list, w, new, n) \/ Appended(list, w, new, n)
  BY <1>1, MergeBusyCases
<1>7. QED BY <1>4, <1>5, <1>6

\* normalize merges the sorted windows one after another.
LEMMA BusySteps ==
  ASSUME NEW w \in Seq(Pair), NEW n, n = Len(w)
  PROVE  \E p : /\ p[0] = <<>>
                /\ \A i \in 1..n : p[i] = K!MergeBusy(p[i - 1], w[i])
                /\ K!Seqs!FoldLeft(K!MergeBusy, <<>>, w) = p[n]
<1> DEFINE V == Seq(Pair)
           step == [x \in V \X (1..n) |-> K!MergeBusy(x[1], w[x[2]])]
<1>1. n \in Nat /\ DOMAIN w = 1..n /\ \A i \in 1..n : w[i] \in Pair
  OBVIOUS
<1>2. step \in [V \X (1..n) -> V] /\ <<>> \in V
  <2>1. \A q \in V, v \in Pair : K!MergeBusy(q, v) \in V
    <3>1. ASSUME NEW q \in V, NEW v \in Pair PROVE K!MergeBusy(q, v) \in V
      <4>1. PICK m, r : m = Len(q) /\ r = K!MergeBusy(q, v)
        OBVIOUS
      <4>2. Grown(q, v, r, m) \/ Appended(q, v, r, m)
        BY <4>1, MergeBusyCases
      <4>3. QED BY <4>1, <4>2 DEF Grown, Appended
    <3>2. QED BY <3>1
  <2>2. QED BY <1>1, <2>1
<1>3. PICK g \in [SUBSET (1..n) -> V] : IsListFold(<<>>, step, n, g)
  <2> HIDE DEF V, step
  <2>1. QED BY <1>1, <1>2, FoldOverList
<1>4. IsBusyMerge(w, g)
  <2>1. ASSUME NEW s \in SUBSET (1..n), s # {}
        PROVE  step[<<g[s \ {Top(s)}], Top(s)>>] = K!MergeBusy(g[s \ {Top(s)}], w[Top(s)])
    <3>1. Top(s) \in 1..n /\ g[s \ {Top(s)}] \in V
      BY <1>1, <2>1, TopIn
    <3>2. QED BY <3>1
  <2> HIDE DEF step
  <2>2. g = [s \in SUBSET (1..n) |->
               IF s = {} THEN <<>> ELSE K!MergeBusy(g[s \ {Top(s)}], w[Top(s)])]
    BY <1>3, <2>1 DEF IsListFold
  <2>3. QED BY <1>1, <2>2 DEF IsBusyMerge
<1>5. PICK h : IsBusyMerge(w, h) /\ K!Seqs!FoldLeft(K!MergeBusy, <<>>, w) = h[1..n]
  <2>1. K!Seqs!FoldLeft(K!MergeBusy, <<>>, w) = (CHOOSE h : IsBusyMerge(w, h))[DOMAIN w]
    BY DEF K!Seqs!FoldLeft, K!Seqs!MapThenFoldSet, K!Seqs!Max, IsBusyMerge, Top
  <2>2. IsBusyMerge(w, CHOOSE h : IsBusyMerge(w, h))
    BY <1>4
  <2>3. QED BY <1>1, <2>1, <2>2
<1> DEFINE p == [i \in 0..n |-> h[1..i]]
<1>6. p[0] = <<>> /\ K!Seqs!FoldLeft(K!MergeBusy, <<>>, w) = p[n]
  <2>1. 1..0 = {} /\ {} \in SUBSET (1..n) /\ 0 \in 0..n /\ n \in 0..n
    BY <1>1
  <2>2. h[{}] = <<>>
    BY <1>1, <1>5, <2>1 DEF IsBusyMerge
  <2>3. QED BY <1>5, <2>1, <2>2
<1>7. ASSUME NEW i \in 1..n PROVE p[i] = K!MergeBusy(p[i - 1], w[i])
  <2>1. Top(1..i) = i /\ (1..i) \ {i} = 1..(i - 1) /\ 1..i # {} /\ 1..i \in SUBSET (1..n)
    BY <1>1, TopOfRange
  <2>2. h[1..i] = K!MergeBusy(h[1..(i - 1)], w[i])
    BY <1>1, <1>5, <2>1 DEF IsBusyMerge
  <2>3. i \in 0..n /\ i - 1 \in 0..n
    BY <1>1
  <2>4. QED BY <2>2, <2>3
<1> HIDE DEF p
<1>8. QED BY <1>6, <1>7

LEMMA NormalizedBusy ==
  ASSUME NEW list \in Seq(Pair)
  PROVE  BusyApart(K!Normalize(list)) /\ K!Units(K!Normalize(list)) = K!Units(list)
<1>1. PICK n, w : n = Len(list) /\ w = K!ByStart(list)
  OBVIOUS
<1>2. n \in Nat
  BY <1>1
<1>3. /\ w \in Lists(n) /\ Members(w, 1..n) = Members(list, 1..n)
      /\ \A a \in 1..n : \A b \in a..n : w[a][1] <= w[b][1]
  BY <1>1, <1>2, SortedWindows
<1>4. w \in Seq(Pair) /\ n = Len(w) /\ \A i \in 1..n : w[i] \in Pair
  BY <1>3 DEF Lists
<1>5. PICK p : /\ p[0] = <<>>
               /\ \A i \in 1..n : p[i] = K!MergeBusy(p[i - 1], w[i])
               /\ K!Seqs!FoldLeft(K!MergeBusy, <<>>, w) = p[n]
  BY <1>4, BusySteps
<1>6. K!Normalize(list) = p[n]
  BY <1>1, <1>5 DEF K!Normalize
<1> DEFINE Good(i) == /\ p[i] \in Seq(Pair) /\ BusyApart(p[i])
                      /\ i > 0 /\ p[i] # <<>> => p[i][Len(p[i])][1] <= w[i][1]
                      /\ UnitsOf(p[i], DOMAIN p[i]) = UnitsOf(w, 1..i)
           Done == {i \in Nat : i <= n => Good(i)}
<1>7. 0 \in Done
  <2>1. p[0] = <<>> /\ 1..0 = {}
    BY <1>5
  <2>2. BusyApart(<<>>) /\ UnitsOf(<<>>, DOMAIN <<>>) = UnitsOf(w, {})
    BY DEF BusyApart, UnitsOf
  <2>3. p[0] \in Seq(Pair) /\ ~(0 > 0)
    BY <2>1
  <2>4. Good(0)
    BY <2>1, <2>2, <2>3
  <2> HIDE DEF Good
  <2>5. QED BY <2>4
<1>8. ASSUME NEW i \in Nat, i \in Done PROVE i + 1 \in Done
  <2>1. SUFFICES ASSUME i + 1 <= n PROVE Good(i + 1)
    OBVIOUS
  <2>2. i <= n /\ i + 1 \in 1..n /\ Good(i)
    BY <1>2, <1>8, <2>1
  <2>3. p[i + 1] = K!MergeBusy(p[i], w[i + 1])
    <3>1. p[i + 1] = K!MergeBusy(p[(i + 1) - 1], w[i + 1])
      BY <1>5, <2>2
    <3>2. (i + 1) - 1 = i
      OBVIOUS
    <3>3. QED BY <3>1, <3>2
  <2>4. w[i + 1] \in Pair
    BY <1>4, <2>2
  <2>5. ASSUME p[i] # <<>> PROVE p[i][Len(p[i])][1] <= w[i + 1][1]
    <3>1. i > 0
      BY <1>5, <2>5
    <3>2. i \in 1..n /\ i + 1 \in i..n
      BY <1>2, <2>2, <3>1
    <3>3. w[i][1] <= w[i + 1][1] /\ w[i] \in Pair
      BY <1>3, <1>4, <3>2
    <3>4. p[i][Len(p[i])][1] <= w[i][1] /\ p[i][Len(p[i])] \in Pair
      BY <2>2, <2>5, <3>1
    <3>5. /\ w[i][1] \in Nat /\ w[i + 1][1] \in Nat /\ p[i][Len(p[i])][1] \in Nat
      BY <2>4, <3>3, <3>4 DEF Pair
    <3>6. QED BY ONLY <3>3, <3>4, <3>5
  <2>6. /\ p[i + 1] \in Seq(Pair) /\ BusyApart(p[i + 1])
        /\ p[i + 1] # <<>> /\ p[i + 1][Len(p[i + 1])][1] <= w[i + 1][1]
        /\ UnitsOf(p[i + 1], DOMAIN p[i + 1]) = UnitsOf(p[i], DOMAIN p[i]) \cup Units(w[i + 1])
    BY <2>2, <2>3, <2>4, <2>5, MergeBusyKeeps
  <2>7. UnitsOf(w, 1..(i + 1)) = UnitsOf(w, 1..i) \cup Units(w[i + 1])
    <3>1. 1..(i + 1) = 1..i \cup {i + 1}
      OBVIOUS
    <3>2. QED BY <3>1 DEF UnitsOf
  <2>8. QED BY <2>2, <2>6, <2>7
<1>9. n \in Done
  <2> HIDE DEF Done
  <2>1. QED BY <1>2, <1>7, <1>8, NatSetInduction
<1>10. \A q : K!Units(q) = UnitsOf(q, DOMAIN q)
  BY DEF K!Units, K!Range, UnitsOf, Units
<1>11. UnitsOf(w, 1..n) = UnitsOf(list, 1..n)
  <2>1. \A q : UnitsOf(q, 1..n) = UNION {Units(x) : x \in Members(q, 1..n)}
    BY DEF UnitsOf, Members
  <2>2. QED BY <1>3, <2>1
<1>12. DOMAIN list = 1..n
  BY <1>1
<1>13. QED BY <1>2, <1>6, <1>9, <1>10, <1>11, <1>12

-----------------------------------------------------------------------------
(* What is stored *)

\* A week is stored normalized, and stays so when it is switched off or on.
LEMMA WeekStaysCanonical ==
  ASSUME L!CanonicalWeek, L!Next \/ UNCHANGED schedules PROVE L!CanonicalWeek'
<1> DEFINE Canonical(weekly) ==
             WeekApart(weekly) /\ \E in \in ScheduleInputs : L!Hours(weekly) = L!Hours(in.weekly)
<1>1. \A p \in DOMAIN schedules : Canonical(schedules[p].weekly)
  BY DEF L!CanonicalWeek, WeekApart, Separate
<1>2. SUFFICES \A p \in DOMAIN schedules' : Canonical(schedules'[p].weekly)
  <2>1. (\A p \in DOMAIN schedules' : Canonical(schedules'[p].weekly)) => L!CanonicalWeek'
    BY DEF L!CanonicalWeek, WeekApart, Separate, L!Hours
  <2>2. QED BY <2>1
<1>3. ASSUME UNCHANGED schedules PROVE \A p \in DOMAIN schedules' : Canonical(schedules'[p].weekly)
  BY <1>1, <1>3
<1>4. ASSUME NEW p, NEW in \in ScheduleInputs, L!SetSchedule(p, in)
      PROVE  \A q \in DOMAIN schedules' : Canonical(schedules'[q].weekly)
  <2> DEFINE new == [offset |-> in.offset, changes |-> in.changes,
                     weekly |-> L!NormalizeWindows(in.weekly), lead |-> in.lead,
                     before |-> in.before, after |-> in.after, horizon |-> in.horizon,
                     from |-> in.from, until |-> in.until,
                     enabled |-> TRUE, version |-> L!NextVersion(p)]
  <2>1. schedules' = L!Set(schedules, p, new) /\ L!ValidWindows(in.weekly)
    BY <1>4 DEF L!SetSchedule, L!ValidScheduleInput
  <2>2. in.weekly \in Seq(TimeWindow)
    BY WindowsConstants DEF TimeWindow
  <2>3. new.weekly = L!NormalizeWindows(in.weekly)
    OBVIOUS
  <2> HIDE DEF new
  <2>4. /\ DOMAIN schedules' = DOMAIN schedules \cup {p} /\ schedules'[p] = new
        /\ \A q \in DOMAIN schedules : q # p => schedules'[q] = schedules[q]
    BY <2>1 DEF L!Set
  <2>5. Canonical(new.weekly)
    BY <2>1, <2>2, <2>3, NormalizedWeek
  <2> HIDE DEF Canonical
  <2>6. QED BY <1>1, <2>4, <2>5
<1>5. ASSUME NEW p, NEW enabled, L!SetEnabled(p, enabled)
      PROVE  \A q \in DOMAIN schedules' : Canonical(schedules'[q].weekly)
  <2>0. [[schedules[p] EXCEPT !.enabled = enabled] EXCEPT !.version = @ + 1].weekly
          = schedules[p].weekly
    OBVIOUS
  <2>1. /\ DOMAIN schedules' = DOMAIN schedules
        /\ p \in DOMAIN schedules
        /\ schedules'[p].weekly = schedules[p].weekly
        /\ \A q \in DOMAIN schedules : q # p => schedules'[q] = schedules[q]
    BY <1>5, <2>0 DEF L!SetEnabled, L!Has
  <2> HIDE DEF Canonical
  <2>2. \A q \in DOMAIN schedules : schedules'[q].weekly = schedules[q].weekly
    BY <2>1
  <2>3. QED BY <1>1, <2>1, <2>2
<1> HIDE DEF Canonical
<1>6. \A p, id, in : L!AddException(p, id, in) => UNCHANGED schedules
  BY DEF L!AddException
<1>7. \A p, id : L!RemoveException(p, id) => UNCHANGED schedules
  BY DEF L!RemoveException
<1>8. CASE L!Next
  <2>1. PICK p \in SlotPersons :
          \/ \E in \in ScheduleInputs : L!SetSchedule(p, in)
          \/ \E enabled \in BOOLEAN : L!SetEnabled(p, enabled)
          \/ \E id \in ExceptionIds :
                 \/ \E in \in ExceptionInputs : L!AddException(p, id, in)
                 \/ L!RemoveException(p, id)
    BY <1>8 DEF L!Next
  <2>2. QED BY <1>3, <1>4, <1>5, <1>6, <1>7, <2>1, Zenon
<1>9. QED BY <1>3, <1>8

\* The active bookings of a person that start on a day, as SessionsOnDay counts them.
OnDay(store, p, day) ==
    {id \in DOMAIN store : /\ p \in {store[id].mentor, store[id].mentee}
                           /\ store[id].state = "Active"
                           /\ store[id].start \div DayLength = day}

DaysInv ==
    /\ availability \in {AvailabilityAddress, OtherContract}
    /\ \A program \in DOMAIN policies : policies[program].perDay \in 1..MAX_SESSIONS_PER_DAY
    /\ IsFiniteSet(DOMAIN slotBookings)
    /\ \A p, day : Cardinality(OnDay(slotBookings, p, day)) <= MAX_SESSIONS_PER_DAY

LEMMA OnDayIsCounted ==
  ASSUME NEW p, NEW t
  PROVE  L!SessionsOnDay(p, t) = Cardinality(OnDay(slotBookings, p, t \div DayLength))
<1>1. {id \in L!ActiveBookingsOf(p) :
          slotBookings[id].start \div DayLength = t \div DayLength}
        = OnDay(slotBookings, p, t \div DayLength)
  BY Zenon DEF L!ActiveBookingsOf, L!BookingsOf, OnDay
<1>2. \A X : L!Cardinality(X) = Cardinality(X)
  BY Zenon DEF Cardinality, L!Cardinality
<1>3. QED BY <1>1, <1>2, Zenon DEF L!SessionsOnDay

LEMMA DaysBook ==
  ASSUME DaysInv, NEW id, NEW mentor, NEW mentee, NEW program, NEW start,
         L!BookSlot(id, mentor, mentee, program, start)
  PROVE  DaysInv'
<1> DEFINE new == [mentor |-> mentor, mentee |-> mentee, program |-> program, start |-> start,
                   end |-> start + policies[program].duration, state |-> "Active"]
           today == start \div DayLength
<1>1. /\ slotBookings' = L!Set(slotBookings, id, new) /\ id \notin DOMAIN slotBookings
      /\ program \in DOMAIN policies
      /\ UNCHANGED <<availability, policies, blackouts>>
      /\ \A p \in {mentor, mentee} : L!SessionsOnDay(p, start) < policies[program].perDay
  BY DEF L!BookSlot, L!Has, L!ValidateSlot, L!ValidateParticipantSlot
<1>2. new.mentor = mentor /\ new.mentee = mentee /\ new.start = start
  OBVIOUS
<1> HIDE DEF new
<1>3. /\ DOMAIN slotBookings' = DOMAIN slotBookings \cup {id}
      /\ slotBookings'[id] = new
      /\ \A i \in DOMAIN slotBookings : i # id /\ slotBookings'[i] = slotBookings[i]
  BY <1>1 DEF L!Set
<1>4. IsFiniteSet(DOMAIN slotBookings')
  BY <1>3, FS_AddElement DEF DaysInv
<1>5. ASSUME NEW p, NEW day
      PROVE  Cardinality(OnDay(slotBookings', p, day)) <= MAX_SESSIONS_PER_DAY
  <2>1. /\ IsFiniteSet(OnDay(slotBookings, p, day))
        /\ Cardinality(OnDay(slotBookings, p, day)) \in Nat
        /\ Cardinality(OnDay(slotBookings, p, day)) <= MAX_SESSIONS_PER_DAY
    <3>1. OnDay(slotBookings, p, day) \subseteq DOMAIN slotBookings
      BY DEF OnDay
    <3>2. QED BY <3>1, FS_Subset, FS_CardinalityType DEF DaysInv
  <2>2. CASE p \in {mentor, mentee} /\ day = today
    <3>1. OnDay(slotBookings', p, day) \subseteq OnDay(slotBookings, p, day) \cup {id}
      BY <1>3 DEF OnDay
    <3>2. Cardinality(OnDay(slotBookings, p, day)) < policies[program].perDay
      BY <1>1, <2>2, OnDayIsCounted
    <3>3. /\ policies[program].perDay \in Nat /\ MAX_SESSIONS_PER_DAY \in Nat
          /\ policies[program].perDay <= MAX_SESSIONS_PER_DAY
      BY <1>1, WindowsConstants DEF DaysInv
    <3>4. id \notin OnDay(slotBookings, p, day)
      BY <1>1 DEF OnDay
    <3> DEFINE X == OnDay(slotBookings, p, day)
               Y == OnDay(slotBookings', p, day)
    <3>5. /\ IsFiniteSet(X \cup {id}) /\ Cardinality(X \cup {id}) = Cardinality(X) + 1
      <4> HIDE DEF X
      <4>1. IsFiniteSet(X) /\ id \notin X
        BY <2>1, <3>4 DEF X
      <4>2. QED BY <4>1, FS_AddElement
    <3>6. Cardinality(Y) <= Cardinality(X) + 1 /\ Cardinality(Y) \in Nat
      <4>1. Y \subseteq X \cup {id}
        BY <3>1
      <4> HIDE DEF X, Y
      <4>2. QED BY <3>5, <4>1, FS_Subset, FS_CardinalityType
    <3>7. QED BY <2>1, <3>2, <3>3, <3>6
  <2>3. CASE ~(p \in {mentor, mentee} /\ day = today)
    <3>1. OnDay(slotBookings', p, day) = OnDay(slotBookings, p, day)
      <4>1. id \notin OnDay(slotBookings', p, day)
        BY <1>2, <1>3, <2>3 DEF OnDay
      <4>2. \A i \in DOMAIN slotBookings :
              i \in OnDay(slotBookings', p, day) <=> i \in OnDay(slotBookings, p, day)
        BY <1>3 DEF OnDay
      <4>3. OnDay(slotBookings', p, day) \subseteq DOMAIN slotBookings'
        BY DEF OnDay
      <4>4. OnDay(slotBookings, p, day) \subseteq DOMAIN slotBookings
        BY DEF OnDay
      <4>5. QED BY <1>3, <4>1, <4>2, <4>3, <4>4
    <3>2. QED BY <2>1, <3>1
  <2>4. QED BY <2>2, <2>3
<1>6. QED BY <1>1, <1>4, <1>5 DEF DaysInv

LEMMA DaysCancel ==
  ASSUME SlotsInv, DaysInv, NEW caller, NEW id, L!CancelBooking(caller, id)
  PROVE  DaysInv'
<1> DEFINE new == [slotBookings[id] EXCEPT !.state = "Cancelled"]
<1>1. /\ slotBookings' = [slotBookings EXCEPT ![id] = new]
      /\ id \in DOMAIN slotBookings
      /\ UNCHANGED <<availability, policies, blackouts>>
  BY DEF L!CancelBooking, L!Has
<1>2. new.state = "Cancelled"
  BY <1>1 DEF SlotsInv, L!Booking
<1> HIDE DEF new
<1>3. ASSUME NEW p, NEW day
      PROVE  Cardinality(OnDay(slotBookings', p, day)) <= MAX_SESSIONS_PER_DAY
  <2>1. OnDay(slotBookings', p, day) \subseteq OnDay(slotBookings, p, day)
    BY <1>1, <1>2 DEF OnDay
  <2>2. OnDay(slotBookings, p, day) \subseteq DOMAIN slotBookings
    BY DEF OnDay
  <2>3. QED BY <2>1, <2>2, FS_Subset, FS_CardinalityType, WindowsConstants DEF DaysInv
<1>4. QED BY <1>1, <1>3 DEF DaysInv

LEMMA DaysNext ==
  ASSUME SlotsInv, DaysInv, L!SlotsNext PROVE DaysInv'
<1>1. ASSUME NEW caller, NEW address \in {AvailabilityAddress, OtherContract},
             L!SetAvailabilityContract(caller, address)
      PROVE  DaysInv'
  BY <1>1 DEF L!SetAvailabilityContract, DaysInv
<1>2. ASSUME NEW caller, NEW program, NEW in, L!SetProgramPolicy(caller, program, in)
      PROVE  DaysInv'
  <2> DEFINE new == [duration |-> in[1], granularity |-> in[2], perDay |-> in[3]]
  <2>1. policies' = L!Set(policies, program, new) /\ in[3] \in 1..MAX_SESSIONS_PER_DAY
        /\ UNCHANGED <<availability, slotBookings>>
    BY <1>2 DEF L!SetProgramPolicy
  <2>2. new.perDay = in[3]
    OBVIOUS
  <2> HIDE DEF new
  <2>3. QED BY <2>1, <2>2 DEF DaysInv, L!Set
<1>3. ASSUME UNCHANGED <<availability, policies, slotBookings>> PROVE DaysInv'
  BY <1>3 DEF DaysInv
<1>4. \A caller, id, program, range :
        L!SetBlackout(caller, id, program, range)
          => UNCHANGED <<availability, policies, slotBookings>>
  BY DEF L!SetBlackout
<1>5. \A caller, id :
        L!RemoveBlackout(caller, id) => UNCHANGED <<availability, policies, slotBookings>>
  BY DEF L!RemoveBlackout
<1>6. QED BY <1>1, <1>2, <1>3, <1>4, <1>5, DaysBook, DaysCancel, ZenonT(60) DEF L!SlotsNext

\* Windows are only stored of a connection that exists.
BusyInv == DOMAIN busy \subseteq DOMAIN connections /\ K!CanonicalBusy

\* What CanonicalBusy says of the windows of one connection.
Imported(windows) ==
    /\ windows # <<>> /\ BusyApart(windows)
    /\ \E list \in BusyLists : K!Units(windows) = K!Units(list)

LEMMA BusyStep ==
  ASSUME BusyInv, NEW d,
         DOMAIN connections' = DOMAIN connections \cup {d},
         \A c \in DOMAIN connections : c # d => connections'[c] = connections[c],
         \/ busy' = busy /\ (d \in DOMAIN busy => connections'[d].status = "Active")
         \/ \E windows : /\ busy' = K!PutBusy(d, windows)
                         /\ windows # <<>> =>
                              connections'[d].status = "Active" /\ Imported(windows)
  PROVE  BusyInv'
<1>1. \A c \in DOMAIN busy :
        c \in DOMAIN connections /\ connections[c].status = "Active" /\ Imported(busy[c])
  BY DEF BusyInv, K!CanonicalBusy, Imported, BusyApart
<1>2. SUFFICES \A c \in DOMAIN busy' : /\ c \in DOMAIN connections'
                                       /\ connections'[c].status = "Active"
                                       /\ Imported(busy'[c])
  BY DEF BusyInv, K!CanonicalBusy, Imported, BusyApart, K!Units, K!Range
<1>3. CASE busy' = busy /\ (d \in DOMAIN busy => connections'[d].status = "Active")
  BY <1>1, <1>3
<1>4. CASE \E windows : /\ busy' = K!PutBusy(d, windows)
                        /\ windows # <<>> =>
                             connections'[d].status = "Active" /\ Imported(windows)
  <2>1. PICK windows : /\ busy' = K!PutBusy(d, windows)
                       /\ windows # <<>> =>
                            connections'[d].status = "Active" /\ Imported(windows)
    BY <1>4
  <2>2. CASE windows = <<>>
    <3>1. /\ DOMAIN busy' = DOMAIN busy \ {d}
          /\ \A c \in DOMAIN busy' : busy'[c] = busy[c]
      BY <2>1, <2>2 DEF K!PutBusy, K!Remove
    <3>2. QED BY <1>1, <3>1
  <2>3. CASE windows # <<>>
    <3>1. /\ DOMAIN busy' = DOMAIN busy \cup {d} /\ busy'[d] = windows
          /\ \A c \in DOMAIN busy : c # d => busy'[c] = busy[c]
      BY <2>1, <2>3 DEF K!PutBusy, K!Set
    <3>2. QED BY <1>1, <2>1, <2>3, <3>1
  <2>4. QED BY <2>2, <2>3
<1>5. QED BY <1>3, <1>4

LEMMA BusyStutter ==
  ASSUME BusyInv, UNCHANGED calendarVars PROVE BusyInv'
<1>1. \A c \in DOMAIN busy :
        c \in DOMAIN connections /\ connections[c].status = "Active" /\ Imported(busy[c])
  BY DEF BusyInv, K!CanonicalBusy, Imported, BusyApart
<1>2. SUFFICES \A c \in DOMAIN busy' : /\ c \in DOMAIN connections'
                                       /\ connections'[c].status = "Active"
                                       /\ Imported(busy'[c])
  BY DEF BusyInv, K!CanonicalBusy, Imported, BusyApart, K!Units, K!Range
<1>3. QED BY <1>1 DEF calendarVars

LEMMA BusyNext == ASSUME K!TypeOK, BusyInv, K!Next PROVE BusyInv'
<1>1. PICK d \in Owners \X ConnectionIds :
        \/ \E scopes \in ScopeMasks, expires \in CalendarExpiries :
               K!Connect(d, scopes, expires)
        \/ \E epoch \in Epochs, payload \in PayloadHashes, windows \in BusyLists :
               K!RecordBusy(d, epoch, payload, windows)
        \/ K!MarkSyncFailed(d)
        \/ K!ExpireConnection(d)
        \/ K!Disconnect(d)
  BY DEF K!Next
<1> DEFINE u == connections[d]
<1>2. ASSUME NEW scopes, NEW expires, K!Connect(d, scopes, expires) PROVE BusyInv'
  <2> DEFINE v == [status |-> "Active", epoch |-> 0, payload |-> ZeroHash,
                   expires |-> expires, degraded |-> FALSE]
  <2>1. connections' = K!Set(connections, d, v) /\ busy' = busy
    BY <1>2 DEF K!Connect
  <2>2. v.status = "Active"
    OBVIOUS
  <2> HIDE DEF v
  <2>3. /\ DOMAIN connections' = DOMAIN connections \cup {d} /\ connections'[d] = v
        /\ \A c \in DOMAIN connections : c # d => connections'[c] = connections[c]
    BY <2>1 DEF K!Set
  <2>4. QED BY <2>1, <2>2, <2>3, BusyStep
<1>3. ASSUME NEW epoch \in Epochs, NEW payload \in PayloadHashes, NEW list \in BusyLists,
             K!RecordBusy(d, epoch, payload, list)
      PROVE  BusyInv'
  <2> DEFINE v1 == [u EXCEPT !.epoch = epoch]
             v2 == [v1 EXCEPT !.payload = payload]
             v3 == [v2 EXCEPT !.degraded = FALSE]
             windows == K!Normalize(list)
  <2>1. /\ d \in DOMAIN connections /\ u.status = "Active" /\ u \in K!Connection
        /\ connections' = [[[connections EXCEPT ![d] = v1] EXCEPT ![d] = v2] EXCEPT ![d] = v3]
        /\ busy' = K!PutBusy(d, windows)
    BY <1>3 DEF K!RecordBusy, K!IsActive, K!Has, K!TypeOK
  <2>2. v3.status = "Active"
    BY <2>1 DEF K!Connection
  <2> HIDE DEF v1, v2, v3
  <2>3. /\ DOMAIN connections' = DOMAIN connections \cup {d} /\ connections'[d] = v3
        /\ \A c \in DOMAIN connections : c # d => connections'[c] = connections[c]
    BY <2>1
  <2>4. list \in Seq(Pair)
    BY WindowsConstants DEF Pair
  <2>5. windows # <<>> => Imported(windows)
    BY <2>4, NormalizedBusy DEF Imported
  <2> HIDE DEF windows
  <2>6. QED BY <2>1, <2>2, <2>3, <2>5, BusyStep
<1>4. ASSUME K!MarkSyncFailed(d) PROVE BusyInv'
  <2> DEFINE v == [u EXCEPT !.degraded = TRUE]
  <2>1. /\ d \in DOMAIN connections /\ u.status = "Active" /\ u \in K!Connection
        /\ connections' = [connections EXCEPT ![d] = v] /\ busy' = busy
    BY <1>4 DEF K!MarkSyncFailed, K!IsActive, K!Has, K!TypeOK
  <2>2. v.status = "Active"
    BY <2>1 DEF K!Connection
  <2> HIDE DEF v
  <2>3. /\ DOMAIN connections' = DOMAIN connections \cup {d} /\ connections'[d] = v
        /\ \A c \in DOMAIN connections : c # d => connections'[c] = connections[c]
    BY <2>1
  <2>4. QED BY <2>1, <2>2, <2>3, BusyStep
<1>5. ASSUME K!ExpireConnection(d) \/ K!Disconnect(d) PROVE BusyInv'
  <2>1. /\ d \in DOMAIN connections
        /\ busy' = K!PutBusy(d, <<>>)
        /\ DOMAIN connections' = DOMAIN connections
        /\ \A c \in DOMAIN connections : c # d => connections'[c] = connections[c]
    BY <1>5 DEF K!ExpireConnection, K!Disconnect, K!IsActive, K!Has
  <2>2. DOMAIN connections' = DOMAIN connections \cup {d}
    BY <2>1
  <2>3. QED BY <2>1, <2>2, BusyStep
<1>6. QED BY <1>1, <1>2, <1>3, <1>4, <1>5

-----------------------------------------------------------------------------
(* The composed specification *)

LEMMA BookingInvariant == Spec => [](SchedulingInv /\ SlotsInv)
<1>1. Init => SchedulingInv /\ SlotsInv
  BY SchedulingInit, SlotsInitial DEF Init
<1>2. SchedulingInv /\ SlotsInv /\ [Next]_vars => (SchedulingInv /\ SlotsInv)'
  <2> SUFFICES ASSUME SchedulingInv, SlotsInv, [Next]_vars
               PROVE  SchedulingInv' /\ SlotsInv'
    OBVIOUS
  <2>1. ASSUME UNCHANGED schedulingVars, now' \in Nat PROVE SchedulingInv'
    BY <2>1, SettingsStep DEF schedulingVars, SchedulingInv, S!TypeOK
  <2>2. ASSUME UNCHANGED slotVars, now' \in Nat PROVE SlotsInv'
    <3>1. L!NoOverlappingSlots'
      BY <2>2 DEF slotVars, SlotsInv, L!NoOverlappingSlots
    <3>2. QED BY <2>2, <3>1 DEF slotVars, SlotsInv
  <2>3. now \in Nat /\ \A bound : Tick(bound) => now' \in Nat
    BY DEF SlotsInv, Tick
  <2>4. CASE UNCHANGED vars
    BY <2>1, <2>2, <2>3, <2>4 DEF vars
  <2>5. CASE /\ (S!Next /\ UNCHANGED now) \/ S!AdvanceTime
             /\ UNCHANGED <<slotVars, calendarVars, cohortVars, seatVars>>
    <3>1. now' \in Nat
      BY <2>3, <2>5 DEF S!AdvanceTime
    <3>2. QED BY <2>2, <2>5, <3>1, SchedulingNext
  <2>6. CASE /\ \/ L!Next /\ UNCHANGED <<now, availability, policies, blackouts, slotBookings>>
                \/ L!SlotsNext /\ UNCHANGED <<now, schedules, exceptions>>
                \/ Tick(MaxSlots) /\ UNCHANGED slotVars
             /\ UNCHANGED <<schedulingVars, calendarVars, cohortVars, seatVars>>
    <3>1. now' \in Nat
      BY <2>3, <2>6
    <3>2. QED BY <2>1, <2>6, <3>1, SlotsNext
  <2>7. CASE UNCHANGED <<schedulingVars, slotVars>> /\ (UNCHANGED now \/ \E b : Tick(b))
    BY <2>1, <2>2, <2>3, <2>7
  <2>8. QED BY <2>4, <2>5, <2>6, <2>7 DEF Next
<1>3. QED BY <1>1, <1>2, PTL DEF Spec

\* Nobody is in two places at once, whatever the parties, ids, times, limits, schedules and
\* policies: sessions and active slots of a person never overlap, a session has one
\* answerable proposal at most, and every offered slot can be booked.
THEOREM SessionsNoDoubleBooking == Spec => []NoDoubleBooking
<1>1. SchedulingInv /\ SlotsInv => NoDoubleBooking
  BY SearchOffersBookable DEF SchedulingInv, SlotsInv, NoDoubleBooking
<1>2. QED BY <1>1, BookingInvariant, PTL

\* What the other three parts keep, and what a step of any part may do.
PlacesInv ==
    ConfirmedByBoth /\ K!TypeOK /\ CohortsInv /\ SeatsInv /\ VersionsInv
StepInTurn ==
    Consent /\ InOrder /\ (\A program \in DOMAIN seatPrograms : Turn(program)) /\ AppendOnly

LEMMA PlacesStep ==
  ASSUME SchedulingInv, PlacesInv, [Next]_vars PROVE PlacesInv' /\ StepInTurn
<1>1. ASSUME UNCHANGED schedulingVars PROVE ConfirmedByBoth' /\ Consent
  BY <1>1, ConsentStutter DEF schedulingVars, PlacesInv
<1>2. ASSUME UNCHANGED calendarVars PROVE K!TypeOK' /\ InOrder
  BY <1>2, InOrderStutter DEF PlacesInv
<1>3. ASSUME UNCHANGED cohortVars PROVE CohortsInv'
  BY <1>3, CohortsStutter DEF PlacesInv
<1>4. ASSUME UNCHANGED seatVars, now' \in Nat PROVE SeatsStepOK /\ VersionsInv' /\ AppendOnly
  BY <1>4, SeatsStutter, VersionsStutter DEF PlacesInv, seatVars
<1>5. now \in Nat /\ \A bound : Tick(bound) => now' \in Nat
  BY DEF PlacesInv, SeatsInv, Tick
<1>6. SUFFICES /\ ConfirmedByBoth' /\ Consent
               /\ K!TypeOK' /\ InOrder
               /\ CohortsInv'
               /\ SeatsStepOK /\ VersionsInv' /\ AppendOnly
  BY DEF PlacesInv, StepInTurn, SeatsStepOK
<1>7. CASE UNCHANGED vars
  BY <1>1, <1>2, <1>3, <1>4, <1>5, <1>7 DEF vars
<1>8. CASE /\ (S!Next /\ UNCHANGED now) \/ S!AdvanceTime
           /\ UNCHANGED <<slotVars, calendarVars, cohortVars, seatVars>>
  <2>1. now' \in Nat
    BY <1>5, <1>8 DEF S!AdvanceTime
  <2>2. ConfirmedByBoth' /\ Consent
    <3>1. CASE S!Next
      BY <3>1, ConsentNext DEF PlacesInv
    <3>2. CASE S!AdvanceTime
      BY <3>2, ConsentStutter DEF S!AdvanceTime, S!schedulingVars, PlacesInv
    <3>3. QED BY <1>8, <3>1, <3>2
  <2>3. QED BY <1>2, <1>3, <1>4, <1>8, <2>1, <2>2
<1>9. CASE /\ \/ L!Next /\ UNCHANGED <<now, availability, policies, blackouts, slotBookings>>
              \/ L!SlotsNext /\ UNCHANGED <<now, schedules, exceptions>>
              \/ Tick(MaxSlots) /\ UNCHANGED slotVars
           /\ UNCHANGED <<schedulingVars, calendarVars, cohortVars, seatVars>>
  <2>1. now' \in Nat
    BY <1>5, <1>9
  <2>2. QED BY <1>1, <1>2, <1>3, <1>4, <1>9, <2>1
<1>10. CASE /\ (K!Next /\ UNCHANGED now) \/ (Tick(MaxCalendar) /\ UNCHANGED calendarVars)
            /\ UNCHANGED <<schedulingVars, slotVars, cohortVars, seatVars>>
  <2>1. now' \in Nat
    BY <1>5, <1>10
  <2>2. K!TypeOK' /\ InOrder
    BY <1>2, <1>10, InOrderNext DEF PlacesInv
  <2>3. QED BY <1>1, <1>3, <1>4, <1>10, <2>1, <2>2
<1>11. CASE /\ (C!Next /\ UNCHANGED now) \/ (Tick(MaxCohorts) /\ UNCHANGED cohortVars)
            /\ UNCHANGED <<schedulingVars, slotVars, calendarVars, seatVars>>
  <2>1. now' \in Nat
    BY <1>5, <1>11
  <2>2. CohortsInv'
    BY <1>3, <1>11, CohortsNext DEF PlacesInv
  <2>3. QED BY <1>1, <1>2, <1>4, <1>11, <2>1, <2>2
<1>12. CASE /\ (P!Next /\ UNCHANGED now) \/ (Tick(MaxSeats) /\ UNCHANGED seatVars)
            /\ UNCHANGED <<schedulingVars, slotVars, calendarVars, cohortVars>>
  <2>1. SeatsStepOK /\ VersionsInv' /\ AppendOnly
    <3>1. CASE P!Next /\ UNCHANGED now
      BY <3>1, SeatsNext, VersionsNext DEF PlacesInv
    <3>2. CASE Tick(MaxSeats) /\ UNCHANGED seatVars
      BY <1>4, <1>5, <3>2
    <3>3. QED BY <1>12, <3>1, <3>2
  <2>2. QED BY <1>1, <1>2, <1>3, <1>12, <2>1
<1>13. QED BY <1>7, <1>8, <1>9, <1>10, <1>11, <1>12 DEF Next

LEMMA PlacesInvariant == Spec => []PlacesInv
<1>1. Init => PlacesInv
  <2>1. ASSUME Init PROVE ConfirmedByBoth /\ K!TypeOK /\ VersionsInv
    BY <2>1 DEF Init, S!Init, K!Init, P!Init, S!Empty, K!Empty, P!Empty, ConfirmedByBoth,
                K!TypeOK, VersionsInv
  <2>2. QED BY <2>1, CohortsInitial, SeatsInitial DEF Init, PlacesInv
<1>2. SchedulingInv /\ PlacesInv /\ [Next]_vars => PlacesInv'
  BY PlacesStep
<1>3. QED BY <1>1, <1>2, BookingInvariant, PTL DEF Spec

\* What the stores of slots and calendars keep.
StoresInv == L!CanonicalWeek /\ DaysInv /\ BusyInv

LEMMA StoresStep ==
  ASSUME SlotsInv, PlacesInv, StoresInv, [Next]_vars PROVE StoresInv'
<1>1. ASSUME UNCHANGED schedules PROVE L!CanonicalWeek'
  BY <1>1, WeekStaysCanonical DEF StoresInv
<1>2. ASSUME UNCHANGED <<availability, policies, slotBookings>> PROVE DaysInv'
  BY <1>2 DEF StoresInv, DaysInv
<1>3. ASSUME UNCHANGED calendarVars PROVE BusyInv'
  BY <1>3, BusyStutter DEF StoresInv
<1>4. SUFFICES L!CanonicalWeek' /\ DaysInv' /\ BusyInv'
  BY DEF StoresInv
<1>5. CASE UNCHANGED slotVars /\ UNCHANGED calendarVars
  BY <1>1, <1>2, <1>3, <1>5 DEF slotVars
<1>6. CASE L!Next /\ UNCHANGED <<availability, policies, slotBookings, calendarVars>>
  BY <1>2, <1>3, <1>6, WeekStaysCanonical DEF StoresInv
<1>7. CASE L!SlotsNext /\ UNCHANGED <<schedules, calendarVars>>
  BY <1>1, <1>3, <1>7, DaysNext DEF StoresInv
<1>8. CASE K!Next /\ UNCHANGED slotVars
  BY <1>1, <1>2, <1>8, BusyNext DEF StoresInv, PlacesInv, slotVars
<1>9. QED BY <1>5, <1>6, <1>7, <1>8 DEF Next, vars

LEMMA StoresInvariant == Spec => []StoresInv
<1>1. Init => StoresInv
  <2> SUFFICES ASSUME Init PROVE StoresInv
    OBVIOUS
  <2>1. /\ schedules = [k \in {} |-> {}] /\ policies = [k \in {} |-> {}]
        /\ slotBookings = [k \in {} |-> {}] /\ busy = [k \in {} |-> {}]
        /\ availability = AvailabilityAddress
    BY DEF Init, L!SlotsInit, L!Init, K!Init, L!Empty, K!Empty
  <2>2. L!CanonicalWeek /\ BusyInv
    BY <2>1 DEF L!CanonicalWeek, BusyInv, K!CanonicalBusy
  <2>3. \A p, day : OnDay(slotBookings, p, day) = {}
    BY <2>1 DEF OnDay
  <2>4. DaysInv
    BY <2>1, <2>3, FS_EmptySet, WindowsConstants DEF DaysInv
  <2>5. QED BY <2>2, <2>4 DEF StoresInv
<1>2. SlotsInv /\ PlacesInv /\ StoresInv /\ [Next]_vars => StoresInv'
  BY StoresStep
<1>3. QED BY <1>1, <1>2, BookingInvariant, PlacesInvariant, PTL DEF Spec

\* The counters of cohorts and of program seats are exact and within the capacity, and a
\* queue holds exactly who waits, for any people, programs, capacities and waitlist limit.
THEOREM SessionsSeatsExact == Spec => []SeatsExact
<1>1. PlacesInv => SeatsExact
  BY CohortsExact, SeatsStateExact DEF PlacesInv, SeatsExact
<1>2. QED BY <1>1, PlacesInvariant, PTL

\* No step takes anything out of turn: a session's time changes only by the other party's
\* answer to a live proposal, a late sync never replaces a newer one, seats go to the
\* first in line, and contract versions are only added to.
THEOREM SessionsInTurn == Spec => InTurn
<1>1. SchedulingInv /\ PlacesInv /\ [Next]_vars => StepInTurn
  BY PlacesStep
<1>2. Spec => S!ConsentToTime
  <2>1. StepInTurn => [Consent]_(S!schedulingVars)
    BY DEF StepInTurn
  <2>2. Spec => [][Consent]_(S!schedulingVars)
    BY <1>1, <2>1, BookingInvariant, PlacesInvariant, PTL DEF Spec
  <2>3. QED BY <2>2 DEF S!ConsentToTime, Consent
<1>3. Spec => K!SyncsInOrder
  <2>1. StepInTurn => [InOrder]_(K!calendarVars)
    BY DEF StepInTurn
  <2>2. Spec => [][InOrder]_(K!calendarVars)
    BY <1>1, <2>1, BookingInvariant, PlacesInvariant, PTL DEF Spec
  <2>3. QED BY <2>2 DEF K!SyncsInOrder, InOrder
<1>4. Spec => P!FirstComeFirstServed
  <2>1. StepInTurn => [\A program \in DOMAIN seatPrograms : Turn(program)]_(P!seatVars)
    BY DEF StepInTurn
  <2>2. Spec => [][\A program \in DOMAIN seatPrograms : Turn(program)]_(P!seatVars)
    BY <1>1, <2>1, BookingInvariant, PlacesInvariant, PTL DEF Spec
  <2>3. QED BY <2>2, PTL DEF P!FirstComeFirstServed, Turn
<1>5. Spec => P!VersionsAppendOnly
  <2>1. StepInTurn => [AppendOnly]_(P!seatVars)
    BY DEF StepInTurn
  <2>2. Spec => [][AppendOnly]_(P!seatVars)
    BY <1>1, <2>1, BookingInvariant, PlacesInvariant, PTL DEF Spec
  <2>3. QED BY <2>2 DEF P!VersionsAppendOnly, AppendOnly
<1>6. QED BY <1>2, <1>3, <1>4, <1>5 DEF InTurn

\* Every stored value stays in its type, a week is stored in order and without overlap and
\* covers the time its owner gave, in whatever windows, the windows of an imported calendar
\* likewise and only while the connection is active, and no participant has more active
\* sessions on a day than the largest limit a policy may set.
THEOREM SessionsTypeOK == Spec => []TypeOK
<1>1. SchedulingInv /\ SlotsInv /\ PlacesInv /\ StoresInv => TypeOK
  <2> SUFFICES ASSUME SchedulingInv, SlotsInv, PlacesInv, StoresInv PROVE TypeOK
    OBVIOUS
  <2>1. S!TypeOK /\ K!TypeOK /\ C!TypeOK
    BY DEF SchedulingInv, PlacesInv, CohortsInv
  <2>2. P!TypeOK
    BY DEF PlacesInv, SeatsInv, StoreOK, CountsOK, P!TypeOK
  <2>3. L!SlotsTypeOK
    <3>1. \A p \in SlotPersons, t \in SlotStarts :
            L!SessionsOnDay(p, t) <= MAX_SESSIONS_PER_DAY
      BY OnDayIsCounted DEF StoresInv, DaysInv
    <3>2. QED BY <3>1 DEF L!SlotsTypeOK, StoresInv, DaysInv, SlotsInv
  <2>4. L!CanonicalWeek /\ K!CanonicalBusy
    BY DEF StoresInv, BusyInv
  <2>5. QED BY <2>1, <2>2, <2>3, <2>4 DEF TypeOK
<1>2. QED BY <1>1, BookingInvariant, PlacesInvariant, StoresInvariant, PTL
=============================================================================
