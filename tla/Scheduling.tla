----------------------------- MODULE Scheduling -----------------------------
(***************************************************************************)
(* contracts/mentorship-scheduling: the parties of a registered agreement  *)
(* book sessions, confirm them, and move them by a proposal of one party   *)
(* that the other approves or declines within a window.                    *)
(*                                                                         *)
(* The model starts after initialize.  Times and durations are in one      *)
(* unit; offsets, modes, places and agendas are only compared when a call  *)
(* is repeated, which changes nothing, and are left out.  A participant's  *)
(* index lists the sessions of that participant, none is ever removed, and *)
(* it is derived from the sessions.                                        *)
(***************************************************************************)
EXTENDS Integers, FiniteSets, Storage

CONSTANTS
    Admin,                       \* the address stored by initialize
    Registrars,                  \* addresses the admin appoints registrar
    Persons,
    Matches,                     \* the <<mentor, mentee>> pairs that are registered
    AgreementIds, SessionIds, ProposalIds,
    BookingKeys,                 \* idempotency keys callers pass
    Starts, Durations,           \* start_utc and duration callers pass
    InitialLeadTime,             \* min_lead_time_seconds passed to initialize
    LeadTimes,                   \* min_lead_time_seconds the admin passes
    DefaultPolicy,               \* DEFAULT_RESCHEDULE_NOTICE and DEFAULT_APPROVAL_WINDOW
    Policies,                    \* the <<notice, approval window>> pairs the admin passes
    MinDuration, MaxDuration, MaxLeadTime, MinApprovalWindow, MaxApprovalWindow,
    MAX_SESSIONS_PER_PARTICIPANT, MAX_RESCHEDULES_PER_SESSION,
    MaxTime                      \* bound: ledger timestamp

VARIABLES
    now,         \* env.ledger().timestamp(), positive on a live network
    registrar,   \* DataKey::Registrar
    leadTime,    \* DataKey::MinLeadTime
    policy,      \* DataKey::RescheduleNotice and ApprovalWindow
    agreements,  \* DataKey::Agreement: id -> anchor
    sessions,    \* DataKey::Session: id -> session
    bookings,    \* DataKey::BookingIdem: <<agreement, caller, key>> -> session id
    proposals,   \* DataKey::Reschedule: id -> proposal
    openProposal \* DataKey::OpenReschedule: session id -> proposal id

settings == <<registrar, leadTime, policy>>
schedulingVars == <<settings, agreements, sessions, bookings, proposals, openProposal>>

AgreementAnchor == [mentor : Persons, mentee : Persons, active : BOOLEAN]

\* confirmed holds the parties with a confirmation time; revision is also the
\* length of reschedule_history.
Session ==
    [mentor : Persons, mentee : Persons, start_utc : Nat, duration : Nat,
     status : {"Booked", "Confirmed"}, confirmed : SUBSET Persons, revision : Nat]

RescheduleProposal ==
    [session_id : SessionIds, proposed_by : Persons, new_start_utc : Nat,
     new_duration : Nat, expires_at : Nat, session_revision : Nat,
     status : {"Proposed", "Applied", "Declined"}]

Init ==
    /\ registrar = Admin
    /\ leadTime = InitialLeadTime
    /\ policy = DefaultPolicy
    /\ agreements = Empty
    /\ sessions = Empty
    /\ bookings = Empty
    /\ proposals = Empty
    /\ openProposal = Empty

RequireAdmin(caller) == caller = Admin
RequireRegistrar(caller) == caller = registrar
Parties(s) == {s.mentor, s.mentee}

-----------------------------------------------------------------------------
(* Settings and agreements *)

SetRegistrar(caller, new) ==
    /\ RequireAdmin(caller)
    /\ registrar' = new
    /\ UNCHANGED <<leadTime, policy, agreements, sessions, bookings, proposals, openProposal>>

SetMinLeadTime(caller, lead) ==
    /\ RequireAdmin(caller)
    /\ lead <= MaxLeadTime
    /\ leadTime' = lead
    /\ UNCHANGED <<registrar, policy, agreements, sessions, bookings, proposals, openProposal>>

SetReschedulePolicy(caller, new) ==
    /\ RequireAdmin(caller)
    /\ new[1] <= MaxLeadTime
    /\ new[2] \in MinApprovalWindow..MaxApprovalWindow
    /\ policy' = new
    /\ UNCHANGED <<registrar, leadTime, agreements, sessions, bookings, proposals, openProposal>>

RegisterAgreement(caller, g, mentor, mentee) ==
    /\ RequireRegistrar(caller)
    /\ ~Has(agreements, g)
    /\ mentor # mentee
    /\ agreements' = Set(agreements, g, [mentor |-> mentor, mentee |-> mentee, active |-> TRUE])
    /\ UNCHANGED <<settings, sessions, bookings, proposals, openProposal>>

SetAgreementActive(caller, g, value) ==
    /\ RequireRegistrar(caller)
    /\ Has(agreements, g)
    /\ agreements' = [agreements EXCEPT ![g].active = value]
    /\ UNCHANGED <<settings, sessions, bookings, proposals, openProposal>>

-----------------------------------------------------------------------------
(* Booking and confirmation *)

SessionEnd(start, duration) == start + duration

ValidateSlot(start, duration) ==
    /\ duration \in MinDuration..MaxDuration
    /\ start > now
    /\ start >= now + leadTime

ParticipantSessions(p) == {id \in DOMAIN sessions : p \in Parties(sessions[id])}

Overlaps(s, start, end) ==
    start < SessionEnd(s.start_utc, s.duration) /\ s.start_utc < end

ConflictsWith(p, start, end, exclude) ==
    \E id \in ParticipantSessions(p) \ exclude : Overlaps(sessions[id], start, end)

\* A repeated key returns the session it booked, or an error, and writes nothing.
BookSession(caller, g, id, key, start, duration) ==
    /\ Has(agreements, g) /\ agreements[g].active
    /\ caller \in Parties(agreements[g])
    /\ ~Has(bookings, <<g, caller, key>>)
    /\ ValidateSlot(start, duration)
    /\ ~Has(sessions, id)
    /\ \A p \in Parties(agreements[g]) :
         /\ Cardinality(ParticipantSessions(p)) < MAX_SESSIONS_PER_PARTICIPANT
         /\ ~ConflictsWith(p, start, SessionEnd(start, duration), {})
    /\ sessions' = Set(sessions, id,
           [mentor |-> agreements[g].mentor, mentee |-> agreements[g].mentee,
            start_utc |-> start, duration |-> duration, status |-> "Booked",
            confirmed |-> {}, revision |-> 0])
    /\ bookings' = Set(bookings, <<g, caller, key>>, id)
    /\ UNCHANGED <<settings, agreements, proposals, openProposal>>

\* The second party's confirmation confirms the session.
ConfirmSession(caller, id) ==
    /\ Has(sessions, id)
    /\ caller \in Parties(sessions[id]) \ sessions[id].confirmed
    /\ LET confirmed == sessions[id].confirmed \cup {caller} IN
       sessions' = [sessions EXCEPT
           ![id].confirmed = confirmed,
           ![id].status = IF confirmed = Parties(sessions[id]) THEN "Confirmed" ELSE @]
    /\ UNCHANGED <<settings, agreements, bookings, proposals, openProposal>>

-----------------------------------------------------------------------------
(* Rescheduling *)

\* Fault: the conflict check of the proposal is trusted at the approval.
FaultStillFree(s, id, start, duration) == TRUE
StillFree(s, id, start, duration) ==
    \A p \in Parties(s) : ~ConflictsWith(p, start, SessionEnd(start, duration), {id})

\* An open proposal blocks a new one until it lapses.
ProposalPending(id) ==
    /\ Has(openProposal, id)
    /\ proposals[openProposal[id]].status = "Proposed"
    /\ now <= proposals[openProposal[id]].expires_at

\* A lapsed open proposal is removed with its pointer.  A known id is a replay.
ProposeReschedule(caller, id, pid, start, duration) ==
    LET s     == sessions[id]
        stale == IF Has(openProposal, id) THEN {openProposal[id]} ELSE {}
        limit == now + policy[2]
    IN  /\ Has(sessions, id)
        /\ caller \in Parties(s)
        /\ ~Has(proposals, pid)
        /\ s.revision < MAX_RESCHEDULES_PER_SESSION
        /\ now + policy[1] <= s.start_utc
        /\ ValidateSlot(start, duration)
        /\ <<start, duration>> # <<s.start_utc, s.duration>>
        /\ ~ProposalPending(id)
        /\ \A p \in Parties(s) : ~ConflictsWith(p, start, SessionEnd(start, duration), {id})
        /\ proposals' = Set(Remove(proposals, stale), pid,
               [session_id |-> id, proposed_by |-> caller, new_start_utc |-> start,
                new_duration |-> duration,
                expires_at |-> IF limit > s.start_utc THEN s.start_utc ELSE limit,
                session_revision |-> s.revision, status |-> "Proposed"])
        /\ openProposal' = Set(openProposal, id, pid)
        /\ UNCHANGED <<settings, agreements, sessions, bookings>>

MayRespond(caller, r) == caller \in Parties(sessions[r.session_id]) \ {r.proposed_by}

ApproveReschedule(caller, pid) ==
    LET r  == proposals[pid]
        id == r.session_id
        s  == sessions[id]
    IN  /\ Has(proposals, pid)
        /\ MayRespond(caller, r)
        /\ r.status = "Proposed"
        /\ now <= r.expires_at
        /\ s.revision = r.session_revision
        /\ s.revision < MAX_RESCHEDULES_PER_SESSION
        /\ StillFree(s, id, r.new_start_utc, r.new_duration)
        /\ sessions' = [sessions EXCEPT ![id] =
               [s EXCEPT !.start_utc = r.new_start_utc, !.duration = r.new_duration,
                         !.revision = @ + 1, !.status = "Booked", !.confirmed = {}]]
        /\ proposals' = [proposals EXCEPT ![pid].status = "Applied"]
        /\ openProposal' = Remove(openProposal, {id})
        /\ UNCHANGED <<settings, agreements, bookings>>

DeclineReschedule(caller, pid) ==
    /\ Has(proposals, pid)
    /\ MayRespond(caller, proposals[pid])
    /\ proposals[pid].status = "Proposed"
    /\ proposals' = [proposals EXCEPT ![pid].status = "Declined"]
    /\ openProposal' = Remove(openProposal, {proposals[pid].session_id})
    /\ UNCHANGED <<settings, agreements, sessions, bookings>>

Next ==
    \/ \E caller \in Registrars \cup {Admin} :
           \/ \E new \in Registrars \cup {Admin} : SetRegistrar(caller, new)
           \/ \E lead \in LeadTimes : SetMinLeadTime(caller, lead)
           \/ \E p \in Policies : SetReschedulePolicy(caller, p)
           \/ \E g \in AgreementIds :
                  \/ \E m \in Matches : RegisterAgreement(caller, g, m[1], m[2])
                  \/ \E value \in BOOLEAN : SetAgreementActive(caller, g, value)
    \/ \E caller \in Persons, start \in Starts, duration \in Durations, id \in SessionIds :
           \/ \E g \in AgreementIds, key \in BookingKeys :
                  BookSession(caller, g, id, key, start, duration)
           \/ \E pid \in ProposalIds : ProposeReschedule(caller, id, pid, start, duration)
    \/ \E caller \in Persons :
           \/ \E id \in SessionIds : ConfirmSession(caller, id)
           \/ \E pid \in ProposalIds :
                  \/ ApproveReschedule(caller, pid)
                  \/ DeclineReschedule(caller, pid)

AdvanceTime == now < MaxTime /\ now' = now + 1 /\ UNCHANGED schedulingVars

Spec == now = 1 /\ Init /\ [][(Next /\ UNCHANGED now) \/ AdvanceTime]_<<now, schedulingVars>>

-----------------------------------------------------------------------------
(* Properties *)

\* Every stored value stays in its type: sessions of known parties, a booking key only
\* for a stored session, a proposal only for a stored session.
TypeOK ==
    /\ now \in Nat
    /\ registrar \in Registrars \cup {Admin}
    /\ leadTime \in 0..MaxLeadTime
    /\ policy[1] \in 0..MaxLeadTime /\ policy[2] \in MinApprovalWindow..MaxApprovalWindow
    /\ \A g \in DOMAIN agreements : agreements[g] \in AgreementAnchor
    /\ \A id \in DOMAIN sessions : sessions[id] \in Session
    /\ \A b \in DOMAIN bookings : bookings[b] \in DOMAIN sessions
    /\ \A pid \in DOMAIN proposals :
         proposals[pid] \in RescheduleProposal /\ Has(sessions, proposals[pid].session_id)

\* No person is in two sessions at once, whatever was booked, through other
\* agreements too, between the proposal of a new time and its approval
\* (book_session, approve_reschedule: ScheduleConflict).
NoDoubleBooking ==
    \A i, j \in DOMAIN sessions :
        i # j /\ Parties(sessions[i]) \cap Parties(sessions[j]) # {} =>
            ~Overlaps(sessions[i], sessions[j].start_utc,
                      SessionEnd(sessions[j].start_utc, sessions[j].duration))

\* At most one proposal of a session can still be answered, it is the one the open
\* pointer names, and it was made for the session's current time: an approval can
\* never apply to a time the other party did not see.
OneOpenProposal ==
    \A pid \in DOMAIN proposals :
        LET r == proposals[pid] IN
        r.status = "Proposed" =>
            /\ Has(openProposal, r.session_id) /\ openProposal[r.session_id] = pid
            /\ r.session_revision = sessions[r.session_id].revision

\* A session counts as confirmed only with both confirmations, and its time changes
\* only by the other party's answer to a live proposal, which voids both.
ConsentToTime ==
    [][\A id \in DOMAIN sessions :
         LET s == sessions[id]
             t == sessions'[id]
         IN  /\ t.status = "Confirmed" => t.confirmed = Parties(t)
             /\ <<t.start_utc, t.duration>> # <<s.start_utc, s.duration>> =>
                  /\ t.status = "Booked" /\ t.confirmed = {}
                  /\ \E pid \in DOMAIN proposals :
                       proposals[pid].session_id = id /\ now <= proposals[pid].expires_at
                         /\ proposals'[pid].status = "Applied"]_schedulingVars
=============================================================================
