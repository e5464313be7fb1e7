------------------------------ MODULE Sessions ------------------------------
(***************************************************************************)
(* The contracts around a mentorship's time and places: session            *)
(* scheduling, slots over participants' availability, calendar imports,    *)
(* cohorts, and program seats with their waitlist.  Only the slots call    *)
(* another contract (availability, modelled with them); the others share   *)
(* nothing, so their steps commute and a behaviour exercises one of them,  *)
(* chosen at the start, and the clock.                                     *)
(***************************************************************************)
EXTENDS Integers, Sequences, TLC

CONSTANTS
    Admin, Registrars, Mentors, Mentees, AgreementIds, SessionIds, ProposalIds, BookingKeys,
    Starts, Durations, MinDuration, MaxDuration,
    InitialLeadTime, LeadTimes, MaxLeadTime, DefaultNotice, Notices,
    DefaultWindow, Windows, MinApprovalWindow, MaxApprovalWindow,
    MAX_SESSIONS_PER_PARTICIPANT, MAX_RESCHEDULES_PER_SESSION, MaxScheduling,
    ScheduleInputs, ExceptionIds, ExceptionInputs, OtherContract, AvailabilityAddress,
    DayLength, WestmostOffset, EastmostOffset, MAX_WEEKLY_WINDOWS, MAX_OFFSET_CHANGES,
    MAX_EXCEPTIONS, MaxExceptionSpan, MaxLead, MaxBuffer, MaxHorizonDays, MaxScheduleVersion,
    Programs, EveryProgram, PolicyInputs, SlotPersons, BlackoutIds, BlackoutRanges,
    BookingIds, SlotStarts, MinSession, MaxSession, MinGranularity, MaxGranularity,
    MAX_SESSIONS_PER_DAY, MAX_BLACKOUTS, MaxBlackoutSpan, MAX_BOOKINGS_PER_PARTICIPANT,
    SearchEnd, MaxSlots,
    Owners, ConnectionIds, ScopeMasks, CalendarExpiries, Epochs, PayloadHashes, ZeroHash,
    BusyLists, MAX_CONNECTIONS_PER_OWNER, MAX_BUSY_WINDOWS, MaxWindowSpan, MaxSyncHorizon,
    MaxCalendar,
    Coordinators, CohortIds, Participants, CohortDates, CohortCapacities, MAX_COORDINATORS,
    MaxCohorts,
    Organizers, SeatPrograms, Applicants, SeatCapacities, OfferTtls, MAX_WAITLIST_SIZE,
    ContractIds, Terms, MAX_VERSIONS_PER_CONTRACT, MaxSeats

\* Every time, duration and limit a caller passes is an unsigned integer; initialize
\* validates the lead time it stores, and the defaults and limits are the code's
\* constants: a day and the shortest session are not empty.
ASSUME SchedulingConstants ==
    /\ Starts \subseteq Nat /\ Durations \subseteq Nat
    /\ LeadTimes \subseteq Nat /\ Notices \subseteq Nat /\ Windows \subseteq Nat
    /\ MaxLeadTime \in Nat /\ MinApprovalWindow \in Nat /\ MaxApprovalWindow \in Nat
    /\ InitialLeadTime \in 0..MaxLeadTime /\ DefaultNotice \in 0..MaxLeadTime
    /\ DefaultWindow \in MinApprovalWindow..MaxApprovalWindow
ASSUME SlotsConstants ==
    /\ DayLength \in Nat \ {0} /\ MinSession \in Nat \ {0} /\ MaxSession \in Nat
    /\ SlotStarts \subseteq Nat /\ SearchEnd \in Nat
    /\ \A in \in ScheduleInputs :
         {in.lead, in.before, in.after, in.horizon, in.from, in.until} \subseteq Nat
ASSUME PlacesConstants ==
    /\ Epochs \subseteq Nat
    /\ CohortCapacities \subseteq Nat
    /\ \A dates \in CohortDates : dates[1] \in Nat /\ dates[2] \in Nat
    /\ SeatCapacities \subseteq Nat /\ OfferTtls \subseteq Nat
ASSUME WindowsConstants ==
    /\ \A in \in ScheduleInputs :
         in.weekly \in Seq([weekday : Nat, start : Nat, end : Nat])
    /\ \A windows \in BusyLists : windows \in Seq(Nat \X Nat)
    /\ MAX_SESSIONS_PER_DAY \in Nat

VARIABLES
    focus, now,
    registrar, leadTime, policy, agreements, sessions, bookings, proposals, openProposal,
    schedules, exceptions, availability, policies, blackouts, slotBookings,
    connections, busy,
    cohorts, enrollments,
    seatPrograms, waitlists, seats, versions

Persons == Mentors \cup Mentees

\* Ids, mentees and the people who book slots are interchangeable.
Interchangeable ==
    UNION {Permutations(ids) : ids \in {Mentees, AgreementIds, SessionIds, BookingIds,
                                         SlotPersons}}

S == INSTANCE Scheduling WITH
        Matches <- Mentors \X Mentees,
        DefaultPolicy <- <<DefaultNotice, DefaultWindow>>, Policies <- Notices \X Windows,
        MaxTime <- MaxScheduling

L == INSTANCE Slots WITH
        Callers <- {Admin} \cup Mentors,
        MinOffset <- -WestmostOffset, MaxOffset <- EastmostOffset,
        Persons <- SlotPersons,
        AvailabilityContract <- AvailabilityAddress,
        AvailabilityContracts <- {AvailabilityAddress, OtherContract},
        GlobalProgram <- EveryProgram

K == INSTANCE Calendar WITH Expiries <- CalendarExpiries

C == INSTANCE Cohorts WITH CoordinatorSets <- SUBSET Coordinators

P == INSTANCE Seats WITH Parties <- Mentors \X Mentees

\* The inputs of the instance.  Days of four units, the first one a Thursday.  One
\* participant's windows overlap; the other's clock is put back one unit during the
\* first day.
Window(weekday, start, end) == [weekday |-> weekday, start |-> start, end |-> end]
TwoDays ==
    [offset |-> 0, changes |-> <<>>,
     weekly |-> <<Window(4, 1, 4), Window(4, 2, 3), Window(5, 0, 2)>>,
     lead |-> 0, before |-> 0, after |-> 1, horizon |-> 2, from |-> 1, until |-> 0]
ClockChange ==
    [TwoDays EXCEPT !.offset = 1, !.changes = <<[from |-> 2, offset |-> 0]>>,
                    !.weekly = <<Window(4, 1, 4), Window(5, 0, 1)>>,
                    !.lead = 1, !.after = 0, !.until = 7]
Weeks == {TwoDays, ClockChange}
OneOffs == {[kind |-> "Unavailable", from |-> 2, until |-> 3],
            [kind |-> "Available", from |-> 4, until |-> 5]}
SessionRules == {<<2, 1, 2>>, <<3, 2, 1>>}
Closures == {<<3, 4>>}
Scopes == {{"FREE_BUSY"}, {"TIMEZONE"}, {"FREE_BUSY", "EVENT_DETAILS"}}
Imports == {<<>>, <<<<3, 5>>, <<1, 3>>>>, <<<<4, 5>>, <<1, 2>>>>, <<<<1, 5>>, <<2, 3>>>>}
Dates == {<<1, 2, 3, 4>>, <<1, 3, 4, 5>>}

schedulingVars ==
    <<registrar, leadTime, policy, agreements, sessions, bookings, proposals, openProposal>>
slotVars == <<schedules, exceptions, availability, policies, blackouts, slotBookings>>
calendarVars == <<connections, busy>>
cohortVars == <<cohorts, enrollments>>
seatVars == <<seatPrograms, waitlists, seats, versions>>
vars == <<focus, now, schedulingVars, slotVars, calendarVars, cohortVars, seatVars>>

Init ==
    /\ focus \in {"scheduling", "slots", "calendar", "cohorts", "seats"}
    /\ now = 1
    /\ S!Init /\ L!SlotsInit /\ K!Init /\ C!Init /\ P!Init

\* The contracts read the ledger's clock, which only goes forward.
Tick(bound) == now < bound /\ now' = now + 1

Next ==
    /\ UNCHANGED focus
    /\ \/ /\ focus = "scheduling"
          /\ \/ S!Next /\ UNCHANGED now
             \/ S!AdvanceTime
          /\ UNCHANGED <<slotVars, calendarVars, cohortVars, seatVars>>
       \/ /\ focus = "slots"
          /\ \/ L!Next /\ UNCHANGED <<now, availability, policies, blackouts, slotBookings>>
             \/ L!SlotsNext /\ UNCHANGED <<now, schedules, exceptions>>
             \/ Tick(MaxSlots) /\ UNCHANGED slotVars
          /\ UNCHANGED <<schedulingVars, calendarVars, cohortVars, seatVars>>
       \/ /\ focus = "calendar"
          /\ \/ K!Next /\ UNCHANGED now
             \/ Tick(MaxCalendar) /\ UNCHANGED calendarVars
          /\ UNCHANGED <<schedulingVars, slotVars, cohortVars, seatVars>>
       \/ /\ focus = "cohorts"
          /\ \/ C!Next /\ UNCHANGED now
             \/ Tick(MaxCohorts) /\ UNCHANGED cohortVars
          /\ UNCHANGED <<schedulingVars, slotVars, calendarVars, seatVars>>
       \/ /\ focus = "seats"
          /\ \/ P!Next /\ UNCHANGED now
             \/ Tick(MaxSeats) /\ UNCHANGED seatVars
          /\ UNCHANGED <<schedulingVars, slotVars, calendarVars, cohortVars>>

Spec == Init /\ [][Next]_vars

-----------------------------------------------------------------------------
(* The properties of the contracts *)

\* Every stored value of the five parts stays in its type, and the stored windows of a week
\* and of an imported calendar are canonical.
TypeOK ==
    /\ S!TypeOK /\ L!SlotsTypeOK /\ K!TypeOK /\ C!TypeOK /\ P!TypeOK
    /\ L!CanonicalWeek /\ K!CanonicalBusy

\* Nobody is in two places at once: sessions (through any agreement, whatever was booked
\* between the proposal of a new time and its approval) and slots of one person never
\* overlap, every slot the search offers can really be booked, and at most one proposal of
\* a session can still be answered.
NoDoubleBooking ==
    /\ S!NoDoubleBooking /\ S!OneOpenProposal
    /\ L!NoOverlappingSlots /\ L!OffersAreBookable

\* The counters of cohorts and of program seats are the enrolments and seats they stand for
\* and stay within the capacity, and the queue holds exactly who waits.
SeatsExact == C!SeatsExact /\ P!SeatCountersExact

\* Nothing is taken out of turn: a session's time changes only by the other party's answer,
\* a late calendar sync never replaces a newer one, seats go to the first in line, and
\* published contract versions are only added to.
InTurn ==
    S!ConsentToTime /\ K!SyncsInOrder /\ P!FirstComeFirstServed /\ P!VersionsAppendOnly
=============================================================================
