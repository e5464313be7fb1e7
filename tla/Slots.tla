------------------------------- MODULE Slots -------------------------------
(***************************************************************************)
(* Two contracts, one of which calls the other.                            *)
(*                                                                         *)
(* contracts/mentorship-availability: a participant's recurring weekly     *)
(* schedule in local wall-clock time, its UTC offset changes, and one-off  *)
(* exceptions, materialized into UTC ranges.                               *)
(*                                                                         *)
(* contracts/mentorship-slots: session policies and blackouts of programs, *)
(* the search for common slots of a mentor and a mentee, and bookings of   *)
(* them.  It reads both participants' availability in its transaction.     *)
(*                                                                         *)
(* Time is in one unit (the code counts minutes and seconds): an instant t *)
(* stands for the unit [t, t + 1), and a list of sorted, merged ranges for *)
(* the set of its instants.  A range of that list covers an interval iff   *)
(* all the interval's instants are in the set.  Hashes are left out.  The  *)
(* model starts after initialize.  A participant's booking index is the    *)
(* set of its bookings, none is ever removed from it.                      *)
(***************************************************************************)
EXTENDS Integers, Sequences, FiniteSetsExt, Functions, Storage

CONSTANTS
    Persons,
    ScheduleInputs,              \* the ScheduleInput values participants pass
    ExceptionIds, ExceptionInputs,
    DayLength,                   \* SECONDS_PER_DAY, and MINUTES_PER_DAY in the same unit
    MinOffset, MaxOffset,        \* MIN_UTC_OFFSET_SECONDS, MAX_UTC_OFFSET_SECONDS
    MAX_WEEKLY_WINDOWS, MAX_OFFSET_CHANGES, MAX_EXCEPTIONS, MaxExceptionSpan,
    MaxLead, MaxBuffer, MaxHorizonDays,
    MaxScheduleVersion,          \* bound: versions of one schedule
    Admin, Callers,              \* the stored admin, and who calls admin operations
    AvailabilityContracts,       \* addresses the admin may point the contract to
    AvailabilityContract,        \* the one that runs mentorship-availability
    Programs, GlobalProgram,     \* the zero id: a blackout of every program
    PolicyInputs,                \* <<duration, granularity, sessions per day>>
    BlackoutIds, BlackoutRanges, \* <<from, until>>
    BookingIds, SlotStarts,
    MinSession, MaxSession, MinGranularity, MaxGranularity,
    MAX_SESSIONS_PER_DAY, MAX_BLACKOUTS, MaxBlackoutSpan, MAX_BOOKINGS_PER_PARTICIPANT,
    SearchEnd                    \* bound: the end of a search that starts now

VARIABLES
    now,        \* env.ledger().timestamp()
    schedules,  \* DataKey::Schedule: participant -> schedule
    exceptions, \* DataKey::Exception: participant -> id -> exception
    availability, \* DataKey::Availability
    policies,      \* DataKey::ProgramPolicy: program -> policy
    blackouts,     \* DataKey::Blackout: id -> blackout
    slotBookings   \* DataKey::Booking: id -> booking

availabilityVars == <<schedules, exceptions>>

Seqs == INSTANCE SequencesExt

EPOCH_WEEKDAY_OFFSET == 4

Init == schedules = Empty /\ exceptions = [p \in Persons |-> Empty]

-----------------------------------------------------------------------------
(* The schedule *)

ValidWindow(w) ==
    /\ w.weekday \in 0..6
    /\ w.start < w.end
    /\ w.start < DayLength
    /\ w.end <= DayLength

InOrder(v, w) == v.weekday < w.weekday \/ (v.weekday = w.weekday /\ v.start <= w.start)

MergeWindow(list, w) ==
    IF list # <<>> /\ Seqs!Last(list).weekday = w.weekday /\ w.start <= Seqs!Last(list).end
    THEN [list EXCEPT ![Len(list)].end = IF w.end > @ THEN w.end ELSE @]
    ELSE Append(list, w)

NormalizeWindows(weekly) == Seqs!FoldLeft(MergeWindow, <<>>, weekly)

ValidWindows(weekly) ==
    /\ Len(weekly) \in 1..MAX_WEEKLY_WINDOWS
    /\ \A i \in 1..Len(weekly) : ValidWindow(weekly[i])
    /\ \A i \in 2..Len(weekly) : InOrder(weekly[i - 1], weekly[i])

ValidateOffset(offset) == offset \in MinOffset..MaxOffset

\* Changes are strictly ordered, from a positive time, and each one changes the offset.
ValidOffsetChanges(offset, changes) ==
    LET previous(i) == IF i = 1 THEN [from |-> 0, offset |-> offset] ELSE changes[i - 1] IN
    /\ Len(changes) <= MAX_OFFSET_CHANGES
    /\ \A i \in 1..Len(changes) :
         /\ changes[i].from > previous(i).from
         /\ ValidateOffset(changes[i].offset)
         /\ changes[i].offset # previous(i).offset

ValidScheduleInput(in) ==
    /\ ValidateOffset(in.offset)
    /\ ValidOffsetChanges(in.offset, in.changes)
    /\ ValidWindows(in.weekly)
    /\ in.lead <= MaxLead
    /\ in.before <= MaxBuffer /\ in.after <= MaxBuffer
    /\ in.horizon \in 1..MaxHorizonDays
    /\ in.from # 0 /\ (in.until # 0 => in.until > in.from)

NextVersion(p) == IF Has(schedules, p) THEN schedules[p].version + 1 ELSE 1

SetSchedule(p, in) ==
    /\ ValidScheduleInput(in)
    /\ NextVersion(p) <= MaxScheduleVersion
    /\ schedules' = Set(schedules, p,
           [offset |-> in.offset, changes |-> in.changes,
            weekly |-> NormalizeWindows(in.weekly), lead |-> in.lead,
            before |-> in.before, after |-> in.after, horizon |-> in.horizon,
            from |-> in.from, until |-> in.until,
            enabled |-> TRUE, version |-> NextVersion(p)])
    /\ UNCHANGED exceptions

\* Repeating the stored value is accepted and writes nothing.
SetEnabled(p, enabled) ==
    /\ Has(schedules, p)
    /\ schedules[p].enabled # enabled
    /\ NextVersion(p) <= MaxScheduleVersion
    /\ schedules' = [schedules EXCEPT ![p].enabled = enabled, ![p].version = @ + 1]
    /\ UNCHANGED exceptions

AddException(p, id, in) ==
    /\ in.from # 0 /\ in.from < in.until
    /\ in.until - in.from <= MaxExceptionSpan
    /\ ~Has(exceptions[p], id)
    /\ Cardinality(DOMAIN exceptions[p]) < MAX_EXCEPTIONS
    /\ exceptions' = [exceptions EXCEPT ![p] = Set(@, id, in)]
    /\ UNCHANGED schedules

RemoveException(p, id) ==
    /\ Has(exceptions[p], id)
    /\ exceptions' = [exceptions EXCEPT ![p] = Remove(@, {id})]
    /\ UNCHANGED schedules

Next ==
    \E p \in Persons :
        \/ \E in \in ScheduleInputs : SetSchedule(p, in)
        \/ \E enabled \in BOOLEAN : SetEnabled(p, enabled)
        \/ \E id \in ExceptionIds :
               \/ \E in \in ExceptionInputs : AddException(p, id, in)
               \/ RemoveException(p, id)

-----------------------------------------------------------------------------
(* Materialization *)

OffsetAt(s, t) ==
    LET past == {i \in 1..Len(s.changes) : s.changes[i].from <= t} IN
    IF past = {} THEN s.offset ELSE s.changes[Max(past)].offset

\* The instants at which the participant's wall clock shows the local time: none in
\* a gap, the earliest wins when the clock shows it twice.
UtcCandidates(s, local) ==
    LET offsets == {s.offset} \cup {s.changes[i].offset : i \in 1..Len(s.changes)} IN
    {t \in {local - o : o \in offsets} : t >= 0 /\ OffsetAt(s, t) = local - t}
LocalExists(s, local) == local >= 0 /\ UtcCandidates(s, local) # {}
LocalToUtc(s, local) == Min(UtcCandidates(s, local))

Instants(start, end) == start..(end - 1)

\* The local days that can reach into a UTC day, and the weekday of each.
LocalDays(day) ==
    ((day * DayLength + MinOffset) \div DayLength)..
        (((day + 1) * DayLength + MaxOffset - 1) \div DayLength)
WeekdayOf(localDay) == (localDay + EPOCH_WEEKDAY_OFFSET) % 7

WindowInstants(s, localDay, w) ==
    LET start == localDay * DayLength + w.start
        end   == localDay * DayLength + w.end
    IN  IF LocalExists(s, start) /\ LocalExists(s, end)
        THEN Instants(LocalToUtc(s, start), LocalToUtc(s, end))
        ELSE {}

WeeklyInstants(s, day) ==
    Instants(day * DayLength, (day + 1) * DayLength) \cap
        UNION {UNION {WindowInstants(s, localDay, w) :
                          w \in {v \in Range(s.weekly) : v.weekday = WeekdayOf(localDay)}} :
                   localDay \in LocalDays(day)}

ExceptionInstants(p, kind) ==
    UNION {Instants(exceptions[p][id].from, exceptions[p][id].until) :
               id \in {i \in DOMAIN exceptions[p] : exceptions[p][i].kind = kind}}

ComputeRanges(p, start, end) ==
    LET weekly == UNION {WeeklyInstants(schedules[p], day) :
                             day \in (start \div DayLength)..((end - 1) \div DayLength)}
    IN  ((weekly \cup ExceptionInstants(p, "Available")) \cap Instants(start, end))
            \ ExceptionInstants(p, "Unavailable")

BookableFrom(p, from) == Max({from, schedules[p].from, now + schedules[p].lead})
BookableUntil(p, until) ==
    Min({until, now + schedules[p].horizon * DayLength}
            \cup (IF schedules[p].until # 0 THEN {schedules[p].until} ELSE {}))

\* An empty bookable window has no ranges.
AvailableRanges(p, from, until) ==
    IF schedules[p].enabled /\ BookableFrom(p, from) < BookableUntil(p, until)
    THEN ComputeRanges(p, BookableFrom(p, from), BookableUntil(p, until))
    ELSE {}

IsAvailable(p, start, end) ==
    /\ Has(schedules, p)
    /\ BookableFrom(p, start) = start /\ BookableUntil(p, end) = end
    /\ Instants(start, end) \subseteq AvailableRanges(p, start, end)

-----------------------------------------------------------------------------
(* Bookings: state *)

slotVars == <<availability, policies, blackouts, slotBookings>>

Booking ==
    [mentor : Persons, mentee : Persons, program : Programs, start : Nat, end : Nat,
     state : {"Active", "Cancelled"}]

SlotsInit ==
    /\ Init
    /\ availability = AvailabilityContract
    /\ policies = Empty
    /\ blackouts = Empty
    /\ slotBookings = Empty

RequireAdmin(caller) == caller = Admin

-----------------------------------------------------------------------------
(* Policies and blackouts *)

SetAvailabilityContract(caller, address) ==
    /\ RequireAdmin(caller)
    /\ availability' = address
    /\ UNCHANGED <<policies, blackouts, slotBookings>>

SetProgramPolicy(caller, program, in) ==
    /\ RequireAdmin(caller)
    /\ in[1] \in MinSession..MaxSession
    /\ in[2] \in MinGranularity..MaxGranularity
    /\ in[1] % in[2] = 0
    /\ in[3] \in 1..MAX_SESSIONS_PER_DAY
    /\ policies' = Set(policies, program, [duration |-> in[1], granularity |-> in[2],
                                           perDay |-> in[3]])
    /\ UNCHANGED <<availability, blackouts, slotBookings>>

SetBlackout(caller, id, program, range) ==
    /\ RequireAdmin(caller)
    /\ range[1] # 0 /\ range[1] < range[2]
    /\ range[2] - range[1] <= MaxBlackoutSpan
    /\ ~Has(blackouts, id)
    /\ Cardinality(DOMAIN blackouts) < MAX_BLACKOUTS
    /\ blackouts' = Set(blackouts, id, [program |-> program, from |-> range[1],
                                        until |-> range[2]])
    /\ UNCHANGED <<availability, policies, slotBookings>>

RemoveBlackout(caller, id) ==
    /\ RequireAdmin(caller)
    /\ Has(blackouts, id)
    /\ blackouts' = Remove(blackouts, {id})
    /\ UNCHANGED <<availability, policies, slotBookings>>

-----------------------------------------------------------------------------
(* Slots of a mentor and a mentee *)

BookingsOf(p) == {id \in DOMAIN slotBookings : p \in {slotBookings[id].mentor,
                                                      slotBookings[id].mentee}}
ActiveBookingsOf(p) == {id \in BookingsOf(p) : slotBookings[id].state = "Active"}

ReadableSummary(p) == availability = AvailabilityContract /\ Has(schedules, p)

BlackoutOverlaps(program, start, end) ==
    \E id \in DOMAIN blackouts :
        /\ blackouts[id].program \in {program, GlobalProgram}
        /\ blackouts[id].from < end /\ blackouts[id].until > start

\* The participant's buffers guard every active booking; the subtraction saturates.
BookingsConflict(p, start, end) ==
    \E id \in ActiveBookingsOf(p) :
        /\ slotBookings[id].start - schedules[p].before < end
        /\ slotBookings[id].end + schedules[p].after > start

SessionsOnDay(p, t) ==
    Cardinality({id \in ActiveBookingsOf(p) :
                     slotBookings[id].start \div DayLength = t \div DayLength})

ValidateParticipantSlot(p, program, start, end) ==
    /\ schedules[p].enabled
    /\ Instants(start, end) \subseteq AvailableRanges(p, start, end)
    /\ ~BlackoutOverlaps(program, start, end)
    /\ ~BookingsConflict(p, start, end)
    /\ SessionsOnDay(p, start) < policies[program].perDay

LeadTime(m, e) == Max({schedules[m].lead, schedules[e].lead})
Horizon(m, e) == Min({schedules[m].horizon, schedules[e].horizon}) * DayLength

ValidateSlot(mentor, mentee, program, start) ==
    LET end == start + policies[program].duration IN
    /\ ReadableSummary(mentor) /\ ReadableSummary(mentee)
    /\ start >= now + LeadTime(mentor, mentee)
    /\ end <= now + Horizon(mentor, mentee)
    /\ \A p \in {mentor, mentee} : ValidateParticipantSlot(p, program, start, end)

\* The starts find_slots offers, in any page: the search is cut at the common lead
\* time and horizon, and candidates are multiples of the granularity in the overlaps
\* of the two participants' ranges.
FindSlots(mentor, mentee, program, from, until) ==
    LET policy == policies[program]
        start  == Max({from, now + LeadTime(mentor, mentee)})
        end    == Min({until, now + Horizon(mentor, mentee)})
        common == AvailableRanges(mentor, start, end) \cap AvailableRanges(mentee, start, end)
    IN  IF end <= start THEN {}
        ELSE {c \in start..end :
                /\ c % policy.granularity = 0
                /\ Instants(c, c + policy.duration) \subseteq common
                /\ ~BlackoutOverlaps(program, c, c + policy.duration)
                /\ \A p \in {mentor, mentee} :
                     /\ ~BookingsConflict(p, c, c + policy.duration)
                     /\ SessionsOnDay(p, c) < policy.perDay}

\* Both parties sign.  A repeated booking returns the stored one and writes nothing.
BookSlot(id, mentor, mentee, program, start) ==
    /\ mentor # mentee
    /\ Has(policies, program)
    /\ ~Has(slotBookings, id)
    /\ ValidateSlot(mentor, mentee, program, start)
    /\ \A p \in {mentor, mentee} : Cardinality(BookingsOf(p)) < MAX_BOOKINGS_PER_PARTICIPANT
    /\ slotBookings' = Set(slotBookings, id,
           [mentor |-> mentor, mentee |-> mentee, program |-> program, start |-> start,
            end |-> start + policies[program].duration, state |-> "Active"])
    /\ UNCHANGED <<availability, policies, blackouts>>

CancelBooking(caller, id) ==
    /\ Has(slotBookings, id)
    /\ caller \in {slotBookings[id].mentor, slotBookings[id].mentee}
    /\ slotBookings[id].state = "Active"
    /\ slotBookings' = [slotBookings EXCEPT ![id].state = "Cancelled"]
    /\ UNCHANGED <<availability, policies, blackouts>>

SlotsNext ==
    \/ \E caller \in Callers :
           \/ \E address \in AvailabilityContracts : SetAvailabilityContract(caller, address)
           \/ \E program \in Programs, in \in PolicyInputs : SetProgramPolicy(caller, program, in)
           \/ \E id \in BlackoutIds, program \in Programs \cup {GlobalProgram},
                 range \in BlackoutRanges : SetBlackout(caller, id, program, range)
           \/ \E id \in BlackoutIds : RemoveBlackout(caller, id)
    \/ \E id \in BookingIds, mentor, mentee \in Persons, program \in Programs,
          start \in SlotStarts : BookSlot(id, mentor, mentee, program, start)
    \/ \E caller \in Persons, id \in BookingIds : CancelBooking(caller, id)

-----------------------------------------------------------------------------
(* Properties *)

Hours(weekly) ==
    UNION {{<<weekly[i].weekday, t>> : t \in weekly[i].start..(weekly[i].end - 1)} :
              i \in DOMAIN weekly}

\* A stored schedule is canonical: windows ordered, disjoint and not even touching,
\* whatever overlaps the participant passed (normalize_windows), and they cover exactly
\* the time the participant passed.
CanonicalWeek ==
    \A p \in DOMAIN schedules :
        LET weekly == schedules[p].weekly IN
        /\ \A i \in 2..Len(weekly) :
               \/ weekly[i - 1].weekday < weekly[i].weekday
               \/ weekly[i - 1].weekday = weekly[i].weekday /\ weekly[i - 1].end < weekly[i].start
        /\ \E in \in ScheduleInputs : Hours(weekly) = Hours(in.weekly)

\* Every stored value stays in its type, and no participant has more active sessions
\* on a day than the largest limit a policy may set.
SlotsTypeOK ==
    /\ availability \in AvailabilityContracts
    /\ \A id \in DOMAIN slotBookings : slotBookings[id] \in Booking
    /\ \A p \in Persons, t \in SlotStarts : SessionsOnDay(p, t) <= MAX_SESSIONS_PER_DAY

\* Active bookings of one participant never overlap, in whatever program and role, even
\* when policies, buffers and schedules change in between (book_slot).
NoOverlappingSlots ==
    \A i, j \in {b \in DOMAIN slotBookings : slotBookings[b].state = "Active"} :
        i # j /\ {slotBookings[i].mentor, slotBookings[i].mentee} \cap
                 {slotBookings[j].mentor, slotBookings[j].mentee} # {} =>
            slotBookings[i].end <= slotBookings[j].start \/
            slotBookings[j].end <= slotBookings[i].start

\* Every slot the search offers can be booked at that moment: the search and the
\* booking apply the same rules, although each reads availability on its own window.
OffersAreBookable ==
    \A mentor, mentee \in Persons, program \in DOMAIN policies :
        mentor # mentee /\ ReadableSummary(mentor) /\ ReadableSummary(mentee) =>
            \A start \in FindSlots(mentor, mentee, program, now, SearchEnd) :
                ValidateSlot(mentor, mentee, program, start)
=============================================================================
