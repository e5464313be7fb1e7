------------------------------- MODULE Seats -------------------------------
(***************************************************************************)
(* contracts/mentorship-contracts: versions of a mentorship contract that  *)
(* both parties publish, and seats in a program of limited capacity:       *)
(* offers with a deadline, confirmations, and a first-come waitlist that   *)
(* is promoted when a seat is free.                                        *)
(*                                                                         *)
(* The waitlist's entries between head and tail are a sequence.  Terms     *)
(* are a model value; fees, periods and evidence are checked and stored.   *)
(***************************************************************************)
EXTENDS Integers, Sequences, FiniteSets, Functions, Storage

CONSTANTS
    Organizers, SeatPrograms, Applicants,
    SeatCapacities, OfferTtls,   \* what an organizer may pass, zero included
    MAX_WAITLIST_SIZE,
    ContractIds, Parties,        \* agreements, and the <<mentor, mentee>> that sign
    Terms, MAX_VERSIONS_PER_CONTRACT

VARIABLES
    now,
    seatPrograms, \* DataKey::ProgramCapacity: program -> capacity record
    waitlists,    \* DataKey::WaitlistEntry: program -> participants, first come first
    seats,        \* DataKey::Seat: <<program, participant>> -> seat record
    versions      \* DataKey::ContractVersion: agreement -> versions, the latest last

seatVars == <<seatPrograms, waitlists, seats, versions>>

ProgramCapacity ==
    [organizer : Organizers, capacity : Nat, reserved : Nat, confirmed : Nat,
     ttl : Nat, automatic : BOOLEAN]
\* expires is 0 where the code stores None.
SeatRecord == [state : {"Waitlisted", "Offered", "Confirmed"}, expires : Nat]

Init ==
    /\ seatPrograms = Empty
    /\ waitlists = [p \in SeatPrograms |-> <<>>]
    /\ seats = Empty
    /\ versions = Empty

-----------------------------------------------------------------------------
(* Contract versions *)

\* Both parties sign; the parties of an agreement never change.
Publish(id, parties, terms) ==
    LET old == Get(versions, id, <<>>) IN
    /\ parties[1] # parties[2]
    /\ Len(old) < MAX_VERSIONS_PER_CONTRACT
    /\ old # <<>> => old[Len(old)].parties = parties
    /\ versions' = Set(versions, id, Append(old, [parties |-> parties, terms |-> terms]))
    /\ UNCHANGED <<seatPrograms, waitlists, seats>>

-----------------------------------------------------------------------------
(* Programs and promotion *)

Committed(p) == p.reserved + p.confirmed

\* Promotion works on <<capacity record, waitlist, seats>> of a program: the first in
\* line gets an offer for a free seat.
CanPromote(s) == Committed(s[1]) < s[1].capacity /\ s[2] # <<>>
Offer(p) == [state |-> "Offered", expires |-> now + p.ttl]
PromoteNextInternal(program, s) ==
    <<[s[1] EXCEPT !.reserved = @ + 1], Tail(s[2]),
      Set(s[3], <<program, Head(s[2])>>, Offer(s[1]))>>

\* As many promotions as there are free seats and people waiting.
PromoteAll(program, s) ==
    LET free  == s[1].capacity - Committed(s[1])
        n     == IF Len(s[2]) < free THEN Len(s[2]) ELSE free
        all[k \in 0..n] == IF k = 0 THEN s ELSE PromoteNextInternal(program, all[k - 1])
    IN  all[n]

Write(program, s) ==
    /\ seatPrograms' = Set(seatPrograms, program, s[1])
    /\ waitlists' = [waitlists EXCEPT ![program] = s[2]]
    /\ seats' = s[3]
    /\ UNCHANGED versions

CreateProgram(organizer, program, capacity, ttl, automatic) ==
    /\ capacity # 0 /\ ttl # 0
    /\ ~Has(seatPrograms, program)
    /\ seatPrograms' = Set(seatPrograms, program,
           [organizer |-> organizer, capacity |-> capacity, reserved |-> 0, confirmed |-> 0,
            ttl |-> ttl, automatic |-> automatic])
    /\ UNCHANGED <<waitlists, seats, versions>>

RequireOrganizer(caller, program) ==
    Has(seatPrograms, program) /\ seatPrograms[program].organizer = caller

ConfigureProgram(organizer, program, capacity, ttl, automatic) ==
    LET p == [seatPrograms[program] EXCEPT !.capacity = capacity, !.ttl = ttl,
                                           !.automatic = automatic]
        s == <<p, waitlists[program], seats>>
    IN  /\ RequireOrganizer(organizer, program)
        /\ capacity # 0 /\ ttl # 0
        /\ capacity >= Committed(seatPrograms[program])
        /\ Write(program, IF automatic THEN PromoteAll(program, s) ELSE s)

PromoteNext(organizer, program) ==
    LET s == <<seatPrograms[program], waitlists[program], seats>> IN
    /\ RequireOrganizer(organizer, program)
    /\ CanPromote(s)
    /\ Write(program, PromoteNextInternal(program, s))

-----------------------------------------------------------------------------
(* Seats *)

SeatFree(program) ==
    /\ Committed(seatPrograms[program]) < seatPrograms[program].capacity
    /\ waitlists[program] = <<>>

RequestSeat(who, program) ==
    /\ Has(seatPrograms, program)
    /\ ~Has(seats, <<program, who>>)
    /\ \/ /\ SeatFree(program)
          /\ seatPrograms' = [seatPrograms EXCEPT ![program].reserved = @ + 1]
          /\ seats' = Set(seats, <<program, who>>, Offer(seatPrograms[program]))
          /\ UNCHANGED waitlists
       \/ /\ ~SeatFree(program)
          /\ Len(waitlists[program]) < MAX_WAITLIST_SIZE
          /\ waitlists' = [waitlists EXCEPT ![program] = Append(@, who)]
          /\ seats' = Set(seats, <<program, who>>, [state |-> "Waitlisted", expires |-> 0])
          /\ UNCHANGED seatPrograms
    /\ UNCHANGED versions

IsIn(who, program, state) ==
    Has(seats, <<program, who>>) /\ seats[<<program, who>>].state = state

ConfirmSeat(who, program) ==
    /\ IsIn(who, program, "Offered")
    /\ now < seats[<<program, who>>].expires
    /\ seatPrograms' = [seatPrograms EXCEPT ![program].reserved = @ - 1,
                                            ![program].confirmed = @ + 1]
    /\ seats' = [seats EXCEPT ![<<program, who>>] = [state |-> "Confirmed", expires |-> 0]]
    /\ UNCHANGED <<waitlists, versions>>

\* A seat given back is offered to the first in line if promotion is automatic.
PassOn(program, s) ==
    IF s[1].automatic /\ CanPromote(s) THEN PromoteNextInternal(program, s) ELSE s

ReleaseOffer(who, program) ==
    Write(program, PassOn(program, <<[seatPrograms[program] EXCEPT !.reserved = @ - 1],
                                     waitlists[program], Remove(seats, {<<program, who>>})>>))

DeclineOffer(who, program) ==
    /\ IsIn(who, program, "Offered")
    /\ now < seats[<<program, who>>].expires
    /\ ReleaseOffer(who, program)

\* Anyone may expire an offer.
ExpireOffer(who, program) ==
    /\ IsIn(who, program, "Offered")
    /\ now >= seats[<<program, who>>].expires
    /\ ReleaseOffer(who, program)

ReleaseConfirmedSeat(who, program) ==
    /\ IsIn(who, program, "Confirmed")
    /\ Write(program, PassOn(program, <<[seatPrograms[program] EXCEPT !.confirmed = @ - 1],
                                        waitlists[program], Remove(seats, {<<program, who>>})>>))

Next ==
    \/ \E organizer \in Organizers, program \in SeatPrograms :
           \/ \E capacity \in SeatCapacities, ttl \in OfferTtls, automatic \in BOOLEAN :
                  \/ CreateProgram(organizer, program, capacity, ttl, automatic)
                  \/ ConfigureProgram(organizer, program, capacity, ttl, automatic)
           \/ PromoteNext(organizer, program)
    \/ \E who \in Applicants, program \in SeatPrograms :
           \/ RequestSeat(who, program)
           \/ ConfirmSeat(who, program)
           \/ DeclineOffer(who, program)
           \/ ExpireOffer(who, program)
           \/ ReleaseConfirmedSeat(who, program)
    \/ \E id \in ContractIds, parties \in Parties, terms \in Terms : Publish(id, parties, terms)

-----------------------------------------------------------------------------
(* Properties *)

\* Every stored value stays in its type.
TypeOK ==
    /\ \A program \in DOMAIN seatPrograms : seatPrograms[program] \in ProgramCapacity
    /\ \A s \in DOMAIN seats : seats[s] \in SeatRecord

\* The counters are the seats offered and confirmed, within the capacity; and exactly
\* the waitlisted participants are in the queue, each once.
SeatCountersExact ==
    \A program \in DOMAIN seatPrograms :
        LET in(state) == {who \in Applicants : IsIn(who, program, state)}
            queue     == waitlists[program]
        IN  /\ seatPrograms[program].reserved = Cardinality(in("Offered"))
            /\ seatPrograms[program].confirmed = Cardinality(in("Confirmed"))
            /\ Committed(seatPrograms[program]) <= seatPrograms[program].capacity
            /\ Range(queue) = in("Waitlisted")
            /\ Len(queue) = Cardinality(in("Waitlisted"))

\* First come, first served: nobody gets an offer while another is waiting, except the
\* first in line; and with automatic promotion a seat given back does not stay free
\* while somebody waits.
FirstComeFirstServed ==
    [][\A program \in DOMAIN seatPrograms :
         LET queue == waitlists[program]
             newly == {who \in Applicants : ~IsIn(who, program, "Offered")
                                              /\ IsIn(who, program, "Offered")'}
             freed == Committed(seatPrograms'[program]) < Committed(seatPrograms[program])
         IN  /\ queue # <<>> => newly \subseteq Range(queue)
             /\ \A i, j \in 1..Len(queue) : i < j /\ queue[j] \in newly => queue[i] \in newly
             /\ freed /\ seatPrograms[program].automatic => waitlists'[program] = <<>>]_seatVars

\* What the parties of a contract published is never rewritten, only added to.
VersionsAppendOnly ==
    [][\A id \in DOMAIN versions :
         /\ SubSeq(versions'[id], 1, Len(versions[id])) = versions[id]
         /\ \A v \in Range(versions'[id]) : v.parties = versions[id][1].parties]_seatVars
=============================================================================
