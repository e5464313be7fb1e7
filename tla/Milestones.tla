----------------------------- MODULE Milestones -----------------------------
(***************************************************************************)
(* contracts/scholarship-milestones: the payment schedule of an award.     *)
(* The admin defines it as percentages with due dates, activates it, may   *)
(* amend it until the first release, and verifies and releases its         *)
(* milestones one after the other.  The model starts after initialize;     *)
(* kinds, labels, currency and time stamps are left out.                   *)
(***************************************************************************)
EXTENDS Integers, Sequences, Storage

CONSTANTS
    Admin,          \* the address stored by initialize
    Callers,        \* addresses that can sign a transaction
    AwardIds,
    Totals,         \* total amounts the admin passes (i128)
    ScheduleInputs, \* lists of [percentage_bps, due_at] the admin passes
    MAX_MILESTONES, \* schedule bound of the code
    MaxI128,        \* largest i128
    MaxVersion      \* bound: amendments

VARIABLE schedules  \* DataKey::Schedule: award id -> schedule

BPS_DENOM == 10000

Milestone == [percentage_bps : Nat, amount : Int, due_at : Nat,
              verified : BOOLEAN, released : BOOLEAN]

MilestoneSchedule ==
    [total_amount : Nat, version : Nat, active : BOOLEAN, milestones : Seq(Milestone)]

RequireAdmin(caller) == caller = Admin

Bps(inputs) == [i \in DOMAIN inputs |-> inputs[i].percentage_bps]

\* The checks of build_milestones.
InputsAccepted(total, inputs) ==
    /\ Len(inputs) \in 1..MAX_MILESTONES
    /\ total > 0
    /\ \A i \in 2..Len(inputs) : inputs[i].due_at > inputs[i - 1].due_at
    /\ Sum(Bps(inputs), Len(inputs)) = BPS_DENOM
    /\ \A i \in 1..(Len(inputs) - 1) : total * inputs[i].percentage_bps <= MaxI128

Share(total, bps) == (total * bps) \div BPS_DENOM

\* Fault: every milestone gets its rounded share, the last one too.
FaultAmountOf(total, inputs, i) == Share(total, inputs[i].percentage_bps)
\* The last milestone gets what the rounded shares of the others leave over.
AmountOf(total, inputs, i) ==
    IF i < Len(inputs)
    THEN Share(total, inputs[i].percentage_bps)
    ELSE total - Sum([j \in 1..(i - 1) |-> Share(total, inputs[j].percentage_bps)], i - 1)

BuildMilestones(total, inputs) ==
    [i \in DOMAIN inputs |->
        [percentage_bps |-> inputs[i].percentage_bps,
         amount |-> AmountOf(total, inputs, i), due_at |-> inputs[i].due_at,
         verified |-> FALSE, released |-> FALSE]]

Init == schedules = Empty

DefineSchedule(caller, id, total, inputs) ==
    /\ RequireAdmin(caller)
    /\ ~Has(schedules, id)
    /\ InputsAccepted(total, inputs)
    /\ schedules' = Set(schedules, id,
           [total_amount |-> total, version |-> 1, active |-> FALSE,
            milestones |-> BuildMilestones(total, inputs)])

ActivateSchedule(caller, id) ==
    /\ RequireAdmin(caller)
    /\ ~schedules[id].active
    /\ schedules' = [schedules EXCEPT ![id].active = TRUE]

Milestones(id) == schedules[id].milestones

\* Fault: only a completely released schedule is locked.
FaultAmendable(id) == \E i \in DOMAIN Milestones(id) : ~Milestones(id)[i].released
Amendable(id) == \A i \in DOMAIN Milestones(id) : ~Milestones(id)[i].released

AmendSchedule(caller, id, total, inputs) ==
    /\ RequireAdmin(caller)
    /\ schedules[id].active
    /\ Amendable(id)
    /\ InputsAccepted(total, inputs)
    /\ schedules[id].version < MaxVersion
    /\ schedules' = [schedules EXCEPT
           ![id] = [total_amount |-> total, version |-> @.version + 1, active |-> TRUE,
                    milestones |-> BuildMilestones(total, inputs)]]

VerifyMilestone(caller, id, i) ==
    /\ RequireAdmin(caller)
    /\ schedules[id].active
    /\ ~Milestones(id)[i].verified
    /\ schedules' = [schedules EXCEPT ![id].milestones[i].verified = TRUE]

ReleaseMilestone(caller, id, i) ==
    /\ RequireAdmin(caller)
    /\ schedules[id].active
    /\ ~Milestones(id)[i].released
    /\ Milestones(id)[i].verified
    /\ \A j \in 1..(i - 1) : Milestones(id)[j].released
    /\ schedules' = [schedules EXCEPT ![id].milestones[i].released = TRUE]

Next ==
    \E caller \in Callers :
        \/ \E id \in AwardIds, total \in Totals, inputs \in ScheduleInputs :
               DefineSchedule(caller, id, total, inputs)
        \/ \E id \in DOMAIN schedules :
               \/ ActivateSchedule(caller, id)
               \/ \E total \in Totals, inputs \in ScheduleInputs :
                      AmendSchedule(caller, id, total, inputs)
               \/ \E i \in DOMAIN Milestones(id) :
                      VerifyMilestone(caller, id, i) \/ ReleaseMilestone(caller, id, i)

Spec == Init /\ [][Next]_schedules

-----------------------------------------------------------------------------
(* Properties *)

\* Every stored schedule stays in its type.
TypeOK ==
    /\ DOMAIN schedules \subseteq AwardIds
    /\ \A id \in DOMAIN schedules : schedules[id] \in MilestoneSchedule

\* released_total
ReleasedTotal(id) ==
    Sum([i \in DOMAIN Milestones(id) |->
            IF Milestones(id)[i].released THEN Milestones(id)[i].amount ELSE 0],
        Len(Milestones(id)))

\* Whatever the percentages round to, a schedule pays out exactly its total when
\* everything is released, no milestone takes money back, the last one gets at
\* least its own share, and what is released so far never exceeds the total
\* (build_milestones, released_total, remaining_amount).
ScheduleConserves ==
    \A id \in DOMAIN schedules :
        LET m     == Milestones(id)
            n     == Len(m)
            total == schedules[id].total_amount
        IN  /\ Sum([i \in 1..n |-> m[i].amount], n) = total
            /\ \A i \in 1..n : m[i].amount >= Share(total, m[i].percentage_bps)
            /\ ReleasedTotal(id) \in 0..total
            /\ (\A i \in 1..n : m[i].released) => ReleasedTotal(id) = total

\* One step, seen from the milestones that are released.
ReleasedStep ==
    \A id \in DOMAIN schedules : \A i \in DOMAIN Milestones(id) :
        Milestones(id)[i].released =>
            /\ Milestones(id)[i].verified
            /\ \A j \in 1..i : Milestones(id)[j].released
            /\ schedules'[id].total_amount = schedules[id].total_amount
            /\ Len(Milestones(id)') = Len(Milestones(id))
            /\ Milestones(id)'[i] = Milestones(id)[i]

\* Released milestones are verified ones and form a prefix of the schedule; once
\* the first is released, nothing rewrites the plan the recipient was paid under
\* and no release is ever undone (amend_schedule, release_milestone).
ReleasesFreezePlan == [][ReleasedStep]_schedules
=============================================================================
