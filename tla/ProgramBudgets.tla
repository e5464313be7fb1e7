--------------------------- MODULE ProgramBudgets ---------------------------
(***************************************************************************)
(* contracts/scholarship-programs: a program's application window and its  *)
(* award inventory.  The admin replaces either under the version it read,  *)
(* and reserves and releases award slots.  The model starts after          *)
(* initialize.                                                             *)
(***************************************************************************)
EXTENDS Integers, Storage

CONSTANTS
    Admin,          \* the address stored by initialize
    Callers,        \* addresses that can sign a transaction
    Programs,
    Instants,       \* opens_at, closes_at and grace periods the admin passes (u64)
    Headcounts,     \* max_recipients the admin passes (u32)
    AwardAmounts,   \* amounts the admin passes (i128)
    MaxU64,         \* largest u64
    MaxI128,        \* largest i128
    MaxVersion      \* bound: changes of one record

VARIABLES
    windows, \* DataKey::Window: program -> application window
    budgets, \* DataKey::Budget: program -> award inventory
    held     \* history: slots reserved and not released, per program

programVars == <<windows, budgets, held>>

ProgramWindow ==
    [version : Nat, opens_at : Nat, closes_at : Nat, grace_period_seconds : Nat]

AwardBudget ==
    [version : Nat, max_recipients : Nat, per_award_amount : Nat, total_budget : Nat,
     awarded_count : Nat, committed_amount : Nat]

RequireAdmin(caller) == caller = Admin

Init ==
    /\ windows = Empty
    /\ budgets = Empty
    /\ held = [p \in Programs |-> 0]

\* The stored version, or 0 when there is no record yet.
CurrentVersion(store, p) == IF Has(store, p) THEN store[p].version ELSE 0

SetProgramWindow(caller, p, expected, opens, closes, grace) ==
    /\ RequireAdmin(caller)
    /\ expected = CurrentVersion(windows, p)
    /\ expected < MaxVersion
    /\ opens < closes
    /\ closes + grace <= MaxU64
    /\ windows' = Set(windows, p,
           [version |-> expected + 1, opens_at |-> opens, closes_at |-> closes,
            grace_period_seconds |-> grace])
    /\ UNCHANGED <<budgets, held>>

\* Fault: only a full inventory is protected.
FaultUncommitted(b) == b.awarded_count < b.max_recipients
Uncommitted(b) == b.awarded_count = 0 /\ b.committed_amount = 0

ConfigureAwardBudget(caller, p, expected, recipients, amount, total) ==
    /\ RequireAdmin(caller)
    /\ expected = CurrentVersion(budgets, p)
    /\ expected < MaxVersion
    /\ recipients # 0 /\ amount > 0 /\ total > 0
    /\ recipients * amount <= MaxI128
    /\ recipients * amount <= total
    /\ Has(budgets, p) => Uncommitted(budgets[p])
    /\ budgets' = Set(budgets, p,
           [version |-> expected + 1, max_recipients |-> recipients,
            per_award_amount |-> amount, total_budget |-> total,
            awarded_count |-> 0, committed_amount |-> 0])
    /\ UNCHANGED <<windows, held>>

\* The slot counter and the committed amount move together.
Commit(p, slots) ==
    LET b == budgets[p] IN
    /\ b.version < MaxVersion
    /\ budgets' = [budgets EXCEPT ![p] =
           [b EXCEPT !.awarded_count = @ + slots, !.version = @ + 1,
                     !.committed_amount = @ + slots * b.per_award_amount]]
    /\ held' = [held EXCEPT ![p] = @ + slots]
    /\ UNCHANGED windows

ReserveAward(caller, p) ==
    /\ RequireAdmin(caller)
    /\ Has(budgets, p)
    /\ budgets[p].awarded_count < budgets[p].max_recipients
    /\ budgets[p].committed_amount + budgets[p].per_award_amount <= MaxI128
    /\ budgets[p].committed_amount + budgets[p].per_award_amount <= budgets[p].total_budget
    /\ Commit(p, 1)

ReleaseAward(caller, p) ==
    /\ RequireAdmin(caller)
    /\ Has(budgets, p)
    /\ budgets[p].awarded_count # 0
    /\ Commit(p, -1)

Next ==
    \E caller \in Callers, p \in Programs :
        \/ \E expected \in 0..MaxVersion :
               \/ \E opens, closes, grace \in Instants :
                      SetProgramWindow(caller, p, expected, opens, closes, grace)
               \/ \E recipients \in Headcounts, amount, total \in AwardAmounts :
                      ConfigureAwardBudget(caller, p, expected, recipients, amount, total)
        \/ ReserveAward(caller, p)
        \/ ReleaseAward(caller, p)

Spec == Init /\ [][Next]_programVars

-----------------------------------------------------------------------------
(* Properties *)

\* Every stored value stays in its type; no counter goes negative.
TypeOK ==
    /\ DOMAIN windows \subseteq Programs
    /\ \A p \in DOMAIN windows : windows[p] \in ProgramWindow
    /\ DOMAIN budgets \subseteq Programs
    /\ \A p \in DOMAIN budgets : budgets[p] \in AwardBudget
    /\ held \in [Programs -> Nat]

\* The inventory records exactly the slots that were reserved and not released,
\* through any number of reconfigurations: replacing a budget never hands back a
\* commitment, and neither the recipients nor the money are ever over-committed
\* (configure_award_budget, reserve_award).
InventoryExact ==
    \A p \in DOMAIN budgets :
        LET b == budgets[p] IN
        /\ b.awarded_count = held[p]
        /\ b.committed_amount = b.awarded_count * b.per_award_amount
        /\ b.awarded_count <= b.max_recipients
        /\ b.committed_amount <= b.total_budget
=============================================================================
