-------------------------- MODULE SelectionProofs --------------------------
(***************************************************************************)
(* Proofs about the contracts that select the recipients of a scholarship, *)
(* for any number of programs, applicants, reviewers and committee members *)
(* and any of the bounds of the code.                                      *)
(***************************************************************************)
EXTENDS Selection, SumTheorems, SequenceTheorems, FiniteSetTheorems

\* The contracts count with the same Cardinality as this module.
LEMMA SameCardinality ==
    ASSUME NEW T
    PROVE  R!Cardinality(T) = Cardinality(T) /\ D!Cardinality(T) = Cardinality(T)
BY Zenon DEF Cardinality, R!Cardinality, D!Cardinality

\* Writing one key of a store.
LEMMA SetKey ==
    ASSUME NEW store, NEW k, NEW v, NEW next,
           next = [x \in DOMAIN store \cup {k} |-> IF x = k THEN v ELSE store[x]]
    PROVE  /\ DOMAIN next = DOMAIN store \cup {k} /\ next[k] = v
           /\ \A x \in DOMAIN store : x # k => next[x] = store[x]
OBVIOUS

-----------------------------------------------------------------------------
(* scholarship-programs *)

\* The counters of an inventory are the h slots that are held.
Committed(b, h) ==
    /\ b.awarded_count = h
    /\ b.committed_amount = b.awarded_count * b.per_award_amount
    /\ b.awarded_count <= b.max_recipients
    /\ b.committed_amount <= b.total_budget

\* A program without an inventory holds no slot.
BudgetsInv ==
    /\ B!TypeOK
    /\ \A p \in DOMAIN budgets : Committed(budgets[p], held[p])
    /\ \A p \in Programs \ DOMAIN budgets : held[p] = 0

\* initialize leaves no window and no inventory.
LEMMA BudgetsInvInit == ASSUME B!Init PROVE BudgetsInv
BY DEF B!Init, B!Empty, BudgetsInv, B!TypeOK

\* set_program_window
LEMMA BudgetsInvWindow ==
    ASSUME BudgetsInv, NEW caller, NEW p \in Programs, NEW expected \in 0..MaxVersion,
           NEW opens \in Instants, NEW closes \in Instants, NEW grace \in Instants,
           B!SetProgramWindow(caller, p, expected, opens, closes, grace)
    PROVE  BudgetsInv'
<1> DEFINE w == [version |-> expected + 1, opens_at |-> opens, closes_at |-> closes,
                 grace_period_seconds |-> grace]
<1>1. /\ windows' = [x \in DOMAIN windows \cup {p} |-> IF x = p THEN w ELSE windows[x]]
      /\ UNCHANGED <<budgets, held>>
    BY DEF B!SetProgramWindow, B!Set
<1>2. w \in B!ProgramWindow
    BY SelectionConstants DEF B!ProgramWindow
<1> HIDE DEF w
<1>3. B!TypeOK'
    BY <1>1, <1>2 DEF BudgetsInv, B!TypeOK
<1>4. QED
    BY <1>1, <1>3 DEF BudgetsInv

\* configure_award_budget
LEMMA BudgetsInvConfigure ==
    ASSUME BudgetsInv, NEW caller, NEW p \in Programs, NEW expected \in 0..MaxVersion,
           NEW recipients \in Headcounts, NEW amount \in AwardAmounts, NEW total \in AwardAmounts,
           B!ConfigureAwardBudget(caller, p, expected, recipients, amount, total)
    PROVE  BudgetsInv'
<1> DEFINE b == [version |-> expected + 1, max_recipients |-> recipients,
                 per_award_amount |-> amount, total_budget |-> total,
                 awarded_count |-> 0, committed_amount |-> 0]
<1>1. /\ budgets' = [x \in DOMAIN budgets \cup {p} |-> IF x = p THEN b ELSE budgets[x]]
      /\ UNCHANGED <<windows, held>>
      /\ p \in DOMAIN budgets => budgets[p].awarded_count = 0
      /\ amount > 0 /\ total > 0
    BY DEF B!ConfigureAwardBudget, B!Set, B!Has, B!Uncommitted
<1>2. b \in B!AwardBudget
    BY <1>1, SelectionConstants DEF B!AwardBudget
<1>3. held[p] = 0
    BY <1>1 DEF BudgetsInv, Committed
<1>4. Committed(b, 0)
    <2>1. amount \in Nat /\ recipients \in Nat /\ total \in Nat
        BY <1>1, SelectionConstants
    <2>2. QED BY <2>1 DEF Committed
<1> HIDE DEF b
<1>5. B!TypeOK'
    BY <1>1, <1>2 DEF BudgetsInv, B!TypeOK
<1>6. \A x \in DOMAIN budgets' : Committed(budgets'[x], held'[x])
    BY <1>1, <1>3, <1>4 DEF BudgetsInv
<1>7. QED
    BY ONLY BudgetsInv, <1>1, <1>5, <1>6 DEF BudgetsInv

\* n slots of the given amount are committed as c; one slot more (slots = 1) or less.
Moves(n, amount, c, slots) ==
    /\ n \in Nat /\ amount \in Nat /\ c \in Nat /\ c = n * amount
    /\ slots \in {1, -1} /\ (slots = -1 => n # 0)

Moved(n, amount, c, slots) ==
    /\ n + slots \in Nat /\ c + slots * amount \in Nat
    /\ c + slots * amount = (n + slots) * amount
    /\ slots = 1 => c + slots * amount = c + amount
    /\ slots = -1 => c + slots * amount <= c

\* The arithmetic of reserving or releasing one slot.
LEMMA CommitArithmetic ==
    ASSUME NEW n, NEW amount, NEW c, NEW slots, Moves(n, amount, c, slots)
    PROVE  Moved(n, amount, c, slots)
<1>0. n \in Nat /\ amount \in Nat /\ c \in Nat /\ c = n * amount
    BY DEF Moves
<1>1. CASE slots = 1
    BY <1>0, <1>1 DEF Moved
<1>2. CASE slots = -1
    <2>1. PICK m \in Nat : n = m + 1
        <3>1. n - 1 \in Nat /\ n = (n - 1) + 1
            BY <1>0, <1>2 DEF Moves
        <3>2. QED BY <3>1
    <2>2. n * amount = m * amount + amount /\ m * amount \in Nat
        BY <1>0, <2>1
    <2>3. n + slots = m /\ slots * amount = -amount
        BY <1>0, <1>2, <2>1
    <2>4. QED BY <1>0, <1>2, <2>2, <2>3 DEF Moved
<1>3. QED
    BY <1>1, <1>2 DEF Moves

\* reserve_award and release_award
LEMMA BudgetsInvCommit ==
    ASSUME BudgetsInv, NEW caller, NEW p \in Programs,
           B!ReserveAward(caller, p) \/ B!ReleaseAward(caller, p)
    PROVE  BudgetsInv'
<1> DEFINE b == budgets[p]
<1>1. p \in DOMAIN budgets /\ b \in B!AwardBudget /\ Committed(b, held[p])
    BY DEF BudgetsInv, B!TypeOK, B!ReserveAward, B!ReleaseAward, B!Has
<1>2. /\ b.version \in Nat /\ b.max_recipients \in Nat /\ b.per_award_amount \in Nat
      /\ b.total_budget \in Nat /\ b.awarded_count \in Nat /\ b.committed_amount \in Nat
      /\ b.committed_amount = b.awarded_count * b.per_award_amount
      /\ held[p] = b.awarded_count
      /\ b.awarded_count <= b.max_recipients /\ b.committed_amount <= b.total_budget
    BY <1>1 DEF B!AwardBudget, Committed
<1>3. PICK slots \in {1, -1} :
          /\ slots = -1 => b.awarded_count # 0
          /\ slots = 1 => /\ b.awarded_count < b.max_recipients
                          /\ b.committed_amount + b.per_award_amount <= b.total_budget
          /\ B!Commit(p, slots)
    BY DEF B!ReserveAward, B!ReleaseAward
<1> DEFINE n == b.awarded_count + slots
           c == b.committed_amount + slots * b.per_award_amount
           d0 == [b EXCEPT !.awarded_count = n]
           d1 == [d0 EXCEPT !.version = b.version + 1]
           d == [d1 EXCEPT !.committed_amount = c]
<1>4. Moved(b.awarded_count, b.per_award_amount, b.committed_amount, slots)
    <2>1. Moves(b.awarded_count, b.per_award_amount, b.committed_amount, slots)
        BY <1>2, <1>3 DEF Moves
    <2>2. QED BY ONLY <2>1, CommitArithmetic
<1>5. /\ n \in Nat /\ c \in Nat /\ c = n * b.per_award_amount
      /\ slots = 1 => c = b.committed_amount + b.per_award_amount
      /\ slots = -1 => c <= b.committed_amount
    BY <1>4 DEF Moved
<1>6. /\ budgets' = [budgets EXCEPT ![p] = d]
      /\ held' = [held EXCEPT ![p] = held[p] + slots]
      /\ UNCHANGED windows
    BY <1>3 DEF B!Commit
<1> HIDE DEF c
<1>room. n <= b.max_recipients /\ c <= b.total_budget
    <2>1. CASE slots = 1
        BY <1>2, <1>3, <1>5, <2>1
    <2>2. CASE slots = -1
        BY <1>2, <1>5, <2>2
    <2>3. QED BY <1>3, <2>1, <2>2
<1> HIDE DEF n
<1>7. /\ d \in B!AwardBudget /\ d.awarded_count = n /\ d.committed_amount = c
      /\ d.per_award_amount = b.per_award_amount /\ d.max_recipients = b.max_recipients
      /\ d.total_budget = b.total_budget
    <2> HIDE DEF b
    <2>1. /\ d0 \in B!AwardBudget /\ d0.awarded_count = n
          /\ d0.per_award_amount = b.per_award_amount /\ d0.max_recipients = b.max_recipients
          /\ d0.total_budget = b.total_budget
        BY <1>1, <1>5 DEF B!AwardBudget
    <2> HIDE DEF d0
    <2>2. /\ d1 \in B!AwardBudget /\ d1.awarded_count = n
          /\ d1.per_award_amount = b.per_award_amount /\ d1.max_recipients = b.max_recipients
          /\ d1.total_budget = b.total_budget
        BY <1>2, <2>1 DEF B!AwardBudget
    <2> HIDE DEF d1
    <2>3. QED BY <1>5, <2>2 DEF B!AwardBudget
<1> HIDE DEF d
<1>8. held \in [Programs -> Nat] /\ held[p] + slots = n
    BY <1>2 DEF BudgetsInv, B!TypeOK, n
<1>9. held' = [held EXCEPT ![p] = n] /\ held' \in [Programs -> Nat] /\ held'[p] = n
    BY <1>5, <1>6, <1>8
<1>10. Committed(d, n)
    BY <1>5, <1>room, <1>7 DEF Committed
<1>11. B!TypeOK'
    BY <1>6, <1>7, <1>9 DEF BudgetsInv, B!TypeOK
<1>12. \A x \in DOMAIN budgets' : Committed(budgets'[x], held'[x])
    BY <1>1, <1>6, <1>8, <1>9, <1>10 DEF BudgetsInv, B!TypeOK
<1>13. \A x \in Programs \ DOMAIN budgets' : held'[x] = 0
    BY <1>1, <1>6, <1>8, <1>9 DEF BudgetsInv
<1>14. QED
    BY ONLY <1>11, <1>12, <1>13 DEF BudgetsInv

\* Every call of the programs contract.
LEMMA BudgetsInvNext == ASSUME BudgetsInv, B!Next PROVE BudgetsInv'
BY BudgetsInvWindow, BudgetsInvConfigure, BudgetsInvCommit DEF B!Next

\* Calls of the other contracts.
LEMMA BudgetsInvStutter == ASSUME BudgetsInv, UNCHANGED budgetVars PROVE BudgetsInv'
BY DEF BudgetsInv, B!TypeOK, budgetVars

-----------------------------------------------------------------------------
(* scholarship-applications: reviewers *)

\* The applications assigned to a reviewer.
AssignedTo(r) == {k \in DOMAIN assignments : assignments[k] = r}

ReviewersInv ==
    /\ R!TypeOK
    /\ IsFiniteSet(DOMAIN assignments)
    /\ \A r \in Reviewers : R!Load(r) = Cardinality(AssignedTo(r))

\* LoadsExact counts the same applications.
LEMMA LoadsSame == R!LoadsExact <=> \A r \in Reviewers : R!Load(r) = Cardinality(AssignedTo(r))
BY SameCardinality DEF R!LoadsExact, AssignedTo

\* initialize leaves no reviewer and no assignment.
LEMMA ReviewersInvInit == ASSUME R!Init PROVE ReviewersInv
<1>1. DOMAIN profiles = {} /\ DOMAIN assignments = {}
    BY DEF R!Init, R!Empty
<1>2. R!TypeOK
    BY <1>1, SelectionConstants DEF R!Init, R!TypeOK
<1>3. \A r \in Reviewers : AssignedTo(r) = {} /\ R!Load(r) = 0
    BY <1>1 DEF AssignedTo, R!Load, R!Has
<1>4. QED
    BY <1>1, <1>2, <1>3, FS_EmptySet DEF ReviewersInv

\* The calls that keep the loads: register_reviewer, set_reviewer_active,
\* set_reviewer_pool, declare_conflict and set_review_mode.
LEMMA ReviewersInvKeep ==
    ASSUME ReviewersInv, R!TypeOK', UNCHANGED assignments,
           \A r \in Reviewers : R!Load(r)' = R!Load(r)
    PROVE  ReviewersInv'
BY DEF ReviewersInv, AssignedTo

\* register_reviewer and set_reviewer_active keep the load of the reviewer.
LEMMA ReviewersInvProfile ==
    ASSUME ReviewersInv, NEW r \in Reviewers, NEW q \in R!ReviewerProfile,
           profiles' = [x \in DOMAIN profiles \cup {r} |-> IF x = r THEN q ELSE profiles[x]],
           q.current_assignments = R!Load(r),
           UNCHANGED <<pools, conflicts, assignments, cursors, modes>>
    PROVE  ReviewersInv'
<1>1. R!TypeOK'
    BY DEF ReviewersInv, R!TypeOK
<1>2. \A x \in Reviewers : R!Load(x)' = R!Load(x)
    BY DEF R!Load, R!Has
<1>3. QED
    BY <1>1, <1>2, ReviewersInvKeep

\* A reviewer's load is a number.
LEMMA LoadNat == ASSUME ReviewersInv, NEW r PROVE R!Load(r) \in Nat
<1>1. CASE r \in DOMAIN profiles
    <2>1. profiles[r] \in R!ReviewerProfile
        BY <1>1 DEF ReviewersInv, R!TypeOK
    <2>2. QED BY <1>1, <2>1 DEF R!Load, R!Has, R!ReviewerProfile
<1>2. CASE r \notin DOMAIN profiles
    BY <1>2 DEF R!Load, R!Has
<1>3. QED
    BY <1>1, <1>2

\* The scan of assign_reviewer ends at a reviewer of the pool who has a profile.
LEMMA AssignChooses ==
    ASSUME ReviewersInv, NEW p \in ReviewedPrograms, NEW app, NEW offset \in Nat, R!Assign(p, app, offset)
    PROVE  /\ Len(pools[p]) \in Nat /\ Len(pools[p]) > 0
           /\ <<p, app>> \notin DOMAIN assignments
           /\ UNCHANGED <<pools, conflicts, modes>>
           /\ \E r \in DOMAIN profiles :
                /\ profiles' = [profiles EXCEPT ![r].current_assignments = @ + 1]
                /\ assignments' = [x \in DOMAIN assignments \cup {<<p, app>>} |->
                                      IF x = <<p, app>> THEN r ELSE assignments[x]]
<1> DEFINE E == {step \in 0..(Len(pools[p]) - 1) :
                    R!IsEligible(R!Candidate(p, offset, step), p, app)}
           r == R!Candidate(p, offset, R!Min(E))
<1>1. /\ ~R!Has(assignments, <<p, app>>) /\ E # {}
      /\ profiles' = [profiles EXCEPT ![r].current_assignments = @ + 1]
      /\ assignments' = R!Set(assignments, <<p, app>>, r)
      /\ UNCHANGED <<pools, conflicts, modes>>
    BY DEF R!Assign
<1>2. Len(pools[p]) \in Nat
    <2>1. pools[p] \in Pools \cup {<<>>}
        BY DEF ReviewersInv, R!TypeOK
    <2>2. ASSUME pools[p] \in Pools PROVE Len(pools[p]) \in Nat
        <3>1. PICK n \in 0..MaxPool : pools[p] \in [1..n -> Reviewers]
            BY <2>2 DEF Pools
        <3>2. n \in Nat
            BY SelectionConstants
        <3>3. pools[p] \in Seq(Reviewers)
            <4>1. pools[p] \in UNION {[1..k -> Reviewers] : k \in Nat}
                BY <3>1, <3>2
            <4>2. QED BY <4>1, SeqDef, Zenon
        <3>4. QED BY <3>3, LenProperties
    <2>3. QED BY <2>1, <2>2
<1>3. E \subseteq Nat
    BY <1>2
<1>4. R!Min(E) \in E
    <2> HIDE DEF E
    <2>1. \E x \in E : \A y \in E : x <= y
        BY <1>1, <1>3, NatLeast
    <2>2. QED BY <2>1 DEF R!Min
<1>5. R!IsEligible(r, p, app) /\ Len(pools[p]) > 0
    BY <1>2, <1>4
<1>6. r \in DOMAIN profiles
    BY <1>5 DEF R!IsEligible, R!Has
<1>7. QED
    <2> HIDE DEF E, r
    <2>1. assignments' = [x \in DOMAIN assignments \cup {<<p, app>>} |->
                             IF x = <<p, app>> THEN r ELSE assignments[x]]
        BY <1>1 DEF R!Set
    <2>2. <<p, app>> \notin DOMAIN assignments
        BY <1>1 DEF R!Has
    <2>3. QED BY <1>1, <1>2, <1>5, <1>6, <2>1, <2>2

\* assign_reviewer: the load of the chosen reviewer grows with the assignments.
LEMMA ReviewersInvAssign ==
    ASSUME ReviewersInv, NEW p \in ReviewedPrograms, NEW app \in ApplicationIds, NEW offset \in Nat,
           R!Assign(p, app, offset), cursors' \in [ReviewedPrograms -> Nat]
    PROVE  ReviewersInv'
<1> DEFINE k == <<p, app>>
<1>1. /\ k \notin DOMAIN assignments /\ UNCHANGED <<pools, conflicts, modes>>
      /\ \E r \in DOMAIN profiles :
                /\ profiles' = [profiles EXCEPT ![r].current_assignments = @ + 1]
                /\ assignments' = [x \in DOMAIN assignments \cup {k} |->
                                      IF x = k THEN r ELSE assignments[x]]
    BY AssignChooses
<1>2. PICK r \in DOMAIN profiles :
                /\ profiles' = [profiles EXCEPT ![r].current_assignments = @ + 1]
                /\ assignments' = [x \in DOMAIN assignments \cup {k} |->
                                      IF x = k THEN r ELSE assignments[x]]
    BY <1>1
<1>3. profiles[r] \in R!ReviewerProfile /\ k \in ReviewedPrograms \X ApplicationIds /\ r \in Reviewers
    BY DEF ReviewersInv, R!TypeOK
<1> HIDE DEF k
<1> DEFINE n == profiles[r].current_assignments
           q == [profiles[r] EXCEPT !.current_assignments = n + 1]
<1>4. q \in R!ReviewerProfile /\ q.current_assignments = n + 1 /\ n \in Nat
    BY <1>3 DEF R!ReviewerProfile
<1>5. profiles' = [profiles EXCEPT ![r] = q]
    BY <1>2
<1> HIDE DEF q, n
<1>6. DOMAIN profiles' = DOMAIN profiles /\ DOMAIN assignments' = DOMAIN assignments \cup {k}
    BY <1>2, <1>5
<1>7. R!TypeOK'
    <2>1. \A x \in DOMAIN profiles' : profiles'[x] \in R!ReviewerProfile
        BY <1>4, <1>5 DEF ReviewersInv, R!TypeOK
    <2>2. \A x \in DOMAIN assignments' : assignments'[x] \in DOMAIN profiles'
        BY <1>2, <1>6 DEF ReviewersInv, R!TypeOK
    <2>3. QED BY <1>1, <1>3, <1>6, <2>1, <2>2 DEF ReviewersInv, R!TypeOK
<1>8. IsFiniteSet(DOMAIN assignments')
    BY <1>6, FS_AddElement DEF ReviewersInv
<1>9. ASSUME NEW x \in Reviewers PROVE R!Load(x)' = Cardinality(AssignedTo(x)')
    <2>0. R!Load(x) = Cardinality(AssignedTo(x)) /\ IsFiniteSet(DOMAIN assignments)
        BY DEF ReviewersInv
    <2>1. CASE x # r
        <3>1. R!Load(x)' = R!Load(x)
            BY <1>5, <2>1 DEF R!Load, R!Has
        <3>2. AssignedTo(x)' = AssignedTo(x)
            BY <1>1, <1>2, <1>6, <2>1 DEF AssignedTo
        <3>3. QED BY <2>0, <3>1, <3>2
    <2>2. CASE x = r
        <3>1. R!Load(x) = n /\ R!Load(x)' = n + 1
            BY <1>4, <1>5, <2>2 DEF R!Load, R!Has, n
        <3>2. AssignedTo(x)' = AssignedTo(x) \cup {k} /\ k \notin AssignedTo(x)
            BY <1>1, <1>2, <1>6, <2>2 DEF AssignedTo
        <3>3. IsFiniteSet(AssignedTo(x))
            <4>1. AssignedTo(x) \subseteq DOMAIN assignments
                BY DEF AssignedTo
            <4>2. QED BY <2>0, <4>1, FS_Subset
        <3>4. Cardinality(AssignedTo(x) \cup {k}) = Cardinality(AssignedTo(x)) + 1
            BY <3>2, <3>3, FS_AddElement
        <3>5. QED BY <2>0, <3>1, <3>2, <3>4
    <2>3. QED BY <2>1, <2>2
<1>10. QED
    BY <1>7, <1>8, <1>9 DEF ReviewersInv

\* Every call of the review half.
LEMMA ReviewersInvNext == ASSUME ReviewersInv, R!Next PROVE ReviewersInv'
<1> USE DEF ReviewersInv
<1>1. ASSUME NEW caller, NEW r \in Reviewers, NEW max \in Capacities, R!RegisterReviewer(caller, r, max)
      PROVE  ReviewersInv'
    <2> DEFINE q == [active |-> TRUE, max_assignments |-> max, current_assignments |-> R!Load(r)]
    <2>1. q \in R!ReviewerProfile /\ q.current_assignments = R!Load(r)
        BY LoadNat, SelectionConstants DEF R!ReviewerProfile
    <2>2. /\ profiles' = [x \in DOMAIN profiles \cup {r} |-> IF x = r THEN q ELSE profiles[x]]
          /\ UNCHANGED <<pools, conflicts, assignments, cursors, modes>>
        BY <1>1 DEF R!RegisterReviewer, R!Set, R!KeptLoad
    <2> HIDE DEF q
    <2>3. QED BY ONLY ReviewersInv, <2>1, <2>2, r \in Reviewers, ReviewersInvProfile
<1>2. ASSUME NEW caller, NEW r \in Reviewers, NEW value \in BOOLEAN, R!SetReviewerActive(caller, r, value)
      PROVE  ReviewersInv'
    <2> DEFINE q == [profiles[r] EXCEPT !.active = value]
    <2>0. r \in DOMAIN profiles /\ profiles[r] \in R!ReviewerProfile
        BY <1>2 DEF R!SetReviewerActive, R!Has, R!TypeOK
    <2>1. q \in R!ReviewerProfile /\ q.current_assignments = R!Load(r)
        BY <2>0 DEF R!ReviewerProfile, R!Load, R!Has
    <2>2. /\ profiles' = [x \in DOMAIN profiles \cup {r} |-> IF x = r THEN q ELSE profiles[x]]
          /\ UNCHANGED <<pools, conflicts, assignments, cursors, modes>>
        BY <1>2, <2>0 DEF R!SetReviewerActive
    <2> HIDE DEF q
    <2>3. QED BY ONLY ReviewersInv, <2>1, <2>2, r \in Reviewers, ReviewersInvProfile
<1>3. ASSUME NEW caller, NEW p \in ReviewedPrograms, NEW pool \in Pools, R!SetReviewerPool(caller, p, pool)
      PROVE  ReviewersInv'
    <2>1. R!TypeOK' /\ UNCHANGED <<profiles, assignments>>
        BY <1>3 DEF R!SetReviewerPool, R!TypeOK
    <2>2. QED BY <2>1, ReviewersInvKeep DEF R!Load
<1>4. ASSUME NEW caller, NEW p \in ReviewedPrograms, NEW mode \in Modes, R!SetReviewMode(caller, p, mode)
      PROVE  ReviewersInv'
    <2>1. R!TypeOK' /\ UNCHANGED <<profiles, assignments>>
        BY <1>4 DEF R!SetReviewMode, R!TypeOK
    <2>2. QED BY <2>1, ReviewersInvKeep DEF R!Load
<1>5. ASSUME NEW r \in Reviewers, NEW p \in ReviewedPrograms, NEW app \in ApplicationIds, R!DeclareConflict(r, p, app)
      PROVE  ReviewersInv'
    <2>1. R!TypeOK' /\ UNCHANGED <<profiles, assignments>>
        BY <1>5 DEF R!DeclareConflict, R!TypeOK
    <2>2. QED BY <2>1, ReviewersInvKeep DEF R!Load
<1>6. ASSUME NEW caller, NEW p \in ReviewedPrograms, NEW app \in ApplicationIds, R!AssignReviewerInTurn(caller, p, app)
      PROVE  ReviewersInv'
    <2>1. cursors \in [ReviewedPrograms -> Nat] /\ R!Assign(p, app, cursors[p])
        BY <1>6 DEF R!TypeOK, R!AssignReviewerInTurn
    <2>2. Len(pools[p]) \in Nat /\ Len(pools[p]) > 0 /\ cursors[p] \in Nat
        BY <2>1, AssignChooses
    <2>3. (cursors[p] + 1) % Len(pools[p]) \in Nat
        BY <2>2
    <2>4. cursors' \in [ReviewedPrograms -> Nat]
        BY <1>6, <2>1, <2>3 DEF R!AssignReviewerInTurn
    <2>5. QED BY <2>1, <2>2, <2>4, ReviewersInvAssign
<1>7. ASSUME NEW caller, NEW p \in ReviewedPrograms, NEW app \in ApplicationIds, NEW offset \in SeedOffsets,
             R!AssignReviewerSeeded(caller, p, app, offset)
      PROVE  ReviewersInv'
    <2>1. cursors' \in [ReviewedPrograms -> Nat] /\ R!Assign(p, app, offset) /\ offset \in Nat
        BY <1>7, SelectionConstants DEF R!TypeOK, R!AssignReviewerSeeded
    <2>2. QED BY <2>1, ReviewersInvAssign
<1>8. QED
    BY <1>1, <1>2, <1>3, <1>4, <1>5, <1>6, <1>7 DEF R!Next

\* Calls of the other contracts.
LEMMA ReviewersInvStutter == ASSUME ReviewersInv, UNCHANGED reviewVars PROVE ReviewersInv'
BY DEF ReviewersInv, R!TypeOK, R!Load, AssignedTo, reviewVars

-----------------------------------------------------------------------------
(* scholarship-applications: intake *)

\* An erasure request asks for blank answers.
ErasuresBlank ==
    \A id \in 1..Len(requests) :
        requests[id].request_type = "Erasure" => requests[id].target_data_hash = ZeroHash

\* A pending export is the one its applicant's pointer names.
PendingFound ==
    \A i \in 1..Len(exports) : exports[i].status = "Pending" =>
        exports[i].pair \in DOMAIN exportOf /\ exportOf[exports[i].pair] = i

IntakeInv == I!TypeOK /\ ErasuresBlank /\ PendingFound

\* The types the intake half writes.
LEMMA IntakeTypes ==
    ASSUME I!TypeOK
    PROVE  /\ Len(requests) \in Nat /\ DOMAIN requests = 1..Len(requests)
           /\ Len(exports) \in Nat /\ DOMAIN exports = 1..Len(exports)
           /\ \A i \in 1..Len(requests) : requests[i] \in I!PrivacyRequest
           /\ \A i \in 1..Len(exports) : exports[i] \in I!DataExportRequest
           /\ \A k \in DOMAIN applications : applications[k] \in I!Application
BY LenProperties DEF I!TypeOK

\* initialize leaves nothing to ask about.
LEMMA IntakeInvInit == ASSUME now = 0, I!Init PROVE IntakeInv
<1>1. /\ DOMAIN programs = {} /\ DOMAIN consents = {} /\ DOMAIN applications = {}
      /\ DOMAIN exportOf = {} /\ requests = <<>> /\ exports = <<>>
    BY DEF I!Init, I!Empty
<1>2. requests \in Seq(I!PrivacyRequest) /\ exports \in Seq(I!DataExportRequest)
      /\ Len(requests) = 0 /\ Len(exports) = 0
    BY <1>1, EmptySeq
<1>3. QED
    BY <1>1, <1>2 DEF IntakeInv, I!TypeOK, I!Init, ErasuresBlank, PendingFound

\* Calls that change neither an application nor a request nor an export.
LEMMA IntakeInvFront ==
    ASSUME IntakeInv, I!TypeOK', UNCHANGED <<applications, requests, exports, exportOf>>
    PROVE  IntakeInv' /\ I!SettleStep
BY DEF IntakeInv, ErasuresBlank, PendingFound, I!SettleStep

\* register_program and set_program_active
LEMMA IntakeInvProgram ==
    ASSUME IntakeInv, UNCHANGED now, NEW caller, NEW p \in Programs,
           \/ \E deadline \in Deadlines : I!RegisterProgram(caller, p, deadline)
           \/ \E expected \in 1..MaxIntakeVersion, value \in BOOLEAN :
                  I!SetProgramActive(caller, p, expected, value)
    PROVE  IntakeInv' /\ I!SettleStep
<1>1. ASSUME NEW d \in Deadlines, I!RegisterProgram(caller, p, d)
      PROVE  IntakeInv' /\ I!SettleStep
    <2> DEFINE r == [version |-> 1, active |-> TRUE, deadline |-> d]
    <2>1. r \in I!Program
        BY SelectionConstants DEF I!Program
    <2>2. /\ programs' = [x \in DOMAIN programs \cup {p} |-> IF x = p THEN r ELSE programs[x]]
          /\ UNCHANGED <<formVersion, consentVersion, consents, applications, requests, exports, exportOf>>
        BY <1>1 DEF I!RegisterProgram, I!Set, I!privacy
    <2> HIDE DEF r
    <2>3. I!TypeOK'
        BY <2>1, <2>2 DEF IntakeInv, I!TypeOK
    <2>4. QED BY <2>2, <2>3, IntakeInvFront
<1>2. ASSUME NEW expected, NEW value \in BOOLEAN, I!SetProgramActive(caller, p, expected, value)
      PROVE  IntakeInv' /\ I!SettleStep
    <2>0. p \in DOMAIN programs /\ programs[p] \in I!Program
        BY <1>2 DEF I!SetProgramActive, I!Has, IntakeInv, I!TypeOK
    <2> DEFINE r0 == [programs[p] EXCEPT !.version = programs[p].version + 1]
               r == [r0 EXCEPT !.active = value]
    <2>1. r \in I!Program
        <3>1. r0 \in I!Program
            BY <2>0 DEF I!Program
        <3> HIDE DEF r0
        <3>2. QED BY <3>1 DEF I!Program
    <2>2. /\ programs' = [x \in DOMAIN programs \cup {p} |-> IF x = p THEN r ELSE programs[x]]
          /\ UNCHANGED <<formVersion, consentVersion, consents, applications, requests, exports, exportOf>>
        <3>1. UNCHANGED <<formVersion, consentVersion, consents, applications, requests, exports, exportOf>>
            BY <1>2 DEF I!SetProgramActive, I!privacy
        <3> DEFINE f0 == [programs EXCEPT ![p].version = @ + 1]
        <3>2. programs' = [f0 EXCEPT ![p].active = value]
            BY <1>2 DEF I!SetProgramActive
        <3>3. f0[p] = r0 /\ DOMAIN f0 = DOMAIN programs /\ \A x \in DOMAIN programs : x # p => f0[x] = programs[x]
            BY <2>0
        <3> HIDE DEF f0, r0
        <3>4. programs' = [f0 EXCEPT ![p] = r]
            BY <3>2, <3>3
        <3> HIDE DEF r
        <3>5. programs' = [x \in DOMAIN programs \cup {p} |-> IF x = p THEN r ELSE programs[x]]
            BY <2>0, <3>3, <3>4
        <3>6. QED BY <3>1, <3>5
    <2> HIDE DEF r
    <2>3. I!TypeOK'
        BY <2>1, <2>2 DEF IntakeInv, I!TypeOK
    <2>4. QED BY <2>2, <2>3, IntakeInvFront
<1>3. QED
    BY <1>1, <1>2

\* publish_form_schema and publish_consent_terms
LEMMA IntakeInvPublish ==
    ASSUME IntakeInv, UNCHANGED now, NEW caller, NEW p \in Programs,
           I!PublishFormSchema(caller, p) \/ I!PublishConsentTerms(caller, p)
    PROVE  IntakeInv' /\ I!SettleStep
<1>1. /\ p \in DOMAIN programs
      /\ formVersion \in [Programs -> Nat] /\ consentVersion \in [Programs -> Nat]
    BY DEF IntakeInv, I!TypeOK, I!PublishFormSchema, I!PublishConsentTerms, I!Has
<1>2. /\ formVersion' \in [Programs -> Nat] /\ consentVersion' \in [Programs -> Nat]
      /\ \A x \in Programs : x # p => formVersion'[x] = formVersion[x]
                                      /\ consentVersion'[x] = consentVersion[x]
      /\ UNCHANGED <<programs, consents, applications, requests, exports, exportOf>>
    BY <1>1 DEF I!PublishFormSchema, I!PublishConsentTerms, I!privacy
<1>3. I!TypeOK'
    BY <1>1, <1>2 DEF IntakeInv, I!TypeOK
<1>4. QED
    BY <1>2, <1>3, IntakeInvFront

\* record_consent and revoke_consent
LEMMA IntakeInvConsent ==
    ASSUME IntakeInv, UNCHANGED now, NEW a \in Applicants, NEW p \in Programs,
           I!RecordConsent(a, p) \/ I!RevokeConsent(a, p)
    PROVE  IntakeInv' /\ I!SettleStep
<1> DEFINE k == <<a, p>>
<1>1. k \in I!Pairs /\ consentVersion[p] \in Nat
    BY DEF I!Pairs, IntakeInv, I!TypeOK
<1>2. \E c \in I!ConsentRecord :
          consents' = [x \in DOMAIN consents \cup {k} |-> IF x = k THEN c ELSE consents[x]]
    <2>1. CASE I!RecordConsent(a, p)
        BY <1>1, <2>1 DEF I!RecordConsent, I!Set, I!ConsentRecord
    <2>2. CASE I!RevokeConsent(a, p)
        <3>1. k \in DOMAIN consents /\ consents[k] \in I!ConsentRecord
            BY <2>2 DEF I!RevokeConsent, I!Has, IntakeInv, I!TypeOK
        <3>2. [consents[k] EXCEPT !.revoked = TRUE] \in I!ConsentRecord
            BY <3>1 DEF I!ConsentRecord
        <3>3. consents' = [consents EXCEPT ![k] = [consents[k] EXCEPT !.revoked = TRUE]]
            BY <2>2 DEF I!RevokeConsent
        <3> HIDE DEF k
        <3>4. QED BY <3>1, <3>2, <3>3
    <2>3. QED BY <2>1, <2>2
<1>3. PICK c \in I!ConsentRecord :
          consents' = [x \in DOMAIN consents \cup {k} |-> IF x = k THEN c ELSE consents[x]]
    BY <1>2
<1>4. UNCHANGED <<programs, formVersion, consentVersion, applications, requests, exports, exportOf>>
    BY DEF I!RecordConsent, I!RevokeConsent, I!privacy
<1> HIDE DEF k
<1>5. I!TypeOK'
    BY <1>1, <1>3, <1>4 DEF IntakeInv, I!TypeOK
<1>6. QED
    BY <1>4, <1>5, IntakeInvFront

\* submit_application never replaces one.
LEMMA IntakeInvSubmit ==
    ASSUME IntakeInv, UNCHANGED now, NEW a \in Applicants, NEW p \in Programs,
           NEW hash \in Hashes, NEW v, I!SubmitApplication(a, p, hash, v)
    PROVE  IntakeInv' /\ I!SettleStep
<1> DEFINE k == <<a, p>>
           r == [data_hash |-> hash, form_version |-> v, consent_version |-> consents[k].version]
<1>1. /\ k \in DOMAIN consents /\ k \notin DOMAIN applications /\ v \in 1..formVersion[p]
      /\ applications' = [x \in DOMAIN applications \cup {k} |-> IF x = k THEN r ELSE applications[x]]
      /\ UNCHANGED <<programs, formVersion, consentVersion, consents, requests, exports, exportOf>>
    BY DEF I!SubmitApplication, I!HasValidConsent, I!NotYetApplied, I!Has, I!Set, I!intake, I!privacy
<1>2. r \in I!Application
    <2>1. consents[k] \in I!ConsentRecord /\ formVersion[p] \in Nat
        BY <1>1 DEF IntakeInv, I!TypeOK
    <2>2. consents[k].version \in Nat /\ v \in Nat
        BY <1>1, <2>1 DEF I!ConsentRecord
    <2>3. QED BY <2>2 DEF I!Application
<1> HIDE DEF r, k
<1>3. I!TypeOK'
    BY <1>1, <1>2 DEF IntakeInv, I!TypeOK
<1>4. \A x \in DOMAIN applications : applications'[x] = applications[x]
    BY <1>1
<1>5. QED
    BY <1>1, <1>3, <1>4 DEF IntakeInv, ErasuresBlank, PendingFound, I!SettleStep

\* request_correction and request_erasure
LEMMA IntakeInvRequest ==
    ASSUME IntakeInv, UNCHANGED now, NEW a \in Applicants, NEW p \in Programs,
           NEW target \in Hashes \cup {ZeroHash}, NEW type \in {"Correction", "Erasure"},
           type = "Erasure" => target = ZeroHash,
           I!AddRequest(<<a, p>>, type, target)
    PROVE  IntakeInv' /\ I!SettleStep
<1> DEFINE k == <<a, p>>
           r == [pair |-> k, request_type |-> type, target_data_hash |-> target, status |-> "Pending"]
           n == Len(requests)
<1>1. /\ requests' = Append(requests, r)
      /\ UNCHANGED <<programs, formVersion, consentVersion, consents, applications, exports, exportOf>>
    BY DEF I!AddRequest, I!intake
<1>2. r \in I!PrivacyRequest /\ r.request_type = type /\ r.target_data_hash = target
    BY DEF I!PrivacyRequest, I!Pairs
<1> HIDE DEF r
<1>3. requests \in Seq(I!PrivacyRequest) /\ n \in Nat
    BY IntakeTypes DEF IntakeInv, I!TypeOK
<1>4. /\ requests' \in Seq(I!PrivacyRequest) /\ Len(requests') = n + 1
      /\ \A i \in 1..n : requests'[i] = requests[i]
      /\ requests'[n + 1] = r
    BY <1>1, <1>2, <1>3, AppendProperties
<1>5. I!TypeOK'
    BY <1>1, <1>4 DEF IntakeInv, I!TypeOK
<1>6. ErasuresBlank'
    <2>1. \A i \in 1..(n + 1) : i \in 1..n \/ i = n + 1
        BY <1>3
    <2>2. QED BY <1>2, <1>4, <2>1 DEF IntakeInv, ErasuresBlank
<1>7. QED
    BY <1>1, <1>4, <1>5, <1>6 DEF IntakeInv, PendingFound, I!SettleStep

\* process_privacy_request: only an approval changes answers, to what was asked for.
LEMMA IntakeInvProcess ==
    ASSUME IntakeInv, UNCHANGED now, NEW caller, NEW id \in 1..Len(requests), NEW approve \in BOOLEAN,
           I!ProcessPrivacyRequest(caller, id, approve)
    PROVE  IntakeInv' /\ I!SettleStep
<1> DEFINE q == requests[id]
           st == IF approve THEN "Approved" ELSE "Denied"
           s == [q EXCEPT !.status = st]
           h == IF q.request_type = "Correction" THEN q.target_data_hash ELSE ZeroHash
           n == Len(requests)
<1>1. /\ requests \in Seq(I!PrivacyRequest) /\ n \in Nat /\ q \in I!PrivacyRequest
      /\ DOMAIN requests = 1..n
    BY IntakeTypes DEF IntakeInv, I!TypeOK
<1>2. /\ q.status = "Pending"
      /\ requests' = [requests EXCEPT ![id] = s]
      /\ applications' = IF approve /\ q.pair \in DOMAIN applications
                         THEN [applications EXCEPT ![q.pair].data_hash = h] ELSE applications
      /\ UNCHANGED <<programs, formVersion, consentVersion, consents, exports, exportOf>>
    BY DEF I!ProcessPrivacyRequest, I!AwaitsProcessing, I!Has, I!intake
<1>3. h \in Hashes \cup {ZeroHash} /\ h = q.target_data_hash
    BY <1>1 DEF IntakeInv, ErasuresBlank, I!PrivacyRequest
<1>4. /\ s \in I!PrivacyRequest /\ s.status = st /\ s.request_type = q.request_type
      /\ s.target_data_hash = q.target_data_hash
    <2>1. st \in {"Approved", "Denied"}
        OBVIOUS
    <2> HIDE DEF q, st
    <2>2. QED BY <1>1, <2>1 DEF I!PrivacyRequest
<1> HIDE DEF q, s, h, st
<1>5. requests' \in Seq(I!PrivacyRequest) /\ Len(requests') = n
    BY <1>1, <1>2, <1>4, ExceptSeq
<1>6. requests'[id] = s /\ \A i \in 1..n : i # id => requests'[i] = requests[i]
    BY <1>1, <1>2
<1>7. ErasuresBlank'
    BY <1>4, <1>5, <1>6 DEF IntakeInv, ErasuresBlank, q
<1>8. /\ DOMAIN applications' = DOMAIN applications
      /\ \A k \in DOMAIN applications :
            /\ applications'[k] \in I!Application
            /\ applications'[k].form_version = applications[k].form_version
            /\ applications'[k].consent_version = applications[k].consent_version
            /\ applications'[k].data_hash # applications[k].data_hash =>
                  approve /\ k = q.pair /\ applications'[k].data_hash = q.target_data_hash
    <2>0. \A k \in DOMAIN applications : applications[k] \in I!Application
        BY DEF IntakeInv, I!TypeOK
    <2>1. CASE approve /\ q.pair \in DOMAIN applications
        <3> DEFINE x == q.pair
                   b == [applications[x] EXCEPT !.data_hash = h]
        <3>1. /\ b \in I!Application /\ b.form_version = applications[x].form_version
              /\ b.consent_version = applications[x].consent_version /\ b.data_hash = h
            <4>1. applications[x] \in I!Application
                BY <2>0, <2>1
            <4> HIDE DEF x
            <4>2. QED BY <1>3, <4>1 DEF I!Application
        <3>2. applications' = [applications EXCEPT ![x] = b]
            BY <1>2, <2>1
        <3> HIDE DEF b, x
        <3>3. QED BY <1>3, <2>0, <2>1, <3>1, <3>2 DEF x
    <2>2. CASE ~(approve /\ q.pair \in DOMAIN applications)
        BY <1>2, <2>0, <2>2
    <2>3. QED BY <2>1, <2>2
<1>9. I!TypeOK'
    BY <1>2, <1>5, <1>8 DEF IntakeInv, I!TypeOK
<1>10. I!SettleStep
    <2>1. \A i \in 1..n : requests[i].status # "Pending" => requests'[i] = requests[i]
        BY <1>2, <1>6 DEF q
    <2>2. approve => requests'[id].status = "Approved"
        BY <1>4, <1>6 DEF st
    <2>3. q = requests[id] /\ id \in 1..n
        BY DEF q
    <2>4. QED BY <1>2, <1>8, <2>1, <2>2, <2>3 DEF I!SettleStep
<1>11. QED
    BY <1>2, <1>7, <1>9, <1>10 DEF IntakeInv, PendingFound

\* request_data_export: the pointer moves to the new request, and the one it leaves
\* behind is not pending.
LEMMA IntakeInvExport ==
    ASSUME IntakeInv, UNCHANGED now, NEW a \in Applicants, NEW p \in Programs,
           I!RequestDataExport(a, p)
    PROVE  IntakeInv' /\ I!SettleStep
<1> DEFINE k == <<a, p>>
           r == [pair |-> k, status |-> "Pending", export_hash |-> ZeroHash]
           n == Len(exports)
<1>1. /\ ~(k \in DOMAIN exportOf /\ exports[exportOf[k]].status = "Pending")
      /\ exports' = Append(exports, r)
      /\ exportOf' = [x \in DOMAIN exportOf \cup {k} |-> IF x = k THEN n + 1 ELSE exportOf[x]]
      /\ UNCHANGED <<programs, formVersion, consentVersion, consents, applications, requests>>
    BY DEF I!RequestDataExport, I!ExportPending, I!Has, I!Set, I!intake
<1>2. r \in I!DataExportRequest /\ r.pair = k /\ k \in I!Pairs
    BY DEF I!DataExportRequest, I!Pairs
<1> HIDE DEF r, k
<1>3. exports \in Seq(I!DataExportRequest) /\ n \in Nat
    BY IntakeTypes DEF IntakeInv, I!TypeOK
<1>4. /\ exports' \in Seq(I!DataExportRequest) /\ Len(exports') = n + 1
      /\ \A i \in 1..n : exports'[i] = exports[i]
      /\ exports'[n + 1] = r
    BY <1>1, <1>2, <1>3, AppendProperties
<1>5. \A x \in DOMAIN exportOf' : x \in I!Pairs /\ exportOf'[x] \in 1..(n + 1)
    <2>1. \A x \in DOMAIN exportOf : x \in I!Pairs /\ exportOf[x] \in 1..n
        BY DEF IntakeInv, I!TypeOK
    <2>2. 1..n \subseteq 1..(n + 1) /\ n + 1 \in 1..(n + 1)
        BY <1>3
    <2> HIDE DEF n
    <2>3. QED BY <1>1, <1>2, <2>1, <2>2
<1>6. I!TypeOK'
    BY <1>1, <1>4, <1>5 DEF IntakeInv, I!TypeOK
<1>7. PendingFound'
    <2> SUFFICES ASSUME NEW i \in 1..(n + 1), exports'[i].status = "Pending"
                 PROVE  exports'[i].pair \in DOMAIN exportOf' /\ exportOf'[exports'[i].pair] = i
        BY <1>4 DEF PendingFound
    <2>1. i \in 1..n \/ i = n + 1
        BY <1>3
    <2>2. CASE i = n + 1
        BY <1>1, <1>2, <1>4, <2>2
    <2>3. CASE i \in 1..n
        <3>1. /\ exports[i].status = "Pending" /\ exports'[i] = exports[i]
              /\ exports[i].pair \in DOMAIN exportOf /\ exportOf[exports[i].pair] = i
            BY <1>4, <2>3 DEF IntakeInv, PendingFound
        <3>2. exports[i].pair # k
            BY <1>1, <3>1
        <3>3. QED BY <1>1, <3>1, <3>2
    <2>4. QED BY <2>1, <2>2, <2>3
<1>8. QED
    BY <1>1, <1>4, <1>6, <1>7 DEF IntakeInv, ErasuresBlank, I!SettleStep

\* cancel_data_export and complete_data_export
LEMMA IntakeInvResolve ==
    ASSUME IntakeInv, UNCHANGED now, NEW id \in 1..Len(exports),
           \/ \E a \in Applicants : I!CancelDataExport(a, id)
           \/ \E caller \in Applicants \cup {Admin}, hash \in Hashes \cup {ZeroHash} : I!CompleteDataExport(caller, id, hash)
    PROVE  IntakeInv' /\ I!SettleStep
<1> DEFINE e == exports[id]
           n == Len(exports)
<1>1. /\ exports \in Seq(I!DataExportRequest) /\ n \in Nat /\ e \in I!DataExportRequest
      /\ DOMAIN exports = 1..n
    BY IntakeTypes DEF IntakeInv, I!TypeOK
<1>2. /\ e.status = "Pending"
      /\ UNCHANGED <<programs, formVersion, consentVersion, consents, applications, requests, exportOf>>
    BY DEF I!CancelDataExport, I!CompleteDataExport, I!intake
<1>3. \E f \in I!DataExportRequest : f.status # "Pending" /\ exports' = [exports EXCEPT ![id] = f]
    <2>1. ASSUME NEW a, I!CancelDataExport(a, id)
          PROVE  \E f \in I!DataExportRequest : f.status # "Pending" /\ exports' = [exports EXCEPT ![id] = f]
        <3> DEFINE f == [e EXCEPT !.status = "Cancelled"]
        <3>1. exports' = [exports EXCEPT ![id] = f]
            BY <2>1 DEF I!CancelDataExport
        <3>2. f \in I!DataExportRequest /\ f.status # "Pending"
            <4> HIDE DEF e
            <4>1. QED BY <1>1 DEF I!DataExportRequest
        <3> HIDE DEF f
        <3>3. QED BY <3>1, <3>2
    <2>2. ASSUME NEW caller, NEW hash \in Hashes \cup {ZeroHash}, I!CompleteDataExport(caller, id, hash)
          PROVE  \E f \in I!DataExportRequest : f.status # "Pending" /\ exports' = [exports EXCEPT ![id] = f]
        <3> DEFINE f0 == [e EXCEPT !.status = "Completed"]
                   f == [f0 EXCEPT !.export_hash = hash]
                   x0 == [exports EXCEPT ![id].status = "Completed"]
        <3>1. exports' = [x0 EXCEPT ![id].export_hash = hash]
            BY <2>2 DEF I!CompleteDataExport
        <3>2. f0 \in I!DataExportRequest /\ f0.status = "Completed"
            <4> HIDE DEF e
            <4>1. QED BY <1>1 DEF I!DataExportRequest
        <3>3. x0 = [exports EXCEPT ![id] = f0]
            BY <1>1
        <3> HIDE DEF f0, x0
        <3>4. f \in I!DataExportRequest /\ f.status # "Pending"
            BY <3>2 DEF I!DataExportRequest
        <3>5. exports' = [x0 EXCEPT ![id] = f]
            BY <1>1, <3>1, <3>3
        <3> HIDE DEF f
        <3>6. exports' = [exports EXCEPT ![id] = f]
            BY <1>1, <3>3, <3>5
        <3>7. QED BY <3>4, <3>6
    <2>3. QED BY <2>1, <2>2
<1>4. PICK f \in I!DataExportRequest : f.status # "Pending" /\ exports' = [exports EXCEPT ![id] = f]
    BY <1>3
<1>5. exports' \in Seq(I!DataExportRequest) /\ Len(exports') = n
    BY <1>1, <1>4, ExceptSeq
<1>6. exports'[id] = f /\ \A i \in 1..n : i # id => exports'[i] = exports[i]
    BY <1>1, <1>4
<1> HIDE DEF n, e
<1>7. I!TypeOK'
    BY <1>2, <1>5 DEF IntakeInv, I!TypeOK, n
<1>8. PendingFound'
    BY <1>2, <1>4, <1>5, <1>6 DEF IntakeInv, PendingFound, n
<1>9. I!SettleStep
    BY <1>2, <1>6 DEF I!SettleStep, e, n
<1>10. QED
    BY <1>2, <1>7, <1>8, <1>9 DEF IntakeInv, ErasuresBlank

\* Every call of the intake half.
LEMMA IntakeInvNext ==
    ASSUME IntakeInv, I!Next, UNCHANGED now
    PROVE  IntakeInv' /\ I!SettleStep
<1>1. CASE \E caller \in Applicants \cup {Admin} :
           \/ \E p \in Programs :
                  \/ \E deadline \in Deadlines : I!RegisterProgram(caller, p, deadline)
                  \/ \E expected \in 1..MaxIntakeVersion, value \in BOOLEAN :
                         I!SetProgramActive(caller, p, expected, value)
                  \/ I!PublishFormSchema(caller, p)
                  \/ I!PublishConsentTerms(caller, p)
           \/ \E id \in 1..Len(requests), approve \in BOOLEAN :
                  I!ProcessPrivacyRequest(caller, id, approve)
           \/ \E id \in 1..Len(exports), hash \in Hashes \cup {ZeroHash} :
                  I!CompleteDataExport(caller, id, hash)
    BY <1>1, IntakeInvProgram, IntakeInvPublish, IntakeInvProcess, IntakeInvResolve
<1>2. CASE \E a \in Applicants :
           \/ \E p \in Programs :
                  \/ I!RecordConsent(a, p)
                  \/ I!RevokeConsent(a, p)
                  \/ \E hash \in Hashes, v \in 0..MaxForms : I!SubmitApplication(a, p, hash, v)
                  \/ \E hash \in Hashes : I!RequestCorrection(a, p, hash)
                  \/ I!RequestErasure(a, p)
                  \/ I!RequestDataExport(a, p)
           \/ \E id \in 1..Len(exports) : I!CancelDataExport(a, id)
    BY <1>2, IntakeInvConsent, IntakeInvSubmit, IntakeInvRequest, IntakeInvExport, IntakeInvResolve
       DEF I!RequestCorrection, I!RequestErasure
<1>3. QED
    BY <1>1, <1>2 DEF I!Next

\* Calls of the other contracts, and the clock.
LEMMA IntakeInvStutter ==
    ASSUME IntakeInv, UNCHANGED intakeVars, now' \in Nat
    PROVE  IntakeInv' /\ I!SettleStep
<1>1. UNCHANGED <<programs, formVersion, consentVersion, consents, applications, requests, exports, exportOf>>
    BY DEF intakeVars
<1>2. I!TypeOK'
    BY <1>1 DEF IntakeInv, I!TypeOK
<1>3. QED
    BY <1>1, <1>2, IntakeInvFront

-----------------------------------------------------------------------------
(* scholarship-decisions: votes *)

\* Finitely many votes are counted by numbers.
LEMMA TallyNat ==
    ASSUME NEW votes, IsFiniteSet(DOMAIN votes), NEW choice
    PROVE  D!Tally(votes, choice) \in Nat
<1> DEFINE T == {m \in DOMAIN votes : votes[m] = choice}
<1>1. IsFiniteSet(T)
    <2>1. T \subseteq DOMAIN votes
        OBVIOUS
    <2> HIDE DEF T
    <2>2. QED BY <2>1, FS_Subset
<1>2. D!Tally(votes, choice) = Cardinality(T)
    BY SameCardinality DEF D!Tally
<1>3. QED
    <2> HIDE DEF T
    <2>1. QED BY <1>1, <1>2, FS_CardinalityType

\* decide_outcome follows the documented tie policy, whatever the numbers of votes.
LEMMA OutcomeWins ==
    ASSUME NEW votes, IsFiniteSet(DOMAIN votes)
    PROVE  /\ D!Wins(votes, D!Outcome(votes))
           /\ D!Outcome(votes) \in {"Awarded", "Waitlisted", "Rejected"}
<1> DEFINE a == D!Tally(votes, "Award")
           w == D!Tally(votes, "Waitlist")
           r == D!Tally(votes, "Reject")
           o == D!Outcome(votes)
<1>1. a \in Nat /\ w \in Nat /\ r \in Nat
    BY TallyNat
<1>2. /\ D!Support(votes, "Awarded") = a /\ D!Support(votes, "Waitlisted") = w
      /\ D!Support(votes, "Rejected") = r
    BY DEF D!Support
<1>3. D!Rank("Awarded") = 1 /\ D!Rank("Waitlisted") = 2 /\ D!Rank("Rejected") = 3
    BY DEF D!Rank
<1>4. o = IF r >= w /\ r >= a THEN "Rejected" ELSE IF w >= a THEN "Waitlisted" ELSE "Awarded"
    BY DEF D!Outcome, D!DecideOutcome
<1> HIDE DEF a, w, r, o
<1>5. D!DecisionOutcome \ {"Pending"} = {"Awarded", "Waitlisted", "Rejected"}
    BY DEF D!DecisionOutcome
<1>6. CASE r >= w /\ r >= a
    <2>1. o = "Rejected"
        BY <1>4, <1>6
    <2>2. /\ w < r \/ w = r
          /\ a < r \/ a = r
        BY <1>1, <1>6
    <2>3. QED BY <1>2, <1>3, <1>5, <2>1, <2>2 DEF D!Wins, o
<1>7. CASE ~(r >= w /\ r >= a) /\ w >= a
    <2>1. o = "Waitlisted"
        BY <1>4, <1>7
    <2>2. r < w /\ (a < w \/ a = w)
        BY <1>1, <1>7
    <2>3. QED BY <1>2, <1>3, <1>5, <2>1, <2>2 DEF D!Wins, o
<1>8. CASE ~(r >= w /\ r >= a) /\ ~(w >= a)
    <2>1. o = "Awarded"
        BY <1>4, <1>8
    <2>2. r < a /\ w < a
        BY <1>1, <1>8
    <2>3. QED BY <1>2, <1>3, <1>5, <2>1, <2>2 DEF D!Wins, o
<1>9. QED
    BY <1>6, <1>7, <1>8

\* Adding the vote of a member who has not voted.
LEMMA AddVote ==
    ASSUME NEW votes \in D!Votes, IsFiniteSet(DOMAIN votes), NEW m \in Chairs \cup Panel,
           NEW choice \in D!VoteChoice
    PROVE  LET v == D!Set(votes, m, choice) IN
           v \in D!Votes /\ DOMAIN v = DOMAIN votes \cup {m} /\ IsFiniteSet(DOMAIN v)
<1> DEFINE v == D!Set(votes, m, choice)
<1>1. PICK voters \in SUBSET (Chairs \cup Panel) : votes \in [voters -> D!VoteChoice]
    BY DEF D!Votes
<1>2. v \in [voters \cup {m} -> D!VoteChoice] /\ DOMAIN v = DOMAIN votes \cup {m}
    BY <1>1 DEF D!Set
<1>3. v \in D!Votes
    <2>1. voters \cup {m} \in SUBSET (Chairs \cup Panel)
        OBVIOUS
    <2> HIDE DEF v
    <2>2. QED BY <1>2, <2>1 DEF D!Votes
<1>4. IsFiniteSet(DOMAIN v)
    <2> HIDE DEF v
    <2>1. QED BY <1>2, FS_AddElement
<1>5. QED
    BY <1>2, <1>3, <1>4

\* A ballot that has not been opened yet holds no vote.
LEMMA NoVote == D!Empty \in D!Votes /\ DOMAIN D!Empty = {} /\ IsFiniteSet(DOMAIN D!Empty)
<1>1. DOMAIN D!Empty = {} /\ D!Empty \in [{} -> D!VoteChoice]
    BY DEF D!Empty
<1>2. {} \in SUBSET (Chairs \cup Panel)
    OBVIOUS
<1>3. D!Empty \in D!Votes
    <2> DEFINE e == D!Empty
    <2>1. e \in [{} -> D!VoteChoice]
        BY <1>1
    <2> HIDE DEF e
    <2>2. e \in D!Votes
        BY <1>2, <2>1 DEF D!Votes
    <2>3. QED BY <2>2 DEF e
<1>4. QED
    BY <1>1, <1>3, FS_EmptySet

-----------------------------------------------------------------------------
(* scholarship-decisions: the inductive invariant *)

\* The decision d of the application k, given the stores of appeals and
\* reservations, can be traced to its votes.  The third part is not in
\* OutcomeTraceable: while an appeal is open the outcome is still the one it is
\* directed against, so that its award finds no reservation in its way.
Traced(d, k, ap, res) ==
    /\ d.status = "Open" => d.outcome = "Pending" /\ k \notin DOMAIN ap
    /\ d.status = "Finalized" =>
         LET overruled == k \in DOMAIN ap /\ ap[k].status = "Resolved" IN
         /\ D!Wins(IF overruled THEN ap[k].votes ELSE d.votes, d.outcome)
         /\ d.outcome_version = IF overruled THEN 2 ELSE 1
    /\ k \in DOMAIN ap /\ ap[k].status = "Open" => d.outcome \in {"Rejected", "Waitlisted"}
    /\ k \in DOMAIN ap => /\ DOMAIN ap[k].votes \cap DOMAIN d.votes = {}
                          /\ D!Wins(d.votes, ap[k].original_outcome)
    /\ k \in DOMAIN res <=> d.outcome = "Awarded"

\* The reservations of a program in a status.
HeldIn(p, status) == {k \in DOMAIN reservations : k[1] = p /\ reservations[k].status = status}

\* The counters of a program's configuration are r reservations and c claims.
Spent(g, r, c) ==
    /\ g.reserved_amount = g.per_award_amount * r
    /\ g.awarded_amount = g.per_award_amount * c
    /\ g.reserved_amount + g.awarded_amount <= g.total_budget

VotesInv ==
    /\ D!TypeOK
    /\ \A k \in DOMAIN decisions : IsFiniteSet(DOMAIN decisions[k].votes)
    /\ \A k \in DOMAIN appeals : IsFiniteSet(DOMAIN appeals[k].votes)

SpendingInv ==
    /\ IsFiniteSet(DOMAIN reservations)
    /\ \A k \in DOMAIN reservations : reservations[k].amount = configs[k[1]].per_award_amount
    /\ \A p \in DOMAIN configs :
         Spent(configs[p], Cardinality(HeldIn(p, "Reserved")), Cardinality(HeldIn(p, "Claimed")))

TraceInv == \A k \in DOMAIN decisions : Traced(decisions[k], k, appeals, reservations)

DecisionsInv == VotesInv /\ SpendingInv /\ TraceInv

\* The invariant gives the two properties.
LEMMA DecisionsInvMeans == ASSUME DecisionsInv PROVE D!DecisionBudgetExact /\ D!OutcomeTraceable
<1>1. D!DecisionBudgetExact
    BY SameCardinality DEF DecisionsInv, SpendingInv, Spent, HeldIn, D!DecisionBudgetExact, D!AmountIn
<1>2. D!OutcomeTraceable
    BY DEF DecisionsInv, TraceInv, Traced, D!OutcomeTraceable, D!Has
<1>3. QED
    BY <1>1, <1>2

\* initialize leaves no program and no decision.
LEMMA DecisionsInvInit == ASSUME now = 0, D!Init PROVE DecisionsInv
<1>1. /\ DOMAIN role = {} /\ DOMAIN configs = {} /\ DOMAIN decisions = {}
      /\ DOMAIN reservations = {} /\ DOMAIN appeals = {} /\ active = {} /\ quorum = 0
    BY DEF D!Init, D!Empty
<1>2. D!TypeOK
    BY <1>1, SelectionConstants DEF D!TypeOK
<1>3. QED
    BY <1>1, <1>2, FS_EmptySet DEF DecisionsInv, VotesInv, SpendingInv, TraceInv

\* Calls that change only the committee, and the clock.
LEMMA DecisionsInvCommittee ==
    ASSUME DecisionsInv, D!TypeOK', UNCHANGED <<configs, decisions, reservations, appeals>>
    PROVE  DecisionsInv' /\ D!FinalStep
<1>1. \A p, st : HeldIn(p, st)' = HeldIn(p, st)
    BY DEF HeldIn
<1>2. VotesInv' /\ SpendingInv'
    BY <1>1 DEF DecisionsInv, VotesInv, SpendingInv
<1>3. TraceInv'
    BY DEF DecisionsInv, TraceInv
<1>4. QED
    BY <1>2, <1>3 DEF DecisionsInv, D!FinalStep

\* Writing a configuration that leaves the counters of the program right.
LEMMA DecisionsInvConfig ==
    ASSUME DecisionsInv, NEW p \in Programs, NEW g \in D!DecisionProgramConfig,
           configs' = [x \in DOMAIN configs \cup {p} |-> IF x = p THEN g ELSE configs[x]],
           Spent(g, Cardinality(HeldIn(p, "Reserved")), Cardinality(HeldIn(p, "Claimed"))),
           p \in DOMAIN configs => g.per_award_amount = configs[p].per_award_amount,
           UNCHANGED <<now, role, active, quorum, decisions, reservations, appeals>>
    PROVE  DecisionsInv' /\ D!FinalStep
<1>1. D!TypeOK'
    BY DEF DecisionsInv, VotesInv, D!TypeOK, D!Has
<1>2. \A x, st : HeldIn(x, st)' = HeldIn(x, st)
    BY DEF HeldIn
<1>3. \A k \in DOMAIN reservations : k[1] \in DOMAIN configs
    BY DEF DecisionsInv, VotesInv, D!TypeOK, D!Has
<1>4. SpendingInv'
    <2>1. \A k \in DOMAIN reservations' : reservations'[k].amount = configs'[k[1]].per_award_amount
        BY <1>3 DEF DecisionsInv, SpendingInv
    <2>2. \A x \in DOMAIN configs' :
              Spent(configs'[x], Cardinality(HeldIn(x, "Reserved")), Cardinality(HeldIn(x, "Claimed")))
        BY DEF DecisionsInv, SpendingInv
    <2>3. QED BY <1>2, <2>1, <2>2 DEF DecisionsInv, SpendingInv
<1>5. VotesInv' /\ TraceInv'
    BY <1>1 DEF DecisionsInv, VotesInv, TraceInv
<1>6. QED
    BY <1>4, <1>5 DEF DecisionsInv, D!FinalStep

\* Writing a decision that is not settled yet (open_decision, vote, recuse).
LEMMA DecisionsInvDecision ==
    ASSUME DecisionsInv, NEW k \in D!Keys, k[1] \in DOMAIN configs, NEW d \in D!Decision,
           IsFiniteSet(DOMAIN d.votes), Traced(d, k, appeals, reservations),
           k \in DOMAIN decisions => decisions[k].status = "Open",
           decisions' = [x \in DOMAIN decisions \cup {k} |-> IF x = k THEN d ELSE decisions[x]],
           UNCHANGED <<now, role, active, quorum, configs, reservations, appeals>>
    PROVE  DecisionsInv' /\ D!FinalStep
<1>1. D!TypeOK'
    BY DEF DecisionsInv, VotesInv, D!TypeOK, D!Has
<1>2. SpendingInv'
    <2>1. \A x, st : HeldIn(x, st)' = HeldIn(x, st)
        BY DEF HeldIn
    <2>2. QED BY <2>1 DEF DecisionsInv, SpendingInv
<1>3. VotesInv'
    BY <1>1 DEF DecisionsInv, VotesInv
<1>4. TraceInv'
    <2>1. \A x \in DOMAIN decisions' : Traced(decisions'[x], x, appeals, reservations)
        BY DEF DecisionsInv, TraceInv
    <2>2. QED BY <2>1 DEF TraceInv
<1>5. D!FinalStep
    BY DEF D!FinalStep
<1>6. QED
    BY <1>2, <1>3, <1>4, <1>5 DEF DecisionsInv

\* Writing an appeal that is not resolved (file_appeal, vote_appeal).
LEMMA DecisionsInvAppeal ==
    ASSUME DecisionsInv, NEW k \in DOMAIN decisions, NEW ap \in D!Appeal,
           IsFiniteSet(DOMAIN ap.votes),
           k \in DOMAIN appeals => appeals[k].status = "Open",
           appeals' = [x \in DOMAIN appeals \cup {k} |-> IF x = k THEN ap ELSE appeals[x]],
           Traced(decisions[k], k, appeals', reservations),
           UNCHANGED <<now, role, active, quorum, configs, decisions, reservations>>
    PROVE  DecisionsInv' /\ D!FinalStep
<1>1. D!TypeOK'
    BY DEF DecisionsInv, VotesInv, D!TypeOK, D!Has
<1>2. SpendingInv'
    <2>1. \A x, st : HeldIn(x, st)' = HeldIn(x, st)
        BY DEF HeldIn
    <2>2. QED BY <2>1 DEF DecisionsInv, SpendingInv
<1>3. VotesInv'
    BY <1>1 DEF DecisionsInv, VotesInv
<1>4. TraceInv'
    <2> SUFFICES ASSUME NEW x \in DOMAIN decisions
                 PROVE  Traced(decisions[x], x, appeals', reservations)
        BY DEF TraceInv
    <2>1. CASE x = k
        BY <2>1
    <2>2. CASE x # k
        <3>1. Traced(decisions[x], x, appeals, reservations)
            BY DEF DecisionsInv, TraceInv
        <3>2. x \in DOMAIN appeals' <=> x \in DOMAIN appeals
            BY <2>2
        <3>3. x \in DOMAIN appeals => appeals'[x] = appeals[x]
            BY <2>2
        <3>4. QED BY ONLY <3>1, <3>2, <3>3 DEF Traced
    <2>3. QED BY <2>1, <2>2
<1>5. D!FinalStep
    BY DEF D!FinalStep
<1>6. QED
    BY <1>2, <1>3, <1>4, <1>5 DEF DecisionsInv

\* add_member, remove_member and set_quorum
LEMMA DecisionsInvMembers ==
    ASSUME DecisionsInv, UNCHANGED now, NEW caller,
           \/ \E mr \in Appointments : D!AddMember(caller, mr[1], mr[2])
           \/ \E m \in Chairs \cup Panel : D!RemoveMember(caller, m)
           \/ \E q \in Quorums : D!SetQuorum(caller, q)
    PROVE  DecisionsInv' /\ D!FinalStep
<1>1. D!TypeOK
    BY DEF DecisionsInv, VotesInv
<1>2. ASSUME NEW mr \in Appointments, D!AddMember(caller, mr[1], mr[2])
      PROVE  DecisionsInv' /\ D!FinalStep
    <2>1. mr[1] \in Chairs \cup Panel /\ mr[2] \in D!CommitteeRole
        BY DEF Appointments, D!CommitteeRole
    <2>2. /\ role' = [x \in DOMAIN role \cup {mr[1]} |-> IF x = mr[1] THEN mr[2] ELSE role[x]]
          /\ active' = active \cup {mr[1]}
          /\ UNCHANGED <<quorum, configs, decisions, reservations, appeals>>
        BY <1>2 DEF D!AddMember, D!Set
    <2>3. D!TypeOK'
        BY <1>1, <2>1, <2>2 DEF D!TypeOK
    <2>4. QED BY <2>2, <2>3, DecisionsInvCommittee
<1>3. ASSUME NEW m \in Chairs \cup Panel, D!RemoveMember(caller, m)
      PROVE  DecisionsInv' /\ D!FinalStep
    <2>1. active' \subseteq active /\ UNCHANGED <<role, quorum, configs, decisions, reservations, appeals>>
        BY <1>3 DEF D!RemoveMember
    <2>2. D!TypeOK'
        BY <1>1, <2>1 DEF D!TypeOK
    <2>3. QED BY <2>1, <2>2, DecisionsInvCommittee
<1>4. ASSUME NEW q \in Quorums, D!SetQuorum(caller, q)
      PROVE  DecisionsInv' /\ D!FinalStep
    <2>1. quorum' \in 0..MAX_MEMBERS /\ UNCHANGED <<role, active, configs, decisions, reservations, appeals>>
        BY <1>4, SelectionConstants DEF D!SetQuorum, D!QuorumInRange
    <2>2. D!TypeOK'
        BY <1>1, <2>1 DEF D!TypeOK
    <2>3. QED BY <2>1, <2>2, DecisionsInvCommittee
<1>5. QED
    BY <1>2, <1>3, <1>4

\* register_program: a new program has no reservations.
LEMMA DecisionsInvRegister ==
    ASSUME DecisionsInv, UNCHANGED now, NEW caller, NEW p \in Programs,
           NEW total \in Budgets, NEW per_award \in Budgets, NEW ttl \in Periods, NEW window \in Periods,
           D!RegisterProgram(caller, p, total, per_award, ttl, window)
    PROVE  DecisionsInv' /\ D!FinalStep
<1> DEFINE g == [active |-> TRUE, total_budget |-> total, per_award_amount |-> per_award,
                 reserved_amount |-> 0, awarded_amount |-> 0,
                 reservation_ttl |-> ttl, appeal_window |-> window]
<1>1. /\ p \notin DOMAIN configs /\ total > 0 /\ per_award > 0
      /\ configs' = [x \in DOMAIN configs \cup {p} |-> IF x = p THEN g ELSE configs[x]]
      /\ UNCHANGED <<role, active, quorum, decisions, reservations, appeals>>
    BY DEF D!RegisterProgram, D!Has, D!Set, D!committee
<1>2. total \in Nat /\ per_award \in Nat /\ ttl \in Nat /\ window \in Nat
    BY <1>1, SelectionConstants
<1>3. g \in D!DecisionProgramConfig
    BY <1>2 DEF D!DecisionProgramConfig
<1>4. HeldIn(p, "Reserved") = {} /\ HeldIn(p, "Claimed") = {}
    BY <1>1 DEF HeldIn, DecisionsInv, VotesInv, D!TypeOK, D!Has
<1>5. Spent(g, 0, 0)
    BY <1>2 DEF Spent
<1> HIDE DEF g
<1>6. Spent(g, Cardinality(HeldIn(p, "Reserved")), Cardinality(HeldIn(p, "Claimed")))
    BY <1>4, <1>5, FS_EmptySet
<1>7. QED
    BY <1>1, <1>3, <1>6, DecisionsInvConfig

\* set_program_active
LEMMA DecisionsInvActivate ==
    ASSUME DecisionsInv, UNCHANGED now, NEW caller, NEW p \in Programs, NEW value \in BOOLEAN,
           D!SetProgramActive(caller, p, value)
    PROVE  DecisionsInv' /\ D!FinalStep
<1> DEFINE f == configs[p]
           g == [f EXCEPT !.active = value]
<1>1. /\ p \in DOMAIN configs
      /\ configs' = [configs EXCEPT ![p] = g]
      /\ UNCHANGED <<role, active, quorum, decisions, reservations, appeals>>
    BY DEF D!SetProgramActive, D!Has, D!committee
<1>2. /\ f \in D!DecisionProgramConfig
      /\ Spent(f, Cardinality(HeldIn(p, "Reserved")), Cardinality(HeldIn(p, "Claimed")))
    BY <1>1 DEF DecisionsInv, VotesInv, SpendingInv, D!TypeOK
<1>3. /\ g \in D!DecisionProgramConfig /\ g.total_budget = f.total_budget
      /\ g.per_award_amount = f.per_award_amount
      /\ g.reserved_amount = f.reserved_amount /\ g.awarded_amount = f.awarded_amount
    <2> HIDE DEF f
    <2>1. QED BY <1>2 DEF D!DecisionProgramConfig
<1> HIDE DEF g
<1>4. Spent(g, Cardinality(HeldIn(p, "Reserved")), Cardinality(HeldIn(p, "Claimed")))
    BY <1>2, <1>3 DEF Spent
<1>5. configs' = [x \in DOMAIN configs \cup {p} |-> IF x = p THEN g ELSE configs[x]]
    BY <1>1
<1>6. QED
    BY <1>1, <1>3, <1>4, <1>5, DecisionsInvConfig

\* open_decision
LEMMA DecisionsInvOpen ==
    ASSUME DecisionsInv, UNCHANGED now, NEW caller, NEW p \in Programs, NEW a \in Candidates, NEW v,
           D!OpenDecision(caller, p, a, v)
    PROVE  DecisionsInv' /\ D!FinalStep
<1> DEFINE k == <<p, a>>
           d == [status |-> "Open", outcome |-> "Pending", outcome_version |-> 0,
                 finalized_at |-> 0, votes |-> D!Empty]
<1>1. /\ k \notin DOMAIN decisions /\ k[1] \in DOMAIN configs /\ k \in D!Keys
      /\ decisions' = [x \in DOMAIN decisions \cup {k} |-> IF x = k THEN d ELSE decisions[x]]
      /\ UNCHANGED <<role, active, quorum, configs, reservations, appeals>>
    BY DEF D!OpenDecision, D!ProgramActive, D!Has, D!Set, D!committee, D!Keys
<1>2. d \in D!Decision /\ IsFiniteSet(DOMAIN d.votes) /\ d.status = "Open" /\ d.outcome = "Pending"
    <2> DEFINE e == D!Empty
    <2>1. e \in D!Votes /\ IsFiniteSet(DOMAIN e)
        BY NoVote
    <2> HIDE DEF e
    <2>2. QED BY <2>1 DEF D!Decision, D!DecisionOutcome, e
<1> HIDE DEF d, k
<1>3. k \notin DOMAIN appeals /\ k \notin DOMAIN reservations
    BY <1>1 DEF DecisionsInv, VotesInv, D!TypeOK
<1>4. Traced(d, k, appeals, reservations)
    BY <1>2, <1>3 DEF Traced
<1>5. QED
    BY <1>1, <1>2, <1>4, DecisionsInvDecision

\* The stored decision and appeal of an application.
LEMMA DecisionTypes ==
    ASSUME DecisionsInv, NEW k
    PROVE  /\ k \in DOMAIN decisions =>
                /\ k \in D!Keys /\ k[1] \in DOMAIN configs /\ decisions[k] \in D!Decision
                /\ decisions[k].votes \in D!Votes /\ IsFiniteSet(DOMAIN decisions[k].votes)
                /\ Traced(decisions[k], k, appeals, reservations)
                /\ configs[k[1]] \in D!DecisionProgramConfig
           /\ k \in DOMAIN appeals =>
                /\ k \in DOMAIN decisions /\ appeals[k] \in D!Appeal
                /\ appeals[k].votes \in D!Votes /\ IsFiniteSet(DOMAIN appeals[k].votes)
           /\ k \in DOMAIN reservations =>
                /\ k \in DOMAIN decisions /\ reservations[k] \in D!Reservation
                /\ reservations[k].amount = configs[k[1]].per_award_amount
<1>1. k \in DOMAIN decisions =>
                /\ k \in D!Keys /\ k[1] \in DOMAIN configs /\ decisions[k] \in D!Decision
                /\ IsFiniteSet(DOMAIN decisions[k].votes)
                /\ Traced(decisions[k], k, appeals, reservations)
                /\ configs[k[1]] \in D!DecisionProgramConfig
    BY DEF DecisionsInv, VotesInv, TraceInv, D!TypeOK, D!Has
<1>2. k \in DOMAIN appeals => /\ k \in DOMAIN decisions /\ appeals[k] \in D!Appeal
                              /\ IsFiniteSet(DOMAIN appeals[k].votes)
    BY DEF DecisionsInv, VotesInv, D!TypeOK
<1>3. k \in DOMAIN reservations =>
                /\ k \in DOMAIN decisions /\ reservations[k] \in D!Reservation
                /\ reservations[k].amount = configs[k[1]].per_award_amount
    BY DEF DecisionsInv, VotesInv, SpendingInv, D!TypeOK
<1>4. QED
    BY <1>1, <1>2, <1>3 DEF D!Decision, D!Appeal

\* What a ballot holds.
LEMMA BallotTypes == ASSUME NEW b \in Ballots PROVE b[1] \in Chairs \cup Panel /\ b[2] \in D!VoteChoice
BY SelectionConstants DEF Ballots, D!VoteChoice

\* vote and recuse
LEMMA DecisionsInvVote ==
    ASSUME DecisionsInv, UNCHANGED now, NEW k, NEW m \in Chairs \cup Panel, NEW choice \in D!VoteChoice,
           D!Vote(m, k, choice)
    PROVE  DecisionsInv' /\ D!FinalStep
<1> DEFINE d == decisions[k]
           v == D!Set(d.votes, m, choice)
           e == [d EXCEPT !.votes = v]
<1>1. /\ k \in DOMAIN decisions /\ d.status = "Open"
      /\ decisions' = [decisions EXCEPT ![k] = e]
      /\ UNCHANGED <<role, active, quorum, configs, reservations, appeals>>
    BY DEF D!Vote, D!Has, D!committee
<1>2. /\ k \in D!Keys /\ k[1] \in DOMAIN configs /\ d \in D!Decision
      /\ d.votes \in D!Votes /\ IsFiniteSet(DOMAIN d.votes)
      /\ Traced(d, k, appeals, reservations)
    BY <1>1, DecisionTypes
<1>3. v \in D!Votes /\ IsFiniteSet(DOMAIN v)
    BY <1>2, AddVote
<1> HIDE DEF v
<1>4. /\ e \in D!Decision /\ e.votes = v /\ e.status = "Open" /\ e.outcome = d.outcome
    <2>1. d.status = "Open"
        BY <1>1
    <2> HIDE DEF d
    <2>2. QED BY <1>2, <1>3, <2>1 DEF D!Decision
<1> HIDE DEF e
<1>5. Traced(e, k, appeals, reservations)
    BY <1>1, <1>2, <1>4 DEF Traced
<1>6. decisions' = [x \in DOMAIN decisions \cup {k} |-> IF x = k THEN e ELSE decisions[x]]
    BY <1>1
<1>7. QED
    BY <1>1, <1>2, <1>3, <1>4, <1>5, <1>6, DecisionsInvDecision

\* file_appeal: the outcome in force is the one of the votes.
LEMMA DecisionsInvFile ==
    ASSUME DecisionsInv, UNCHANGED now, NEW a, NEW p, D!FileAppeal(a, p)
    PROVE  DecisionsInv' /\ D!FinalStep
<1> DEFINE k == <<p, a>>
           d == decisions[k]
           ap == [original_outcome |-> d.outcome, status |-> "Open",
                  outcome |-> "Pending", votes |-> D!Empty]
<1>1. /\ k \in DOMAIN decisions /\ d.status = "Finalized" /\ d.outcome \in {"Rejected", "Waitlisted"}
      /\ k \notin DOMAIN appeals
      /\ appeals' = [x \in DOMAIN appeals \cup {k} |-> IF x = k THEN ap ELSE appeals[x]]
      /\ UNCHANGED <<role, active, quorum, configs, decisions, reservations>>
    BY DEF D!FileAppeal, D!Has, D!Set, D!NeverAppealed, D!committee
<1>2. Traced(d, k, appeals, reservations)
    BY <1>1, DecisionTypes
<1>3. /\ ap \in D!Appeal /\ IsFiniteSet(DOMAIN ap.votes) /\ DOMAIN ap.votes = {}
      /\ ap.status = "Open" /\ ap.original_outcome = d.outcome
    <2> DEFINE e == D!Empty
    <2>1. e \in D!Votes /\ IsFiniteSet(DOMAIN e) /\ DOMAIN e = {}
        BY NoVote
    <2> HIDE DEF e
    <2>2. QED BY <1>1, <2>1 DEF D!Appeal, D!DecisionOutcome, e
<1> HIDE DEF ap
<1>4. appeals'[k] = ap /\ k \in DOMAIN appeals'
    BY <1>1
<1> HIDE DEF k, d
<1>5. Traced(d, k, appeals', reservations)
    BY <1>1, <1>2, <1>3, <1>4 DEF Traced
<1>6. QED
    BY <1>1, <1>3, <1>5, DecisionsInvAppeal DEF d

\* vote_appeal: by members who took no part in the decision.
LEMMA DecisionsInvVoteAppeal ==
    ASSUME DecisionsInv, UNCHANGED now, NEW k, NEW m \in Chairs \cup Panel, NEW choice \in D!VoteChoice,
           D!VoteAppeal(m, k, choice)
    PROVE  DecisionsInv' /\ D!FinalStep
<1> DEFINE ap == appeals[k]
           v == D!Set(ap.votes, m, choice)
           e == [ap EXCEPT !.votes = v]
<1>1. /\ k \in DOMAIN appeals /\ ap.status = "Open" /\ m \notin DOMAIN decisions[k].votes
      /\ appeals' = [appeals EXCEPT ![k] = e]
      /\ UNCHANGED <<role, active, quorum, configs, decisions, reservations>>
    BY DEF D!VoteAppeal, D!AppealOpen, D!HasVoted, D!Has, D!committee
<1>2. /\ k \in DOMAIN decisions /\ ap \in D!Appeal
      /\ ap.votes \in D!Votes /\ IsFiniteSet(DOMAIN ap.votes)
      /\ Traced(decisions[k], k, appeals, reservations)
    BY <1>1, DecisionTypes
<1>3. v \in D!Votes /\ IsFiniteSet(DOMAIN v) /\ DOMAIN v = DOMAIN ap.votes \cup {m}
    BY <1>2, AddVote
<1> HIDE DEF v
<1>4. /\ e \in D!Appeal /\ e.votes = v /\ e.status = "Open" /\ e.original_outcome = ap.original_outcome
    <2>1. ap.status = "Open"
        BY <1>1
    <2> HIDE DEF ap
    <2>2. QED BY <1>2, <1>3, <2>1 DEF D!Appeal
<1> HIDE DEF e
<1>5. /\ appeals' = [x \in DOMAIN appeals \cup {k} |-> IF x = k THEN e ELSE appeals[x]]
      /\ appeals'[k] = e /\ DOMAIN appeals' = DOMAIN appeals
    BY <1>1
<1>6. Traced(decisions[k], k, appeals', reservations)
    BY <1>1, <1>2, <1>3, <1>4, <1>5 DEF Traced
<1>7. QED
    BY <1>1, <1>2, <1>3, <1>4, <1>5, <1>6, DecisionsInvAppeal

-----------------------------------------------------------------------------
(* scholarship-decisions: reservations *)

\* The reservations of every program after one of them is written.
LEMMA HeldAfter ==
    ASSUME NEW k, NEW r,
           reservations' = [x \in DOMAIN reservations \cup {k} |-> IF x = k THEN r ELSE reservations[x]]
    PROVE  \A p, st : HeldIn(p, st)' =
               IF k[1] # p THEN HeldIn(p, st)
               ELSE IF r.status = st THEN HeldIn(p, st) \cup {k} ELSE HeldIn(p, st) \ {k}
<1> SUFFICES ASSUME NEW p, NEW st
             PROVE  HeldIn(p, st)' = IF k[1] # p THEN HeldIn(p, st)
                        ELSE IF r.status = st THEN HeldIn(p, st) \cup {k} ELSE HeldIn(p, st) \ {k}
    OBVIOUS
<1>1. DOMAIN reservations' = DOMAIN reservations \cup {k} /\ reservations'[k] = r
    OBVIOUS
<1>2. \A x \in DOMAIN reservations : x # k => reservations'[x] = reservations[x]
    OBVIOUS
<1>3. HeldIn(p, st)' = {x \in DOMAIN reservations' : x[1] = p /\ reservations'[x].status = st}
    BY DEF HeldIn
<1>4. QED
    BY ONLY <1>1, <1>2, <1>3 DEF HeldIn

\* There are finitely many reservations.
LEMMA HeldFinite ==
    ASSUME DecisionsInv, NEW p, NEW st
    PROVE  IsFiniteSet(HeldIn(p, st)) /\ Cardinality(HeldIn(p, st)) \in Nat
<1>1. HeldIn(p, st) \subseteq DOMAIN reservations /\ IsFiniteSet(DOMAIN reservations)
    BY DEF HeldIn, DecisionsInv, SpendingInv
<1>2. IsFiniteSet(HeldIn(p, st))
    BY <1>1, FS_Subset
<1>3. QED
    BY <1>2, FS_CardinalityType

\* The effect of one reservation more or less on the counters of a configuration.
LEMMA SpentArithmetic ==
    ASSUME NEW f \in D!DecisionProgramConfig, NEW r \in Nat, NEW c \in Nat, Spent(f, r, c),
           NEW g \in D!DecisionProgramConfig,
           g.per_award_amount = f.per_award_amount, g.total_budget = f.total_budget
    PROVE  /\ /\ g.reserved_amount = f.reserved_amount + f.per_award_amount
              /\ g.awarded_amount = f.awarded_amount
              /\ D!BudgetCovers(f, f.per_award_amount)
              => Spent(g, r + 1, c)
           /\ /\ g.reserved_amount = f.reserved_amount - f.per_award_amount
              /\ g.awarded_amount = f.awarded_amount
              => Spent(g, r - 1, c)
           /\ /\ g.reserved_amount = f.reserved_amount - f.per_award_amount
              /\ g.awarded_amount = f.awarded_amount + f.per_award_amount
              => Spent(g, r - 1, c + 1)
<1> DEFINE a == f.per_award_amount
           u == f.reserved_amount
           w == f.awarded_amount
           t == f.total_budget
<1>1. /\ a \in Nat /\ t \in Nat /\ u \in Int /\ w \in Int
      /\ u = a * r /\ w = a * c /\ u + w <= t
      /\ D!BudgetCovers(f, a) => u + w + a <= t
    BY DEF D!DecisionProgramConfig, Spent, D!BudgetCovers
<1> HIDE DEF a, u, w, t
<1>2. a * (r + 1) = u + a /\ a * (r - 1) = u - a /\ a * (c + 1) = w + a
    BY <1>1
<1>3. QED
    BY <1>1, <1>2 DEF Spent, a, u, w, t

\* One write of a reservation together with its program's configuration.
LEMMA SpendingWrite ==
    ASSUME DecisionsInv, NEW k \in DOMAIN decisions, NEW r \in D!Reservation, NEW g \in D!DecisionProgramConfig,
           reservations' = [x \in DOMAIN reservations \cup {k} |-> IF x = k THEN r ELSE reservations[x]],
           configs' = [configs EXCEPT ![k[1]] = g],
           r.amount = configs[k[1]].per_award_amount, g.per_award_amount = configs[k[1]].per_award_amount,
           Spent(g, Cardinality(HeldIn(k[1], "Reserved")'), Cardinality(HeldIn(k[1], "Claimed")'))
    PROVE  /\ SpendingInv'
           /\ DOMAIN configs' = DOMAIN configs
           /\ \A p \in DOMAIN configs : configs'[p] \in D!DecisionProgramConfig
           /\ \A x \in DOMAIN reservations' : reservations'[x] \in D!Reservation
<1>1. \A x \in DOMAIN reservations \cup {k} : x[1] \in DOMAIN configs
    BY DecisionTypes
<1>2. \A x \in DOMAIN reservations : /\ reservations[x] \in D!Reservation
                                     /\ reservations[x].amount = configs[x[1]].per_award_amount
    BY DecisionTypes
<1>3. \A p \in DOMAIN configs : configs[p] \in D!DecisionProgramConfig
    BY DEF DecisionsInv, VotesInv, D!TypeOK
<1>4. /\ DOMAIN configs' = DOMAIN configs /\ configs'[k[1]] = g
      /\ \A p \in DOMAIN configs : p # k[1] => configs'[p] = configs[p]
    BY <1>1
<1>5. IsFiniteSet(DOMAIN reservations')
    <2>1. DOMAIN reservations' = DOMAIN reservations \cup {k} /\ IsFiniteSet(DOMAIN reservations)
        BY DEF DecisionsInv, SpendingInv
    <2>2. QED BY <2>1, FS_AddElement
<1>6. \A p \in DOMAIN configs' :
          Spent(configs'[p], Cardinality(HeldIn(p, "Reserved")'), Cardinality(HeldIn(p, "Claimed")'))
    <2> SUFFICES ASSUME NEW p \in DOMAIN configs
                 PROVE  Spent(configs'[p], Cardinality(HeldIn(p, "Reserved")'), Cardinality(HeldIn(p, "Claimed")'))
        BY <1>4
    <2>1. CASE p = k[1]
        BY <1>4, <2>1
    <2>2. CASE p # k[1]
        <3>1. HeldIn(p, "Reserved")' = HeldIn(p, "Reserved") /\ HeldIn(p, "Claimed")' = HeldIn(p, "Claimed")
            BY <2>2, HeldAfter
        <3>2. Spent(configs[p], Cardinality(HeldIn(p, "Reserved")), Cardinality(HeldIn(p, "Claimed")))
            BY DEF DecisionsInv, SpendingInv
        <3>3. QED BY <1>4, <2>2, <3>1, <3>2
    <2>3. QED BY <2>1, <2>2
<1>7. \A x \in DOMAIN reservations' : /\ reservations'[x] \in D!Reservation
                                      /\ reservations'[x].amount = configs'[x[1]].per_award_amount
    BY <1>1, <1>2, <1>4
<1>8. QED
    BY <1>3, <1>4, <1>5, <1>6, <1>7 DEF SpendingInv

\* The first three parts of the invariant from what a call leaves in the stores.
LEMMA DecisionsInvBuild ==
    ASSUME DecisionsInv, UNCHANGED <<now, role, active, quorum>>, SpendingInv',
           DOMAIN configs' = DOMAIN configs, DOMAIN decisions' = DOMAIN decisions,
           DOMAIN appeals' = DOMAIN appeals, DOMAIN reservations' \subseteq DOMAIN decisions,
           \A p \in DOMAIN configs : configs'[p] \in D!DecisionProgramConfig,
           \A k \in DOMAIN reservations' : reservations'[k] \in D!Reservation,
           \A k \in DOMAIN decisions : /\ decisions'[k] \in D!Decision
                                       /\ IsFiniteSet(DOMAIN decisions'[k].votes)
                                       /\ Traced(decisions'[k], k, appeals', reservations'),
           \A k \in DOMAIN appeals : appeals'[k] \in D!Appeal /\ IsFiniteSet(DOMAIN appeals'[k].votes)
    PROVE  DecisionsInv'
<1>1. D!TypeOK'
    <2>1. /\ DOMAIN configs \subseteq Programs /\ DOMAIN decisions \subseteq D!Keys
          /\ DOMAIN appeals \subseteq DOMAIN decisions
          /\ \A k \in DOMAIN decisions : k[1] \in DOMAIN configs
          /\ now \in Nat /\ DOMAIN role \subseteq Chairs \cup Panel
          /\ \A m \in DOMAIN role : role[m] \in D!CommitteeRole
          /\ active \subseteq DOMAIN role /\ quorum \in 0..MAX_MEMBERS
        BY DEF DecisionsInv, VotesInv, D!TypeOK, D!Has
    <2>2. QED BY <2>1 DEF D!TypeOK, D!Has
<1>2. VotesInv'
    BY <1>1 DEF VotesInv
<1>3. TraceInv'
    BY DEF TraceInv
<1>4. QED
    BY <1>2, <1>3 DEF DecisionsInv

\* A held reservation is settled: it leaves the reserved amount, and joins the
\* awarded one when it is claimed.
LEMMA DecisionsInvSettle ==
    ASSUME DecisionsInv, UNCHANGED <<now, role, active, quorum, decisions, appeals>>,
           NEW k \in DOMAIN reservations, reservations[k].status = "Reserved",
           NEW st \in {"Claimed", "Released", "Expired"}, NEW g \in D!DecisionProgramConfig,
           st = "Claimed" => now <= reservations[k].expires_at,
           st = "Expired" => now > reservations[k].expires_at,
           reservations' = [reservations EXCEPT ![k].status = st],
           configs' = [configs EXCEPT ![k[1]] = g],
           g.per_award_amount = configs[k[1]].per_award_amount,
           g.total_budget = configs[k[1]].total_budget,
           g.reserved_amount = configs[k[1]].reserved_amount - configs[k[1]].per_award_amount,
           g.awarded_amount = configs[k[1]].awarded_amount
                                + (IF st = "Claimed" THEN configs[k[1]].per_award_amount ELSE 0)
    PROVE  DecisionsInv' /\ D!FinalStep
<1> DEFINE p == k[1]
           f == configs[p]
           H == HeldIn(p, "Reserved")
           C == HeldIn(p, "Claimed")
           q == reservations[k]
           r == [q EXCEPT !.status = st]
<1>1. /\ k \in DOMAIN decisions /\ p \in DOMAIN configs /\ f \in D!DecisionProgramConfig
      /\ q \in D!Reservation /\ q.amount = f.per_award_amount
    BY DecisionTypes
<1>2. /\ reservations' = [x \in DOMAIN reservations \cup {k} |-> IF x = k THEN r ELSE reservations[x]]
      /\ DOMAIN reservations' = DOMAIN reservations /\ reservations'[k] = r
      /\ \A x \in DOMAIN reservations : x # k => reservations'[x] = reservations[x]
    OBVIOUS
<1>3. r \in D!Reservation /\ r.amount = q.amount /\ r.status = st
    <2> HIDE DEF q
    <2>1. QED BY <1>1 DEF D!Reservation
<1> HIDE DEF r
<1>4. /\ HeldIn(p, "Reserved")' = H \ {k}
      /\ HeldIn(p, "Claimed")' = IF st = "Claimed" THEN C \cup {k} ELSE C \ {k}
    <2>1. \A x, s : HeldIn(x, s)' =
              IF k[1] # x THEN HeldIn(x, s)
              ELSE IF r.status = s THEN HeldIn(x, s) \cup {k} ELSE HeldIn(x, s) \ {k}
        BY ONLY <1>2, HeldAfter
    <2>2. HeldIn(p, "Reserved")' = IF r.status = "Reserved" THEN H \cup {k} ELSE H \ {k}
        BY ONLY <2>1
    <2>3. HeldIn(p, "Claimed")' = IF r.status = "Claimed" THEN C \cup {k} ELSE C \ {k}
        BY ONLY <2>1
    <2>4. st # "Reserved"
        OBVIOUS
    <2>5. QED BY ONLY <1>3, <2>2, <2>3, <2>4
<1>5. k \in H /\ k \notin C
    BY DEF HeldIn
<1>6. /\ IsFiniteSet(H) /\ Cardinality(H) \in Nat /\ IsFiniteSet(C) /\ Cardinality(C) \in Nat
    BY HeldFinite
<1>7. Spent(f, Cardinality(H), Cardinality(C))
    BY <1>1 DEF DecisionsInv, SpendingInv
<1> HIDE DEF H, C
<1>8. /\ Cardinality(HeldIn(p, "Reserved")') = Cardinality(H) - 1
      /\ Cardinality(HeldIn(p, "Claimed")') = Cardinality(C) + (IF st = "Claimed" THEN 1 ELSE 0)
    <2>1. Cardinality(H \ {k}) = Cardinality(H) - 1
        BY <1>5, <1>6, FS_RemoveElement
    <2>2. Cardinality(C \cup {k}) = Cardinality(C) + 1
        BY <1>5, <1>6, FS_AddElement
    <2>3. C \ {k} = C
        BY <1>5
    <2>4. Cardinality(C) \in Nat
        BY <1>6
    <2>5. Cardinality(HeldIn(p, "Reserved")') = Cardinality(H) - 1
        BY ONLY <1>4, <2>1
    <2>6. CASE st = "Claimed"
        <3>1. HeldIn(p, "Claimed")' = C \cup {k}
            BY ONLY <1>4, <2>6
        <3>2. Cardinality(HeldIn(p, "Claimed")') = Cardinality(C) + 1
            BY ONLY <2>2, <3>1
        <3>3. QED BY <2>5, <2>6, <3>2
    <2>7. CASE st # "Claimed"
        <3>1. HeldIn(p, "Claimed")' = C
            BY ONLY <1>4, <2>3, <2>7
        <3>2. Cardinality(HeldIn(p, "Claimed")') = Cardinality(C) + 0
            BY ONLY <2>4, <3>1
        <3>3. QED BY <2>5, <2>7, <3>2
    <2>8. QED BY <2>6, <2>7
<1>9. Spent(g, Cardinality(HeldIn(p, "Reserved")'), Cardinality(HeldIn(p, "Claimed")'))
    <2>0. f.awarded_amount \in Int
        BY <1>1 DEF D!DecisionProgramConfig
    <2>1. CASE st = "Claimed"
        <3>1. Spent(g, Cardinality(H) - 1, Cardinality(C) + 1)
            BY <1>1, <1>6, <1>7, <2>1, SpentArithmetic
        <3>2. QED BY <1>8, <2>1, <3>1
    <2>2. CASE st # "Claimed"
        <3>1. Spent(g, Cardinality(H) - 1, Cardinality(C))
            BY <1>1, <1>6, <1>7, <2>0, <2>2, SpentArithmetic
        <3>2. QED BY <1>6, <1>8, <2>2, <3>1
    <2>3. QED BY <2>1, <2>2
<1>10. /\ SpendingInv'
       /\ DOMAIN configs' = DOMAIN configs
       /\ \A x \in DOMAIN configs : configs'[x] \in D!DecisionProgramConfig
       /\ \A x \in DOMAIN reservations' : reservations'[x] \in D!Reservation
    <2>1. r.amount = f.per_award_amount
        BY <1>1, <1>3
    <2>2. QED BY <1>1, <1>2, <1>3, <1>9, <2>1, SpendingWrite, Zenon
<1>11. \A x \in DOMAIN decisions : /\ decisions[x] \in D!Decision
                                   /\ IsFiniteSet(DOMAIN decisions[x].votes)
                                   /\ Traced(decisions[x], x, appeals, reservations)
    BY DecisionTypes
<1>12. \A x \in DOMAIN decisions : Traced(decisions[x], x, appeals, reservations')
    <2> SUFFICES ASSUME NEW x \in DOMAIN decisions PROVE Traced(decisions[x], x, appeals, reservations')
        OBVIOUS
    <2>1. x \in DOMAIN reservations' <=> x \in DOMAIN reservations
        BY <1>2
    <2>2. Traced(decisions[x], x, appeals, reservations)
        BY <1>11
    <2>3. QED BY ONLY <2>1, <2>2 DEF Traced
<1>13. \A x \in DOMAIN appeals : appeals[x] \in D!Appeal /\ IsFiniteSet(DOMAIN appeals[x].votes)
    BY DecisionTypes
<1>14. DOMAIN reservations \subseteq DOMAIN decisions
    BY DEF DecisionsInv, VotesInv, D!TypeOK
<1>15. DecisionsInv'
    BY <1>2, <1>10, <1>11, <1>12, <1>13, <1>14, DecisionsInvBuild
<1>16. D!FinalStep
    BY <1>2, <1>3 DEF D!FinalStep
<1>17. QED
    BY <1>15, <1>16

\* accept_award
LEMMA DecisionsInvAccept ==
    ASSUME DecisionsInv, UNCHANGED now, NEW a, NEW p, D!AcceptAward(a, p)
    PROVE  DecisionsInv' /\ D!FinalStep
<1> DEFINE k == <<p, a>>
           c == configs[p]
           n == reservations[k].amount
           g0 == [c EXCEPT !.reserved_amount = @ - n]
           g == [g0 EXCEPT !.awarded_amount = @ + n]
<1>1. /\ k \in DOMAIN reservations /\ reservations[k].status = "Reserved"
      /\ now <= reservations[k].expires_at /\ k[1] = p
      /\ reservations' = [reservations EXCEPT ![k].status = "Claimed"]
      /\ configs' = [configs EXCEPT ![p] = [c EXCEPT !.reserved_amount = @ - n, !.awarded_amount = @ + n]]
      /\ UNCHANGED <<role, active, quorum, decisions, appeals>>
    BY DEF D!AcceptAward, D!IsHeld, D!Has, D!committee
<1>2. c \in D!DecisionProgramConfig /\ n = c.per_award_amount
    BY <1>1, DecisionTypes
<1>3. [c EXCEPT !.reserved_amount = @ - n, !.awarded_amount = @ + n] = g
    OBVIOUS
<1> HIDE DEF c, n, k
<1>4. /\ g0 \in D!DecisionProgramConfig /\ g0.per_award_amount = n /\ g0.total_budget = c.total_budget
      /\ g0.reserved_amount = c.reserved_amount - n /\ g0.awarded_amount = c.awarded_amount
    BY <1>2 DEF D!DecisionProgramConfig
<1> HIDE DEF g0
<1>5. /\ g \in D!DecisionProgramConfig /\ g.per_award_amount = n /\ g.total_budget = c.total_budget
      /\ g.reserved_amount = c.reserved_amount - n /\ g.awarded_amount = c.awarded_amount + n
    BY <1>2, <1>4 DEF D!DecisionProgramConfig
<1>6. configs' = [configs EXCEPT ![p] = g]
    BY <1>1, <1>3
<1> HIDE DEF g
<1>7. QED
    <2>1. g.awarded_amount = c.awarded_amount + (IF "Claimed" = "Claimed" THEN c.per_award_amount ELSE 0)
        BY <1>2, <1>5
    <2>2. c = configs[k[1]] /\ configs' = [configs EXCEPT ![k[1]] = g]
        BY <1>1, <1>6 DEF c
    <2>3. g.per_award_amount = c.per_award_amount /\ g.reserved_amount = c.reserved_amount - c.per_award_amount
        BY <1>2, <1>5
    <2>4. QED BY <1>1, <1>5, <2>1, <2>2, <2>3, DecisionsInvSettle

\* release_reservation and expire_reservation
LEMMA DecisionsInvRelease ==
    ASSUME DecisionsInv, UNCHANGED now, NEW k, D!IsHeld(k), NEW st \in {"Released", "Expired"},
           st = "Expired" => now > reservations[k].expires_at, D!ReleaseCapacity(k, st)
    PROVE  DecisionsInv' /\ D!FinalStep
<1> DEFINE p == k[1]
           c == configs[p]
           n == reservations[k].amount
           g == [c EXCEPT !.reserved_amount = @ - n]
<1>1. /\ k \in DOMAIN reservations /\ reservations[k].status = "Reserved"
      /\ reservations' = [reservations EXCEPT ![k].status = st]
      /\ configs' = [configs EXCEPT ![p] = g]
      /\ UNCHANGED <<role, active, quorum, decisions, appeals>>
    BY DEF D!ReleaseCapacity, D!IsHeld, D!Has, D!committee
<1>2. c \in D!DecisionProgramConfig /\ n = c.per_award_amount
    BY <1>1, DecisionTypes
<1>3. /\ g \in D!DecisionProgramConfig /\ g.per_award_amount = n /\ g.total_budget = c.total_budget
      /\ g.reserved_amount = c.reserved_amount - n /\ g.awarded_amount = c.awarded_amount + 0
    <2> HIDE DEF c, n
    <2>1. QED BY <1>2 DEF D!DecisionProgramConfig
<1> HIDE DEF g
<1>4. QED
    BY <1>1, <1>2, <1>3, DecisionsInvSettle

\* reserve_budget, for an application that has no reservation yet.
LEMMA ReserveSpends ==
    ASSUME DecisionsInv, NEW k \in DOMAIN decisions, k \notin DOMAIN reservations, D!ReserveBudget(k)
    PROVE  /\ SpendingInv'
           /\ DOMAIN configs' = DOMAIN configs
           /\ \A p \in DOMAIN configs : configs'[p] \in D!DecisionProgramConfig
           /\ \A x \in DOMAIN reservations' : reservations'[x] \in D!Reservation
           /\ DOMAIN reservations' = DOMAIN reservations \cup {k}
           /\ \A x \in DOMAIN reservations : reservations'[x] = reservations[x]
<1> DEFINE p == k[1]
           f == configs[p]
           g == [f EXCEPT !.reserved_amount = @ + f.per_award_amount]
           r == [amount |-> f.per_award_amount, expires_at |-> now + f.reservation_ttl, status |-> "Reserved"]
           H == HeldIn(p, "Reserved")
           C == HeldIn(p, "Claimed")
<1>1. p \in DOMAIN configs /\ f \in D!DecisionProgramConfig /\ now \in Nat
    BY DecisionTypes DEF DecisionsInv, VotesInv, D!TypeOK
<1>2. /\ D!BudgetCovers(f, f.per_award_amount)
      /\ configs' = [configs EXCEPT ![p] = g]
      /\ reservations' = [x \in DOMAIN reservations \cup {k} |-> IF x = k THEN r ELSE reservations[x]]
    BY DEF D!ReserveBudget, D!Set
<1>3. /\ g \in D!DecisionProgramConfig /\ g.per_award_amount = f.per_award_amount
      /\ g.total_budget = f.total_budget /\ g.awarded_amount = f.awarded_amount
      /\ g.reserved_amount = f.reserved_amount + f.per_award_amount
    <2> HIDE DEF f
    <2>1. QED BY <1>1 DEF D!DecisionProgramConfig
<1>4. r \in D!Reservation /\ r.amount = f.per_award_amount /\ r.status = "Reserved"
    <2> HIDE DEF f
    <2>1. QED BY <1>1 DEF D!Reservation, D!DecisionProgramConfig
<1> HIDE DEF g, r
<1>5. HeldIn(p, "Reserved")' = H \cup {k} /\ HeldIn(p, "Claimed")' = C \ {k}
    <2>1. \A x, s : HeldIn(x, s)' =
              IF k[1] # x THEN HeldIn(x, s)
              ELSE IF r.status = s THEN HeldIn(x, s) \cup {k} ELSE HeldIn(x, s) \ {k}
        BY ONLY <1>2, HeldAfter
    <2>2. HeldIn(p, "Reserved")' = IF r.status = "Reserved" THEN H \cup {k} ELSE H \ {k}
        BY ONLY <2>1
    <2>3. HeldIn(p, "Claimed")' = IF r.status = "Claimed" THEN C \cup {k} ELSE C \ {k}
        BY ONLY <2>1
    <2>4. QED BY ONLY <1>4, <2>2, <2>3
<1>6. k \notin H /\ k \notin C
    BY DEF HeldIn
<1>7. IsFiniteSet(H) /\ Cardinality(H) \in Nat /\ IsFiniteSet(C) /\ Cardinality(C) \in Nat
    BY HeldFinite
<1>8. Spent(f, Cardinality(H), Cardinality(C))
    BY <1>1 DEF DecisionsInv, SpendingInv
<1> HIDE DEF H, C
<1>9. Cardinality(HeldIn(p, "Reserved")') = Cardinality(H) + 1 /\ HeldIn(p, "Claimed")' = C
    <2>1. Cardinality(H \cup {k}) = Cardinality(H) + 1
        BY <1>6, <1>7, FS_AddElement
    <2>2. C \ {k} = C
        BY <1>6
    <2>3. QED BY ONLY <1>5, <2>1, <2>2
<1>10. Spent(g, Cardinality(HeldIn(p, "Reserved")'), Cardinality(HeldIn(p, "Claimed")'))
    <2>1. Spent(g, Cardinality(H) + 1, Cardinality(C))
        BY <1>1, <1>2, <1>3, <1>7, <1>8, SpentArithmetic
    <2>2. QED BY ONLY <1>9, <2>1
<1>11. /\ SpendingInv'
       /\ DOMAIN configs' = DOMAIN configs
       /\ \A x \in DOMAIN configs : configs'[x] \in D!DecisionProgramConfig
       /\ \A x \in DOMAIN reservations' : reservations'[x] \in D!Reservation
    BY <1>2, <1>3, <1>4, <1>10, SpendingWrite, Zenon
<1>12. QED
    BY <1>2, <1>11

\* Writing an outcome, with the budget behind it if it is an award.
LEMMA DecisionsInvOutcome ==
    ASSUME DecisionsInv, UNCHANGED <<now, role, active, quorum>>,
           NEW k \in DOMAIN decisions, k \notin DOMAIN reservations,
           NEW d \in D!Decision, IsFiniteSet(DOMAIN d.votes),
           decisions' = [decisions EXCEPT ![k] = d],
           IF d.outcome = "Awarded" THEN D!ReserveBudget(k) ELSE UNCHANGED <<configs, reservations>>,
           DOMAIN appeals' = DOMAIN appeals,
           \A x \in DOMAIN appeals : x # k => appeals'[x] = appeals[x],
           k \in DOMAIN appeals => appeals'[k] \in D!Appeal /\ IsFiniteSet(DOMAIN appeals'[k].votes),
           \A res : (k \in DOMAIN res <=> d.outcome = "Awarded") => Traced(d, k, appeals', res)
    PROVE  DecisionsInv' /\ \A x \in DOMAIN reservations : reservations'[x] = reservations[x]
<1>1. /\ SpendingInv'
      /\ DOMAIN configs' = DOMAIN configs
      /\ \A p \in DOMAIN configs : configs'[p] \in D!DecisionProgramConfig
      /\ \A x \in DOMAIN reservations' : reservations'[x] \in D!Reservation
      /\ DOMAIN reservations' = IF d.outcome = "Awarded" THEN DOMAIN reservations \cup {k} ELSE DOMAIN reservations
      /\ \A x \in DOMAIN reservations : reservations'[x] = reservations[x]
    <2>1. CASE d.outcome = "Awarded"
        BY <2>1, ReserveSpends
    <2>2. CASE d.outcome # "Awarded"
        <3>1. UNCHANGED <<configs, reservations>>
            BY <2>2
        <3>2. \A p, st : HeldIn(p, st)' = HeldIn(p, st)
            BY <3>1 DEF HeldIn
        <3>3. SpendingInv'
            BY <3>1, <3>2 DEF DecisionsInv, SpendingInv
        <3>4. QED BY <2>2, <3>1, <3>3 DEF DecisionsInv, VotesInv, D!TypeOK
    <2>3. QED BY <2>1, <2>2
<1>2. /\ DOMAIN decisions' = DOMAIN decisions /\ decisions'[k] = d
      /\ \A x \in DOMAIN decisions : x # k => decisions'[x] = decisions[x]
    OBVIOUS
<1>3. \A x \in DOMAIN decisions : /\ decisions'[x] \in D!Decision
                                  /\ IsFiniteSet(DOMAIN decisions'[x].votes)
                                  /\ Traced(decisions'[x], x, appeals', reservations')
    <2> SUFFICES ASSUME NEW x \in DOMAIN decisions
                 PROVE  /\ decisions'[x] \in D!Decision
                        /\ IsFiniteSet(DOMAIN decisions'[x].votes)
                        /\ Traced(decisions'[x], x, appeals', reservations')
        OBVIOUS
    <2>1. CASE x = k
        <3>1. k \in DOMAIN reservations' <=> d.outcome = "Awarded"
            BY <1>1
        <3>2. Traced(d, k, appeals', reservations')
            BY <3>1
        <3>3. QED BY <1>2, <2>1, <3>2
    <2>2. CASE x # k
        <3>1. /\ decisions[x] \in D!Decision /\ IsFiniteSet(DOMAIN decisions[x].votes)
              /\ Traced(decisions[x], x, appeals, reservations)
            BY DecisionTypes
        <3>2. /\ x \in DOMAIN appeals' <=> x \in DOMAIN appeals
              /\ x \in DOMAIN appeals => appeals'[x] = appeals[x]
              /\ x \in DOMAIN reservations' <=> x \in DOMAIN reservations
            BY <1>1, <2>2
        <3>3. Traced(decisions[x], x, appeals', reservations')
            BY ONLY <3>1, <3>2 DEF Traced
        <3>4. QED BY <1>2, <2>2, <3>1, <3>3
    <2>3. QED BY <2>1, <2>2
<1>4. \A x \in DOMAIN appeals : appeals'[x] \in D!Appeal /\ IsFiniteSet(DOMAIN appeals'[x].votes)
    BY DecisionTypes
<1>5. DOMAIN reservations' \subseteq DOMAIN decisions
    BY <1>1 DEF DecisionsInv, VotesInv, D!TypeOK
<1>6. DecisionsInv'
    BY <1>1, <1>2, <1>3, <1>4, <1>5, DecisionsInvBuild
<1>7. QED
    BY <1>1, <1>6

\* finalize_decision: an open decision has neither an appeal nor a reservation.
LEMMA DecisionsInvFinalize ==
    ASSUME DecisionsInv, UNCHANGED now, NEW caller, NEW k, D!FinalizeDecision(caller, k)
    PROVE  DecisionsInv' /\ D!FinalStep
<1> DEFINE d == decisions[k]
           o == D!Outcome(d.votes)
           d1 == [d EXCEPT !.outcome = o]
           d2 == [d1 EXCEPT !.status = "Finalized"]
           d3 == [d2 EXCEPT !.finalized_at = now]
           d4 == [d3 EXCEPT !.outcome_version = 1]
<1>1. /\ k \in DOMAIN decisions /\ d.status = "Open"
      /\ IF o = "Awarded" THEN D!ReserveBudget(k) ELSE UNCHANGED <<configs, reservations>>
      /\ UNCHANGED <<role, active, quorum, appeals>>
    BY DEF D!FinalizeDecision, D!Has, D!committee
<1>2. decisions' = [decisions EXCEPT ![k].outcome = o, ![k].status = "Finalized",
                                     ![k].finalized_at = now, ![k].outcome_version = 1]
    BY DEF D!FinalizeDecision
<1>3. /\ d \in D!Decision /\ IsFiniteSet(DOMAIN d.votes) /\ Traced(d, k, appeals, reservations)
      /\ now \in Nat
    BY <1>1, DecisionTypes DEF DecisionsInv, VotesInv, D!TypeOK
<1>4. D!Wins(d.votes, o) /\ o \in {"Awarded", "Waitlisted", "Rejected"} /\ o \in D!DecisionOutcome
    BY <1>3, OutcomeWins DEF D!DecisionOutcome
<1> HIDE DEF o
<1>5. decisions' = [decisions EXCEPT ![k] = d4]
    BY <1>1, <1>2
<1>6. /\ d4 \in D!Decision /\ d4.outcome = o /\ d4.status = "Finalized" /\ d4.outcome_version = 1
      /\ d4.votes = d.votes
    <2> HIDE DEF d
    <2>1. d1 \in D!Decision /\ d1.outcome = o /\ d1.votes = d.votes
        BY <1>3, <1>4 DEF D!Decision
    <2> HIDE DEF d1
    <2>2. d2 \in D!Decision /\ d2.outcome = o /\ d2.votes = d.votes /\ d2.status = "Finalized"
        BY <2>1 DEF D!Decision
    <2> HIDE DEF d2
    <2>3. d3 \in D!Decision /\ d3.outcome = o /\ d3.votes = d.votes /\ d3.status = "Finalized"
        BY <1>3, <2>2 DEF D!Decision
    <2> HIDE DEF d3
    <2>4. QED BY <2>3 DEF D!Decision
<1> HIDE DEF d1, d2, d3, d4
<1>7. k \notin DOMAIN appeals /\ k \notin DOMAIN reservations
    BY <1>1, <1>3 DEF Traced
<1> HIDE DEF d
<1>8. \A res : (k \in DOMAIN res <=> d4.outcome = "Awarded") => Traced(d4, k, appeals', res)
    BY <1>1, <1>4, <1>6, <1>7 DEF Traced
<1>9. DecisionsInv' /\ \A x \in DOMAIN reservations : reservations'[x] = reservations[x]
    BY <1>1, <1>3, <1>5, <1>6, <1>7, <1>8, DecisionsInvOutcome
<1>10. D!FinalStep
    BY <1>1, <1>5, <1>9 DEF D!FinalStep, d
<1>11. QED
    BY <1>9, <1>10

\* finalize_appeal: the outcome appealed against was no award, so nothing is reserved.
LEMMA DecisionsInvFinalizeAppeal ==
    ASSUME DecisionsInv, UNCHANGED now, NEW caller, NEW k, D!FinalizeAppeal(caller, k)
    PROVE  DecisionsInv' /\ D!FinalStep
<1> DEFINE d == decisions[k]
           ap == appeals[k]
           o == D!Outcome(ap.votes)
           d1 == [d EXCEPT !.outcome = o]
           d2 == [d1 EXCEPT !.outcome_version = @ + 1]
           a1 == [ap EXCEPT !.status = "Resolved"]
           a2 == [a1 EXCEPT !.outcome = o]
<1>1. /\ k \in DOMAIN appeals /\ ap.status = "Open"
      /\ IF o = "Awarded" /\ k \notin DOMAIN reservations
         THEN D!ReserveBudget(k) ELSE UNCHANGED <<configs, reservations>>
      /\ UNCHANGED <<role, active, quorum>>
    BY DEF D!FinalizeAppeal, D!AppealOpen, D!Has, D!committee
<1>2. /\ decisions' = [decisions EXCEPT ![k].outcome = o, ![k].outcome_version = @ + 1]
      /\ appeals' = [appeals EXCEPT ![k].status = "Resolved", ![k].outcome = o]
    BY DEF D!FinalizeAppeal
<1>3. /\ k \in DOMAIN decisions /\ d \in D!Decision /\ IsFiniteSet(DOMAIN d.votes)
      /\ Traced(d, k, appeals, reservations)
      /\ ap \in D!Appeal /\ ap.votes \in D!Votes /\ IsFiniteSet(DOMAIN ap.votes)
    BY <1>1, DecisionTypes
<1>4. D!Wins(ap.votes, o) /\ o \in {"Awarded", "Waitlisted", "Rejected"} /\ o \in D!DecisionOutcome
    BY <1>3, OutcomeWins DEF D!DecisionOutcome
<1> HIDE DEF o
<1>5. decisions' = [decisions EXCEPT ![k] = d2]
    BY <1>2, <1>3
<1>6. appeals' = [appeals EXCEPT ![k] = a2]
    BY <1>1, <1>2
<1>7. /\ d.outcome \in {"Rejected", "Waitlisted"} /\ k \notin DOMAIN reservations
      /\ d.status = "Finalized" /\ d.outcome_version = 1
      /\ DOMAIN ap.votes \cap DOMAIN d.votes = {} /\ D!Wins(d.votes, ap.original_outcome)
    BY <1>1, <1>3 DEF Traced, D!Decision
<1>8. /\ d2 \in D!Decision /\ d2.outcome = o /\ d2.status = "Finalized" /\ d2.outcome_version = 2
      /\ d2.votes = d.votes /\ d2.finalized_at = d.finalized_at
    <2> HIDE DEF d
    <2>1. /\ d1 \in D!Decision /\ d1.outcome = o /\ d1.status = "Finalized" /\ d1.outcome_version = 1
          /\ d1.votes = d.votes /\ d1.finalized_at = d.finalized_at
        BY <1>3, <1>4, <1>7 DEF D!Decision
    <2> HIDE DEF d1
    <2>2. QED BY <2>1 DEF D!Decision
<1>9. /\ a2 \in D!Appeal /\ a2.status = "Resolved" /\ a2.votes = ap.votes
      /\ a2.original_outcome = ap.original_outcome
    <2> HIDE DEF ap
    <2>1. /\ a1 \in D!Appeal /\ a1.status = "Resolved" /\ a1.votes = ap.votes
          /\ a1.original_outcome = ap.original_outcome
        BY <1>3 DEF D!Appeal
    <2> HIDE DEF a1
    <2>2. QED BY <1>4, <2>1 DEF D!Appeal
<1> HIDE DEF d1, d2, a1, a2
<1>10. /\ DOMAIN appeals' = DOMAIN appeals /\ appeals'[k] = a2
       /\ \A x \in DOMAIN appeals : x # k => appeals'[x] = appeals[x]
    BY <1>1, <1>6
<1>11. IsFiniteSet(DOMAIN d2.votes) /\ IsFiniteSet(DOMAIN a2.votes)
    BY <1>3, <1>8, <1>9
<1>12. IF d2.outcome = "Awarded" THEN D!ReserveBudget(k) ELSE UNCHANGED <<configs, reservations>>
    BY <1>1, <1>7, <1>8
<1> HIDE DEF d, ap
<1>13. \A res : (k \in DOMAIN res <=> d2.outcome = "Awarded") => Traced(d2, k, appeals', res)
    BY <1>1, <1>4, <1>7, <1>8, <1>9, <1>10 DEF Traced
<1>14. DecisionsInv' /\ \A x \in DOMAIN reservations : reservations'[x] = reservations[x]
    BY <1>1, <1>3, <1>5, <1>7, <1>8, <1>9, <1>10, <1>11, <1>12, <1>13, DecisionsInvOutcome
<1>15. D!FinalStep
    BY <1>1, <1>3, <1>5, <1>8, <1>9, <1>10, <1>14 DEF D!FinalStep, D!AppealOpen, D!Has, d, ap
<1>16. QED
    BY <1>14, <1>15

\* Every call of scholarship-decisions.
LEMMA DecisionsInvNext ==
    ASSUME DecisionsInv, D!Next, UNCHANGED now
    PROVE  DecisionsInv' /\ D!FinalStep
<1> SUFFICES ASSUME NEW caller,
        \/ \E mr \in Appointments : D!AddMember(caller, mr[1], mr[2])
        \/ \E m \in Chairs \cup Panel : D!RemoveMember(caller, m)
        \/ \E q \in Quorums : D!SetQuorum(caller, q)
        \/ \E p \in Programs :
               \/ \E total, per_award \in Budgets, ttl, window \in Periods :
                      D!RegisterProgram(caller, p, total, per_award, ttl, window)
               \/ \E value \in BOOLEAN : D!SetProgramActive(caller, p, value)
               \/ \E a \in Candidates :
                      \/ \E v \in EvidenceVersions : D!OpenDecision(caller, p, a, v)
                      \/ \E b \in Ballots : D!Vote(b[1], <<p, a>>, b[2])
                      \/ D!FinalizeDecision(caller, <<p, a>>)
                      \/ D!AcceptAward(a, p)
                      \/ D!ReleaseReservation(caller, <<p, a>>)
                      \/ D!ExpireReservation(<<p, a>>)
                      \/ D!FileAppeal(a, p)
                      \/ \E b \in Ballots : D!VoteAppeal(b[1], <<p, a>>, b[2])
                      \/ D!FinalizeAppeal(caller, <<p, a>>)
    PROVE DecisionsInv' /\ D!FinalStep
    BY DEF D!Next
<1>1. CASE \/ \E mr \in Appointments : D!AddMember(caller, mr[1], mr[2])
           \/ \E m \in Chairs \cup Panel : D!RemoveMember(caller, m)
           \/ \E q \in Quorums : D!SetQuorum(caller, q)
    BY <1>1, DecisionsInvMembers
<1>2. ASSUME NEW p \in Programs,
             \/ \E total, per_award \in Budgets, ttl, window \in Periods :
                    D!RegisterProgram(caller, p, total, per_award, ttl, window)
             \/ \E value \in BOOLEAN : D!SetProgramActive(caller, p, value)
      PROVE  DecisionsInv' /\ D!FinalStep
    BY <1>2, DecisionsInvRegister, DecisionsInvActivate
<1>3. ASSUME NEW p \in Programs, NEW a \in Candidates,
             \/ \E v \in EvidenceVersions : D!OpenDecision(caller, p, a, v)
             \/ \E b \in Ballots : D!Vote(b[1], <<p, a>>, b[2])
             \/ D!FinalizeDecision(caller, <<p, a>>)
             \/ D!FileAppeal(a, p)
             \/ \E b \in Ballots : D!VoteAppeal(b[1], <<p, a>>, b[2])
             \/ D!FinalizeAppeal(caller, <<p, a>>)
      PROVE  DecisionsInv' /\ D!FinalStep
    BY <1>3, BallotTypes, DecisionsInvOpen, DecisionsInvVote, DecisionsInvFinalize, DecisionsInvFile,
       DecisionsInvVoteAppeal, DecisionsInvFinalizeAppeal
<1>4. ASSUME NEW p \in Programs, NEW a \in Candidates,
             \/ D!AcceptAward(a, p)
             \/ D!ReleaseReservation(caller, <<p, a>>)
             \/ D!ExpireReservation(<<p, a>>)
      PROVE  DecisionsInv' /\ D!FinalStep
    BY <1>4, DecisionsInvAccept, DecisionsInvRelease DEF D!ReleaseReservation, D!ExpireReservation
<1>5. QED
    BY <1>1, <1>2, <1>3, <1>4

\* Calls of the other contracts, and the clock.
LEMMA DecisionsInvStutter ==
    ASSUME DecisionsInv, UNCHANGED decisionVars, now' \in Nat
    PROVE  DecisionsInv' /\ D!FinalStep
<1>1. UNCHANGED <<role, active, quorum, configs, decisions, reservations, appeals>>
    BY DEF decisionVars
<1>2. D!TypeOK'
    BY <1>1 DEF DecisionsInv, VotesInv, D!TypeOK, D!Has
<1>3. QED
    BY <1>1, <1>2, DecisionsInvCommittee

-----------------------------------------------------------------------------
(* The four parts together *)

SelectionInv == BudgetsInv /\ IntakeInv /\ ReviewersInv /\ DecisionsInv

\* The contracts start with the invariant.
LEMMA SelectionInvInit == Init => SelectionInv
BY BudgetsInvInit, IntakeInvInit, ReviewersInvInit, DecisionsInvInit DEF Init, SelectionInv

\* Every call of one part keeps the invariants of all four, settles no request twice
\* and changes nothing that is settled.
LEMMA SelectionInvNext ==
    ASSUME SelectionInv, [Next]_vars
    PROVE  SelectionInv' /\ I!SettleStep /\ D!FinalStep
<1>1. BudgetsInv /\ IntakeInv /\ ReviewersInv /\ DecisionsInv
    BY DEF SelectionInv
<1>2. now \in Nat
    BY <1>1 DEF IntakeInv, I!TypeOK
<1>3. CASE focus = "budgets" /\ B!Next /\ UNCHANGED <<now, intakeVars, reviewVars, decisionVars>>
    <2>1. BudgetsInv'
        BY <1>1, <1>3, BudgetsInvNext
    <2>2. IntakeInv' /\ I!SettleStep
        BY <1>1, <1>2, <1>3, IntakeInvStutter
    <2>3. ReviewersInv'
        BY <1>1, <1>3, ReviewersInvStutter
    <2>4. DecisionsInv' /\ D!FinalStep
        BY <1>1, <1>2, <1>3, DecisionsInvStutter
    <2>5. QED BY <2>1, <2>2, <2>3, <2>4 DEF SelectionInv
<1>4. CASE focus = "intake" /\ ((I!Next /\ UNCHANGED now) \/ I!AdvanceTime)
           /\ UNCHANGED <<budgetVars, reviewVars, decisionVars>>
    <2>1. now' \in Nat
        BY <1>2, <1>4 DEF I!AdvanceTime
    <2>2. IntakeInv' /\ I!SettleStep
        <3>1. CASE I!Next /\ UNCHANGED now
            BY <1>1, <3>1, IntakeInvNext
        <3>2. CASE I!AdvanceTime
            <4>1. UNCHANGED intakeVars
                BY <3>2 DEF I!AdvanceTime, I!applicationVars, I!intake, I!privacy, intakeVars
            <4>2. QED BY <1>1, <2>1, <4>1, IntakeInvStutter
        <3>3. QED BY <1>4, <3>1, <3>2
    <2>3. BudgetsInv' /\ ReviewersInv'
        BY <1>1, <1>4, BudgetsInvStutter, ReviewersInvStutter
    <2>4. DecisionsInv' /\ D!FinalStep
        BY <1>1, <1>4, <2>1, DecisionsInvStutter
    <2>5. QED BY <2>2, <2>3, <2>4 DEF SelectionInv
<1>5. CASE focus = "reviewers" /\ R!Next /\ UNCHANGED <<now, budgetVars, intakeVars, decisionVars>>
    <2>1. ReviewersInv'
        BY <1>1, <1>5, ReviewersInvNext
    <2>2. IntakeInv' /\ I!SettleStep
        BY <1>1, <1>2, <1>5, IntakeInvStutter
    <2>3. BudgetsInv'
        BY <1>1, <1>5, BudgetsInvStutter
    <2>4. DecisionsInv' /\ D!FinalStep
        BY <1>1, <1>2, <1>5, DecisionsInvStutter
    <2>5. QED BY <2>1, <2>2, <2>3, <2>4 DEF SelectionInv
<1>6. CASE focus = "decisions" /\ ((D!Next /\ UNCHANGED now) \/ D!AdvanceTime)
           /\ UNCHANGED <<budgetVars, intakeVars, reviewVars>>
    <2>1. now' \in Nat
        BY <1>2, <1>6 DEF D!AdvanceTime
    <2>2. DecisionsInv' /\ D!FinalStep
        <3>1. CASE D!Next /\ UNCHANGED now
            BY <1>1, <3>1, DecisionsInvNext
        <3>2. CASE D!AdvanceTime
            <4>1. UNCHANGED decisionVars
                BY <3>2 DEF D!AdvanceTime, D!decisionVars, D!committee, decisionVars
            <4>2. QED BY <1>1, <2>1, <4>1, DecisionsInvStutter
        <3>3. QED BY <1>6, <3>1, <3>2
    <2>3. BudgetsInv' /\ ReviewersInv'
        BY <1>1, <1>6, BudgetsInvStutter, ReviewersInvStutter
    <2>4. IntakeInv' /\ I!SettleStep
        BY <1>1, <1>6, <2>1, IntakeInvStutter
    <2>5. QED BY <2>2, <2>3, <2>4 DEF SelectionInv
<1>7. CASE UNCHANGED vars
    <2>1. UNCHANGED <<now, budgetVars, intakeVars, reviewVars, decisionVars>>
        BY <1>7 DEF vars
    <2>2. BudgetsInv' /\ ReviewersInv'
        BY <1>1, <2>1, BudgetsInvStutter, ReviewersInvStutter
    <2>3. IntakeInv' /\ I!SettleStep
        BY <1>1, <1>2, <2>1, IntakeInvStutter
    <2>4. DecisionsInv' /\ D!FinalStep
        BY <1>1, <1>2, <2>1, DecisionsInvStutter
    <2>5. QED BY <2>2, <2>3, <2>4 DEF SelectionInv
<1>8. QED
    BY <1>3, <1>4, <1>5, <1>6, <1>7 DEF Next

\* The invariant holds of every behaviour.
LEMMA SelectionInvariant == Spec => []SelectionInv
<1>1. SelectionInv /\ [Next]_vars => SelectionInv'
    BY SelectionInvNext
<1>2. QED
    BY SelectionInvInit, <1>1, PTL DEF Spec

\* scholarship-programs, -applications and -decisions: no call stores a value outside
\* its type, an application without a consent, or a reservation without a decision.
THEOREM SelectionTypeCorrect == Spec => []TypeOK
<1>1. SelectionInv => TypeOK
    BY DEF SelectionInv, TypeOK, BudgetsInv, IntakeInv, ReviewersInv, DecisionsInv, VotesInv
<1>2. QED
    BY <1>1, SelectionInvariant, PTL

\* scholarship-programs and scholarship-decisions: for any number of programs,
\* applicants and amounts, the counters of a budget are exactly what is committed and
\* never exceed it (configure_budget, reserve_award, reserve_budget, accept_award,
\* release_reservation, expire_reservation).
THEOREM SelectionBudgets == Spec => []BudgetsExact
<1>1. SelectionInv => BudgetsExact
    <2>1. BudgetsInv => B!InventoryExact
        BY DEF BudgetsInv, Committed, B!InventoryExact
    <2>2. QED BY <2>1, DecisionsInvMeans DEF SelectionInv, BudgetsExact
<1>2. QED
    BY <1>1, SelectionInvariant, PTL

\* scholarship-applications: one pending export per applicant and program, whatever
\* is requested, completed and cancelled (request_data_export).
THEOREM SelectionExports == Spec => []OnePendingExport
<1>1. SelectionInv => OnePendingExport
    BY DEF SelectionInv, IntakeInv, PendingFound, OnePendingExport, I!OnePendingExport
<1>2. QED
    BY <1>1, SelectionInvariant, PTL

\* scholarship-applications: the load recorded for a reviewer is the number of
\* applications assigned to it over all programs, for any pools and seeds
\* (register_reviewer, assign_reviewer).
THEOREM SelectionLoads == Spec => []LoadsExact
<1>1. SelectionInv => LoadsExact
    BY LoadsSame DEF SelectionInv, ReviewersInv, LoadsExact
<1>2. QED
    BY <1>1, SelectionInvariant, PTL

\* scholarship-decisions: for any committee, the recorded outcome follows from the
\* votes of the decision or of its one appeal by the documented tie policy, and only
\* an award has budget behind it (finalize_decision, finalize_appeal).
THEOREM SelectionOutcomes == Spec => []OutcomeTraceable
<1>1. SelectionInv => OutcomeTraceable
    BY DecisionsInvMeans DEF SelectionInv, OutcomeTraceable
<1>2. QED
    BY <1>1, SelectionInvariant, PTL

\* scholarship-applications: a privacy request or export is settled once, and answers
\* change only with the request that says so (process_privacy_request,
\* complete_data_export, cancel_data_export).
THEOREM SelectionRequests == Spec => RequestsSettleOnce
<1>1. SelectionInv /\ [Next]_vars => [I!SettleStep]_(I!applicationVars)
    BY SelectionInvNext
<1>2. Spec => [][I!SettleStep]_(I!applicationVars)
    BY <1>1, SelectionInvariant, PTL DEF Spec
<1>3. QED
    BY <1>2 DEF RequestsSettleOnce, I!RequestsSettleOnce

\* scholarship-decisions: votes, outcomes, resolved appeals and settled reservations
\* never change again (vote, finalize_appeal, accept_award, expire_reservation).
THEOREM SelectionFinal == Spec => DecisionsFinal
<1>1. SelectionInv /\ [Next]_vars => [D!FinalStep]_(D!decisionVars)
    BY SelectionInvNext
<1>2. Spec => [][D!FinalStep]_(D!decisionVars)
    BY <1>1, SelectionInvariant, PTL DEF Spec
<1>3. QED
    BY <1>2 DEF DecisionsFinal, D!DecisionsFinal
=============================================================================
