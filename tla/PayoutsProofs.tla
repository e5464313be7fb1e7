--------------------------- MODULE PayoutsProofs ---------------------------
(***************************************************************************)
(* Proofs about the contracts a scholarship payment passes through, for    *)
(* any number of awards, schedules, recipients, wallets and settlements    *)
(* and any of the bounds of the code.                                      *)
(***************************************************************************)
EXTENDS Payouts, SumTheorems, SequenceTheorems, FiniteSetTheorems

-----------------------------------------------------------------------------
(* scholarship-awards *)

\* The contracts count their records with the same Cardinality as this module.
LEMMA SameCardinality ==
    ASSUME NEW T
    PROVE  A!Cardinality(T) = Cardinality(T) /\ S!Cardinality(T) = Cardinality(T)
BY Zenon DEF Cardinality, A!Cardinality, S!Cardinality

\* The live awards of a program.
LiveIn(p) == {id \in DOMAIN awards : awards[id].program_id = p /\ A!Live(awards[id])}

\* The three parts of ReservationsExact.
CountersExact == \A p \in Programs : reservation[p] = Cardinality(LiveIn(p))

FlagsExact == \A id \in DOMAIN awards : awards[id].reserved = A!Live(awards[id])

PointerKey(id) == <<awards[id].recipient, awards[id].program_id>>

PointersExact ==
    \A id \in DOMAIN awards :
        A!Live(awards[id]) <=>
            PointerKey(id) \in DOMAIN activeAward /\ activeAward[PointerKey(id)] = id

\* They are the property the run checks.
LEMMA ReservationParts ==
    A!ReservationsExact <=> CountersExact /\ FlagsExact /\ PointersExact
<1>1. CountersExact <=>
        \A p \in Programs : reservation[p] =
          Cardinality({id \in DOMAIN awards : awards[id].program_id = p /\ A!Live(awards[id])})
    BY DEF CountersExact, LiveIn
<1>2. PointersExact <=>
        \A id \in DOMAIN awards : A!Live(awards[id]) <=>
          LET k == <<awards[id].recipient, awards[id].program_id>>
          IN  A!Has(activeAward, k) /\ activeAward[k] = id
    BY DEF PointersExact, PointerKey, A!Has
<1>3. A!ReservationsExact <=>
        /\ \A p \in Programs : reservation[p] =
             Cardinality({id \in DOMAIN awards : awards[id].program_id = p /\ A!Live(awards[id])})
        /\ FlagsExact
        /\ \A id \in DOMAIN awards : A!Live(awards[id]) <=>
             LET k == <<awards[id].recipient, awards[id].program_id>>
             IN  A!Has(activeAward, k) /\ activeAward[k] = id
    BY SameCardinality, Zenon DEF A!ReservationsExact, FlagsExact
<1>4. QED
    BY <1>1, <1>2, <1>3

\* The inductive invariant of the awards contract: an offer still to be answered
\* has no acceptance record, and only finitely many awards were made.
AwardsInv ==
    /\ A!TypeOK
    /\ CountersExact /\ FlagsExact /\ PointersExact
    /\ A!PaidUnderAgreement
    /\ \A id \in DOMAIN awards : awards[id].status = "Offered" => id \notin acceptance
    /\ IsFiniteSet(DOMAIN awards)

\* A program has finitely many live awards.
LEMMA LiveFinite ==
    ASSUME IsFiniteSet(DOMAIN awards), NEW p
    PROVE  IsFiniteSet(LiveIn(p)) /\ Cardinality(LiveIn(p)) \in Nat
<1>1. LiveIn(p) \subseteq DOMAIN awards
    BY DEF LiveIn
<1>2. IsFiniteSet(LiveIn(p))
    BY <1>1, FS_Subset
<1>3. QED
    BY <1>2, FS_CardinalityType

\* initialize leaves an empty register.
LEMMA AwardsInvInit == ASSUME now = 0, A!Init PROVE AwardsInv
<1>1. /\ DOMAIN awards = {} /\ DOMAIN activeAward = {} /\ DOMAIN recovery = {}
      /\ acceptance = {} /\ reservation = [p \in Programs |-> 0]
    BY DEF A!Init, A!Empty
<1>2. IsFiniteSet(DOMAIN awards)
    BY <1>1, FS_EmptySet
<1>3. \A p : Cardinality(LiveIn(p)) = 0
    <2>1. \A p : LiveIn(p) = {}
        BY <1>1 DEF LiveIn
    <2>2. QED BY <2>1, FS_EmptySet
<1>4. A!TypeOK
    BY <1>1 DEF A!TypeOK
<1>5. CountersExact /\ FlagsExact /\ PointersExact
    BY <1>1, <1>3 DEF CountersExact, FlagsExact, PointersExact
<1>6. A!PaidUnderAgreement
    BY <1>1 DEF A!PaidUnderAgreement
<1>7. QED
    BY <1>1, <1>2, <1>4, <1>5, <1>6 DEF AwardsInv

\* create_award adds one live award of a recipient who has none in the program.
LEMMA AwardsInvCreate ==
    ASSUME AwardsInv, UNCHANGED now, NEW caller, NEW id \in AwardIds, NEW p \in Programs,
           NEW r \in Recipients, NEW amount \in AwardAmounts, NEW deadline \in Deadlines,
           A!CreateAward(caller, id, p, r, amount, deadline)
    PROVE  AwardsInv'
<1> DEFINE new == [version |-> 1, program_id |-> p, recipient |-> r, amount |-> amount,
                   acceptance_deadline |-> deadline, status |-> "Offered",
                   reserved |-> TRUE, paid_amount |-> 0]
           k == <<r, p>>
<1>1. /\ A!TypeOK /\ CountersExact /\ FlagsExact /\ PointersExact /\ A!PaidUnderAgreement
      /\ \A x \in DOMAIN awards : awards[x].status = "Offered" => x \notin acceptance
      /\ IsFiniteSet(DOMAIN awards)
    BY DEF AwardsInv
<1>2. /\ id \notin DOMAIN awards /\ k \notin DOMAIN activeAward /\ amount > 0
      /\ awards' = A!Set(awards, id, new) /\ activeAward' = A!Set(activeAward, k, id)
      /\ reservation' = [reservation EXCEPT ![p] = @ + 1]
      /\ UNCHANGED <<acceptance, recovery>>
    BY DEF A!CreateAward, A!Has
<1>3. /\ new \in A!Award /\ A!Live(new) /\ new.program_id = p /\ new.recipient = r
      /\ new.reserved = TRUE /\ new.status = "Offered" /\ new.paid_amount = 0
      /\ new.amount = amount
    BY <1>2, PayoutsConstants DEF A!Award, A!AwardStatus, A!Live
<1>4. k \in Recipients \X Programs /\ \A s, q : <<s, q>> = k => s = r /\ q = p
    OBVIOUS
<1> HIDE DEF new
<1>5. /\ DOMAIN awards' = DOMAIN awards \cup {id} /\ awards'[id] = new
      /\ \A x \in DOMAIN awards : x # id /\ awards'[x] = awards[x]
    BY <1>2 DEF A!Set
<1> HIDE DEF k
<1>6. /\ DOMAIN activeAward' = DOMAIN activeAward \cup {k} /\ activeAward'[k] = id
      /\ \A x \in DOMAIN activeAward : x # k /\ activeAward'[x] = activeAward[x]
    BY <1>2 DEF A!Set
<1>7. A!TypeOK'
    <2>1. reservation' \in [Programs -> Nat]
        BY <1>1, <1>2 DEF A!TypeOK
    <2>2. QED
        BY <1>1, <1>2, <1>3, <1>4, <1>5, <1>6, <2>1 DEF A!TypeOK
<1>8. CountersExact' /\ FlagsExact' /\ PointersExact'
    <2>1. ASSUME NEW q \in Programs
          PROVE  reservation'[q] = Cardinality(LiveIn(q)')
        <3>1. reservation[q] = Cardinality(LiveIn(q)) /\ reservation[q] \in Nat
            BY <1>1 DEF CountersExact, A!TypeOK
        <3>2. IsFiniteSet(LiveIn(q))
            BY <1>1, LiveFinite
        <3>3. CASE q = p
            <4>1. LiveIn(q)' = LiveIn(q) \cup {id} /\ id \notin LiveIn(q)
                BY <1>2, <1>3, <1>5, <3>3 DEF LiveIn
            <4>2. Cardinality(LiveIn(q)') = Cardinality(LiveIn(q)) + 1
                BY <3>2, <4>1, FS_AddElement
            <4>3. QED BY <1>1, <1>2, <3>1, <3>3, <4>2 DEF A!TypeOK
        <3>4. CASE q # p
            <4>1. LiveIn(q)' = LiveIn(q)
                BY <1>2, <1>3, <1>5, <3>4 DEF LiveIn
            <4>2. QED BY <1>1, <1>2, <3>1, <3>4, <4>1 DEF A!TypeOK
        <3>5. QED BY <3>3, <3>4
    <2>2. \A x \in DOMAIN awards' : awards'[x].reserved = A!Live(awards'[x])
        BY <1>1, <1>3, <1>5 DEF FlagsExact
    <2>3. ASSUME NEW x \in DOMAIN awards'
          PROVE  A!Live(awards'[x]) <=>
                     PointerKey(x)' \in DOMAIN activeAward' /\ activeAward'[PointerKey(x)'] = x
        <3>1. CASE x = id
            BY <1>3, <1>5, <1>6, <3>1 DEF k, PointerKey
        <3>2. CASE x # id
            <4> DEFINE j == PointerKey(x)
            <4>1. x \in DOMAIN awards /\ awards'[x] = awards[x] /\ PointerKey(x)' = j
                BY <1>5, <3>2 DEF PointerKey
            <4>2. A!Live(awards[x]) <=> j \in DOMAIN activeAward /\ activeAward[j] = x
                BY <1>1, <4>1 DEF PointersExact
            <4> HIDE DEF j
            <4>3. A!Live(awards[x]) <=> j \in DOMAIN activeAward' /\ activeAward'[j] = x
                BY <1>2, <1>6, <3>2, <4>2
            <4>4. QED BY <4>1, <4>3
        <3>3. QED BY <3>1, <3>2
    <2>4. QED
        BY <2>1, <2>2, <2>3 DEF CountersExact, FlagsExact, PointersExact
<1>9. A!PaidUnderAgreement'
    <2>1. id \notin acceptance /\ id \notin DOMAIN recovery
        BY <1>1, <1>2 DEF A!TypeOK
    <2>2. 0 <= amount
        BY <1>2, PayoutsConstants
    <2>3. QED BY <1>1, <1>2, <1>3, <1>5, <2>1, <2>2 DEF A!PaidUnderAgreement
<1>10. \A x \in DOMAIN awards' : awards'[x].status = "Offered" => x \notin acceptance'
    BY <1>1, <1>2, <1>5 DEF A!TypeOK
<1>11. IsFiniteSet(DOMAIN awards')
    BY <1>1, <1>5, FS_AddElement
<1>12. QED
    BY <1>7, <1>8, <1>9, <1>10, <1>11 DEF AwardsInv

\* A call that writes award id as a1 and does not reassign it.
AwardWritten(id, a1) ==
    /\ id \in DOMAIN awards /\ DOMAIN awards' = DOMAIN awards
    /\ awards'[id] = a1 /\ \A x \in DOMAIN awards : x # id => awards'[x] = awards[x]
    /\ a1 \in A!Award
    /\ a1.program_id = awards[id].program_id /\ a1.recipient = awards[id].recipient
    /\ a1.amount = awards[id].amount

\* An award that stays live keeps its place and its pointer.
LEMMA StaysLive ==
    ASSUME AwardsInv, NEW id, NEW a1, AwardWritten(id, a1),
           A!Live(awards[id]), A!Live(a1), a1.reserved = awards[id].reserved,
           UNCHANGED <<activeAward, reservation>>
    PROVE  CountersExact' /\ FlagsExact' /\ PointersExact'
<1>1. CountersExact /\ FlagsExact /\ PointersExact
    BY DEF AwardsInv
<1>2. \A p : LiveIn(p)' = LiveIn(p)
    BY DEF AwardWritten, LiveIn
<1>3. CountersExact'
    BY <1>1, <1>2 DEF CountersExact
<1>4. FlagsExact'
    BY <1>1 DEF FlagsExact, AwardWritten
<1>5. \A x \in DOMAIN awards : /\ PointerKey(x)' = PointerKey(x)
                               /\ A!Live(awards'[x]) <=> A!Live(awards[x])
    BY DEF PointerKey, AwardWritten
<1>6. PointersExact'
    BY <1>1, <1>5 DEF PointersExact, AwardWritten
<1>7. QED
    BY <1>3, <1>4, <1>6

\* An award that closes gives up its place, and only its own pointer is cleared.
LEMMA Closes ==
    ASSUME AwardsInv, NEW id, NEW a1, AwardWritten(id, a1),
           A!Live(awards[id]), ~A!Live(a1), a1.reserved = FALSE,
           reservation' = [reservation EXCEPT ![awards[id].program_id] = @ - 1],
           A!ClearActiveAward(awards[id])
    PROVE  /\ CountersExact' /\ FlagsExact' /\ PointersExact'
           /\ reservation' \in [Programs -> Nat]
           /\ DOMAIN activeAward' \subseteq DOMAIN activeAward
           /\ \A k \in DOMAIN activeAward' : activeAward'[k] = activeAward[k]
<1> DEFINE p == awards[id].program_id
           k == PointerKey(id)
<1>1. /\ CountersExact /\ FlagsExact /\ PointersExact
      /\ IsFiniteSet(DOMAIN awards)
      /\ id \in DOMAIN awards /\ p \in Programs
      /\ reservation \in [Programs -> Nat]
    BY DEF AwardsInv, A!TypeOK, AwardWritten, A!Award
<1>2. /\ DOMAIN activeAward' = DOMAIN activeAward \ {k}
      /\ \A j \in DOMAIN activeAward' : activeAward'[j] = activeAward[j]
    BY DEF A!ClearActiveAward, A!Remove, PointerKey
<1>3. ASSUME NEW q \in Programs
      PROVE  reservation'[q] = Cardinality(LiveIn(q)') /\ reservation'[q] \in Nat
    <2>1. reservation[q] = Cardinality(LiveIn(q)) /\ reservation[q] \in Nat
        BY <1>1 DEF CountersExact
    <2>2. IsFiniteSet(LiveIn(q))
        BY <1>1, LiveFinite
    <2>3. CASE q = p
        <3>1. id \in LiveIn(q) /\ LiveIn(q)' = LiveIn(q) \ {id}
            BY <1>1, <2>3 DEF LiveIn, AwardWritten
        <3>2. Cardinality(LiveIn(q)') = Cardinality(LiveIn(q)) - 1
            BY <2>2, <3>1, FS_RemoveElement
        <3>3. Cardinality(LiveIn(q)) # 0
            BY <2>2, <3>1, FS_EmptySet
        <3>4. reservation'[q] = reservation[q] - 1
            BY <1>1, <2>3
        <3>5. QED BY <2>1, <3>2, <3>3, <3>4
    <2>4. CASE q # p
        <3>1. LiveIn(q)' = LiveIn(q)
            BY <2>4 DEF LiveIn, AwardWritten
        <3>2. reservation'[q] = reservation[q]
            BY <1>1, <2>4
        <3>3. QED BY <2>1, <3>1, <3>2
    <2>5. QED BY <2>3, <2>4
<1>4. reservation' \in [Programs -> Nat]
    BY <1>1, <1>3
<1>5. FlagsExact'
    <2>1. A!Live(awards'[id]) = FALSE
        BY DEF A!Live, AwardWritten
    <2>2. QED BY <1>1, <2>1 DEF FlagsExact, AwardWritten
<1>6. ASSUME NEW x \in DOMAIN awards'
      PROVE  A!Live(awards'[x]) <=>
                 PointerKey(x)' \in DOMAIN activeAward' /\ activeAward'[PointerKey(x)'] = x
    <2>1. x \in DOMAIN awards /\ PointerKey(x)' = PointerKey(x)
        BY DEF AwardWritten, PointerKey
    <2> HIDE DEF k
    <2>2. CASE x = id
        <3>1. PointerKey(x)' = k /\ k \notin DOMAIN activeAward'
            BY <1>2, <2>1, <2>2 DEF k
        <3>2. ~A!Live(awards'[x])
            BY <2>2 DEF AwardWritten
        <3>3. QED BY <3>1, <3>2
    <2>3. CASE x # id
        <3>1. awards'[x] = awards[x]
            BY <2>1, <2>3 DEF AwardWritten
        <3>2. A!Live(awards[x]) <=>
                 PointerKey(x) \in DOMAIN activeAward /\ activeAward[PointerKey(x)] = x
            BY <1>1, <2>1 DEF PointersExact
        <3>3. activeAward[k] = id
            BY <1>1 DEF PointersExact, k
        <3>4. QED BY <1>2, <2>1, <2>3, <3>1, <3>2, <3>3
    <2>4. QED BY <2>2, <2>3
<1>7. QED
    BY <1>2, <1>3, <1>4, <1>5, <1>6 DEF CountersExact, PointersExact

\* accept_award signs an offer.
LEMMA AwardsInvAccept ==
    ASSUME AwardsInv, UNCHANGED now, NEW caller, NEW id \in DOMAIN awards, NEW expected,
           A!AcceptAward(caller, id, expected)
    PROVE  AwardsInv'
<1> DEFINE a == awards[id]
           a0 == [a EXCEPT !.version = @ + 1]
           a1 == [a0 EXCEPT !.status = "Accepted"]
<1>1. /\ A!TypeOK /\ A!PaidUnderAgreement
      /\ \A x \in DOMAIN awards : awards[x].status = "Offered" => x \notin acceptance
      /\ IsFiniteSet(DOMAIN awards)
    BY DEF AwardsInv
<1>2. a \in A!Award /\ a.status = "Offered" /\ acceptance' = acceptance \cup {id}
      /\ UNCHANGED <<activeAward, recovery, reservation>>
    BY <1>1 DEF A!AcceptAward, A!TypeOK
<1>3. /\ a1 \in A!Award /\ a1.status = "Accepted" /\ a1.reserved = a.reserved
      /\ a1.paid_amount = a.paid_amount /\ a1.amount = a.amount
      /\ a1.program_id = a.program_id /\ a1.recipient = a.recipient
    <2> HIDE DEF a
    <2>1. /\ a0 \in A!Award /\ a0.reserved = a.reserved
          /\ a0.paid_amount = a.paid_amount /\ a0.amount = a.amount
          /\ a0.program_id = a.program_id /\ a0.recipient = a.recipient
        BY <1>2 DEF A!Award
    <2> HIDE DEF a0
    <2>2. QED BY <2>1 DEF A!Award, A!AwardStatus
<1>4. awards' = [awards EXCEPT ![id] = a1]
    BY DEF A!AcceptAward
<1> HIDE DEF a1
<1>5. AwardWritten(id, a1)
    BY <1>3, <1>4 DEF AwardWritten
<1>6. CountersExact' /\ FlagsExact' /\ PointersExact'
    <2>1. A!Live(a) /\ A!Live(a1)
        BY <1>2, <1>3 DEF A!Live
    <2>2. QED BY <1>2, <1>3, <1>5, <2>1, StaysLive
<1>7. A!TypeOK'
    BY <1>1, <1>2, <1>3, <1>5 DEF A!TypeOK, AwardWritten
<1>8. A!PaidUnderAgreement'
    BY <1>1, <1>2, <1>3, <1>5 DEF A!PaidUnderAgreement, AwardWritten
<1>9. \A x \in DOMAIN awards' : awards'[x].status = "Offered" => x \notin acceptance'
    BY <1>1, <1>2, <1>3, <1>5 DEF AwardWritten
<1>10. QED
    BY <1>1, <1>5, <1>6, <1>7, <1>8, <1>9 DEF AwardsInv, AwardWritten

\* decline_award, expire_award, cancel_award and terminate_award close a live award:
\* an offer nobody signed, an award nothing was paid on, or, with a recovery of at
\* most what was paid, an accepted one.
LEMMA AwardsInvClose ==
    ASSUME AwardsInv, UNCHANGED <<now, acceptance>>, NEW id \in DOMAIN awards,
           NEW status \in {"Declined", "Expired", "Cancelled", "Terminated"},
           A!Close(id, status), A!Live(awards[id]),
           status \in {"Declined", "Expired"} => awards[id].status = "Offered",
           status = "Cancelled" => awards[id].paid_amount = 0,
           \/ status # "Terminated" /\ UNCHANGED recovery
           \/ /\ status = "Terminated" /\ awards[id].status = "Accepted"
              /\ \E amount \in 0..awards[id].paid_amount : recovery' = A!Set(recovery, id, amount)
    PROVE  AwardsInv'
<1> DEFINE a == awards[id]
           a0 == [a EXCEPT !.version = @ + 1]
           a2 == [a0 EXCEPT !.status = status]
           a1 == [a2 EXCEPT !.reserved = FALSE]
<1>1. /\ A!TypeOK /\ A!PaidUnderAgreement
      /\ \A x \in DOMAIN awards : awards[x].status = "Offered" => x \notin acceptance
      /\ IsFiniteSet(DOMAIN awards)
    BY DEF AwardsInv
<1>2. /\ a \in A!Award
      /\ reservation' = [reservation EXCEPT ![a.program_id] = @ - 1]
      /\ A!ClearActiveAward(a)
    BY <1>1 DEF A!Close, A!TypeOK
<1>3. /\ a1 \in A!Award /\ a1.status = status /\ a1.reserved = FALSE
      /\ a1.paid_amount = a.paid_amount /\ a1.amount = a.amount
      /\ a1.program_id = a.program_id /\ a1.recipient = a.recipient
    <2> HIDE DEF a
    <2>1. /\ a0 \in A!Award
          /\ a0.paid_amount = a.paid_amount /\ a0.amount = a.amount
          /\ a0.program_id = a.program_id /\ a0.recipient = a.recipient
        BY <1>2 DEF A!Award
    <2> HIDE DEF a0
    <2>2. /\ a2 \in A!Award /\ a2.status = status
          /\ a2.paid_amount = a.paid_amount /\ a2.amount = a.amount
          /\ a2.program_id = a.program_id /\ a2.recipient = a.recipient
        BY <2>1 DEF A!Award, A!AwardStatus
    <2> HIDE DEF a2
    <2>3. QED BY <2>2 DEF A!Award
<1>4. awards' = [awards EXCEPT ![id] = a1]
    BY DEF A!Close
<1> HIDE DEF a1
<1>5. AwardWritten(id, a1)
    BY <1>3, <1>4 DEF AwardWritten
<1>6. /\ CountersExact' /\ FlagsExact' /\ PointersExact'
      /\ reservation' \in [Programs -> Nat]
      /\ DOMAIN activeAward' \subseteq DOMAIN activeAward
      /\ \A k \in DOMAIN activeAward' : activeAward'[k] = activeAward[k]
    <2>1. ~A!Live(a1)
        BY <1>3 DEF A!Live
    <2>2. QED BY <1>2, <1>3, <1>5, <2>1, Closes
<1>7. /\ a.status \in {"Offered", "Accepted"} /\ id \notin DOMAIN recovery
      /\ a.paid_amount \in Nat
    BY <1>1, <1>2 DEF A!Live, A!PaidUnderAgreement, A!Award
<1>8. /\ \A x \in DOMAIN awards : x # id => (x \in DOMAIN recovery' <=> x \in DOMAIN recovery)
      /\ \A x \in DOMAIN recovery : recovery'[x] = recovery[x]
      /\ DOMAIN recovery' \subseteq DOMAIN recovery \cup {id}
      /\ id \in DOMAIN recovery' <=> status = "Terminated"
      /\ id \in DOMAIN recovery' => recovery'[id] \in Nat /\ recovery'[id] <= a.paid_amount
    <2>1. CASE status # "Terminated" /\ UNCHANGED recovery
        BY <1>7, <2>1
    <2>2. CASE /\ status = "Terminated"
               /\ \E amount \in 0..awards[id].paid_amount : recovery' = A!Set(recovery, id, amount)
        <3>1. PICK amount \in 0..a.paid_amount : recovery' = A!Set(recovery, id, amount)
            BY <2>2
        <3>2. /\ DOMAIN recovery' = DOMAIN recovery \cup {id} /\ recovery'[id] = amount
              /\ \A x \in DOMAIN recovery : recovery'[x] = recovery[x]
            BY <1>7, <3>1 DEF A!Set
        <3>3. amount \in Nat /\ amount <= a.paid_amount
            BY <1>7
        <3>4. QED BY <2>2, <3>2, <3>3
    <2>3. QED BY <2>1, <2>2
<1>9. A!TypeOK'
    <2>1. /\ DOMAIN awards' \subseteq AwardIds
          /\ \A x \in DOMAIN awards' : awards'[x] \in A!Award
        BY <1>1, <1>5 DEF A!TypeOK, AwardWritten
    <2>2. /\ DOMAIN activeAward' \subseteq Recipients \X Programs
          /\ \A k \in DOMAIN activeAward' : activeAward'[k] \in DOMAIN awards'
        BY <1>1, <1>5, <1>6 DEF A!TypeOK, AwardWritten
    <2>3. /\ DOMAIN recovery' \subseteq DOMAIN awards'
          /\ \A x \in DOMAIN recovery' : recovery'[x] \in Nat
        BY <1>1, <1>5, <1>8 DEF A!TypeOK, AwardWritten
    <2>4. acceptance' \subseteq DOMAIN awards' /\ now' \in Nat
        BY <1>1, <1>5 DEF A!TypeOK, AwardWritten
    <2>5. QED BY <1>6, <2>1, <2>2, <2>3, <2>4 DEF A!TypeOK
<1>10. A!PaidUnderAgreement'
    <2> SUFFICES ASSUME NEW x \in DOMAIN awards'
                 PROVE  LET b == awards'[x] IN
                        /\ b.paid_amount <= b.amount
                        /\ b.paid_amount > 0 => x \in acceptance' /\ b.status \in {"Accepted", "Terminated"}
                        /\ b.status \in {"Accepted", "Terminated"} => x \in acceptance'
                        /\ b.status \in {"Declined", "Expired"} => x \notin acceptance'
                        /\ x \in DOMAIN recovery' <=> b.status = "Terminated"
                        /\ x \in DOMAIN recovery' => recovery'[x] <= b.paid_amount
        BY DEF A!PaidUnderAgreement
    <2>1. x \in DOMAIN awards
        BY <1>5 DEF AwardWritten
    <2>2. CASE x # id
        <3>1. awards'[x] = awards[x]
            BY <1>5, <2>1, <2>2 DEF AwardWritten
        <3>2. QED BY <1>1, <1>8, <2>1, <2>2, <3>1 DEF A!PaidUnderAgreement
    <2>3. CASE x = id
        <3>1. awards'[x] = a1
            BY <1>5, <2>3 DEF AwardWritten
        <3>2. a.paid_amount <= a.amount
            BY <1>1 DEF A!PaidUnderAgreement
        <3>3. a.paid_amount > 0 => id \in acceptance /\ status = "Terminated"
            BY <1>1, <1>7 DEF A!PaidUnderAgreement
        <3>4. /\ status = "Terminated" => id \in acceptance
              /\ status \in {"Declined", "Expired"} => id \notin acceptance
            BY <1>1 DEF A!PaidUnderAgreement
        <3>5. QED BY <1>3, <1>8, <2>3, <3>1, <3>2, <3>3, <3>4
    <2>4. QED BY <2>2, <2>3
<1>11. \A x \in DOMAIN awards' : awards'[x].status = "Offered" => x \notin acceptance'
    BY <1>1, <1>3, <1>5 DEF AwardWritten
<1>12. QED
    BY <1>1, <1>5, <1>6, <1>9, <1>10, <1>11 DEF AwardsInv, AwardWritten

\* record_disbursement pays within the amount of an accepted award.
LEMMA AwardsInvDisburse ==
    ASSUME AwardsInv, UNCHANGED now, NEW caller, NEW id \in DOMAIN awards, NEW expected,
           NEW amount \in AwardAmounts, A!RecordDisbursement(caller, id, expected, amount)
    PROVE  AwardsInv'
<1> DEFINE a == awards[id]
           a0 == [a EXCEPT !.version = @ + 1]
           a1 == [a0 EXCEPT !.paid_amount = @ + amount]
<1>1. /\ A!TypeOK /\ A!PaidUnderAgreement
      /\ \A x \in DOMAIN awards : awards[x].status = "Offered" => x \notin acceptance
      /\ IsFiniteSet(DOMAIN awards)
    BY DEF AwardsInv
<1>2. /\ a \in A!Award /\ a.status = "Accepted"
      /\ amount \in Nat /\ a.paid_amount + amount <= a.amount
      /\ UNCHANGED <<activeAward, acceptance, recovery, reservation>>
    BY <1>1, PayoutsConstants DEF A!RecordDisbursement, A!TypeOK
<1>3. /\ a1 \in A!Award /\ a1.status = "Accepted" /\ a1.reserved = a.reserved
      /\ a1.paid_amount = a.paid_amount + amount /\ a1.amount = a.amount
      /\ a1.program_id = a.program_id /\ a1.recipient = a.recipient
    <2> HIDE DEF a
    <2>1. /\ a0 \in A!Award /\ a0.reserved = a.reserved /\ a0.status = a.status
          /\ a0.paid_amount = a.paid_amount /\ a0.amount = a.amount
          /\ a0.program_id = a.program_id /\ a0.recipient = a.recipient
        BY <1>2 DEF A!Award
    <2> HIDE DEF a0
    <2>2. QED BY <1>2, <2>1 DEF A!Award
<1>4. awards' = [awards EXCEPT ![id] = a1]
    BY DEF A!RecordDisbursement
<1> HIDE DEF a1
<1>5. AwardWritten(id, a1)
    BY <1>3, <1>4 DEF AwardWritten
<1>6. CountersExact' /\ FlagsExact' /\ PointersExact'
    <2>1. A!Live(a) /\ A!Live(a1)
        BY <1>2, <1>3 DEF A!Live
    <2>2. QED BY <1>2, <1>3, <1>5, <2>1, StaysLive
<1>7. A!TypeOK'
    BY <1>1, <1>2, <1>3, <1>5 DEF A!TypeOK, AwardWritten
<1>8. A!PaidUnderAgreement'
    <2>1. id \in acceptance /\ id \notin DOMAIN recovery
        BY <1>1, <1>2 DEF A!PaidUnderAgreement
    <2>2. QED
        BY <1>1, <1>2, <1>3, <1>5, <2>1 DEF A!PaidUnderAgreement, AwardWritten
<1>9. \A x \in DOMAIN awards' : awards'[x].status = "Offered" => x \notin acceptance'
    BY <1>1, <1>2, <1>3, <1>5 DEF AwardWritten
<1>10. QED
    BY <1>1, <1>5, <1>6, <1>7, <1>8, <1>9 DEF AwardsInv, AwardWritten

\* Every call of the awards contract keeps its invariant.
LEMMA AwardsInvNext == ASSUME AwardsInv, A!Next, UNCHANGED now PROVE AwardsInv'
<1>1. PICK caller \in Recipients \cup {Admin} :
        \/ \E id \in AwardIds, p \in Programs, r \in Recipients,
              amount \in AwardAmounts, deadline \in Deadlines :
               A!CreateAward(caller, id, p, r, amount, deadline)
        \/ \E id \in DOMAIN awards : \E expected \in 1..(awards[id].version + 1) :
               \/ A!AcceptAward(caller, id, expected)
               \/ A!DeclineAward(caller, id, expected)
               \/ A!ExpireAward(id, expected)
               \/ A!CancelAward(caller, id, expected)
               \/ \E amount \in AwardAmounts :
                      \/ A!TerminateAward(caller, id, expected, amount)
                      \/ A!RecordDisbursement(caller, id, expected, amount)
    BY Zenon DEF A!Next
<1>2. CASE \E id \in AwardIds, p \in Programs, r \in Recipients,
              amount \in AwardAmounts, deadline \in Deadlines :
               A!CreateAward(caller, id, p, r, amount, deadline)
    BY <1>2, AwardsInvCreate
<1>3. ASSUME NEW id \in DOMAIN awards, NEW expected, A!AcceptAward(caller, id, expected)
      PROVE  AwardsInv'
    BY <1>3, AwardsInvAccept
<1>4. ASSUME NEW id \in DOMAIN awards, NEW expected, A!DeclineAward(caller, id, expected)
      PROVE  AwardsInv'
    BY <1>4, AwardsInvClose DEF A!DeclineAward, A!IsLegalTransition, A!Live
<1>5. ASSUME NEW id \in DOMAIN awards, NEW expected, A!ExpireAward(id, expected)
      PROVE  AwardsInv'
    BY <1>5, AwardsInvClose DEF A!ExpireAward, A!Live
<1>6. ASSUME NEW id \in DOMAIN awards, NEW expected, A!CancelAward(caller, id, expected)
      PROVE  AwardsInv'
    BY <1>6, AwardsInvClose DEF A!CancelAward, A!Cancellable, A!IsLegalTransition, A!Live
<1>7. ASSUME NEW id \in DOMAIN awards, NEW expected, NEW amount \in AwardAmounts,
             A!TerminateAward(caller, id, expected, amount)
      PROVE  AwardsInv'
    BY <1>7, AwardsInvClose DEF A!TerminateAward, A!IsLegalTransition, A!Live
<1>8. ASSUME NEW id \in DOMAIN awards, NEW expected, NEW amount \in AwardAmounts,
             A!RecordDisbursement(caller, id, expected, amount)
      PROVE  AwardsInv'
    BY <1>8, AwardsInvDisburse
<1>9. QED
    BY <1>1, <1>2, <1>3, <1>4, <1>5, <1>6, <1>7, <1>8

\* The passing of time and the calls of the other contracts keep the invariant.
LEMMA AwardsInvStutter ==
    ASSUME AwardsInv, UNCHANGED awardVars, now' \in Nat
    PROVE  AwardsInv'
<1>1. \A p : LiveIn(p)' = LiveIn(p)
    BY DEF awardVars, LiveIn
<1>2. CountersExact' /\ FlagsExact' /\ PointersExact'
    BY <1>1 DEF awardVars, AwardsInv, CountersExact, FlagsExact, PointersExact, PointerKey
<1>3. QED
    BY <1>2 DEF awardVars, AwardsInv, A!TypeOK, A!PaidUnderAgreement

-----------------------------------------------------------------------------
(* scholarship-disbursements *)

\* Some challenge of recipient r for wallet w is among the confirmed ones.
ProvenIn(confirmed, r, w) == \E key \in PublicKeys : <<r, w, key>> \in confirmed

\* PaidToProvenWallet, as a formula of the stored proofs.
ProvenPayments ==
    /\ \A r \in DOMAIN bindings :
         bindings[r].verified => ProvenIn(proved, r, bindings[r].wallet)
    /\ \A k \in DOMAIN intents :
         /\ intents[k].status = "Executed" => ProvenIn(proved, k[1], intents[k].wallet)
         /\ intents[k].wallet_epoch <= bindings[k[1]].epoch
         /\ intents[k].wallet_epoch = bindings[k[1]].epoch =>
                intents[k].wallet = bindings[k[1]].wallet

\* It is the property the run checks.
LEMMA ProvenPaymentsSame == D!PaidToProvenWallet <=> ProvenPayments
BY DEF D!PaidToProvenWallet, D!Proven, ProvenPayments, ProvenIn

\* The property is inductive together with the types.
DisbursementsInv == D!TypeOK /\ ProvenPayments

\* initialize leaves no wallet and no intent.
LEMMA DisbursementsInvInit == ASSUME now = 0, D!Init PROVE DisbursementsInv
<1>1. /\ DOMAIN walletKey = {} /\ DOMAIN bindings = {} /\ DOMAIN intents = {}
      /\ creators = {} /\ challenges = <<>>
    BY DEF D!Init, D!Empty
<1>2. challenges \in Seq(D!WalletChallenge)
    BY <1>1, EmptySeq
<1>3. QED
    BY <1>1, <1>2 DEF DisbursementsInv, D!TypeOK, ProvenPayments

\* Calls that touch neither a binding nor an intent.
LEMMA DisbursementsInvOther ==
    ASSUME DisbursementsInv, D!TypeOK', UNCHANGED <<bindings, intents, proved>>
    PROVE  DisbursementsInv'
BY DEF DisbursementsInv, ProvenPayments

\* set_payout_wallet starts a new epoch with an unproven wallet, which no intent
\* of an earlier epoch reaches.
LEMMA DisbursementsInvSetWallet ==
    ASSUME DisbursementsInv, UNCHANGED now, NEW r \in Payees, NEW w \in Wallets,
           D!SetPayoutWallet(r, w)
    PROVE  DisbursementsInv'
<1> DEFINE b1 == [wallet |-> w, verified |-> FALSE, epoch |-> D!EpochOf(r) + 1]
<1>1. D!TypeOK /\ ProvenPayments
    BY DEF DisbursementsInv
<1>2. D!EpochOf(r) \in Nat /\ (r \in DOMAIN bindings => D!EpochOf(r) = bindings[r].epoch)
    BY <1>1 DEF D!EpochOf, D!Has, D!TypeOK, D!PayoutWallet
<1>3. /\ bindings' = D!Set(bindings, r, b1)
      /\ UNCHANGED <<creators, walletKey, challenges, intents, proved>>
    BY DEF D!SetPayoutWallet
<1>4. /\ b1 \in D!PayoutWallet /\ b1.verified = FALSE /\ b1.epoch = D!EpochOf(r) + 1
    BY <1>2 DEF D!PayoutWallet
<1> HIDE DEF b1
<1>5. /\ DOMAIN bindings' = DOMAIN bindings \cup {r} /\ bindings'[r] = b1
      /\ \A x \in DOMAIN bindings : x # r => bindings'[x] = bindings[x]
    BY <1>3 DEF D!Set
<1>6. D!TypeOK'
    BY <1>1, <1>3, <1>4, <1>5 DEF D!TypeOK
<1>7. proved' = proved
    BY <1>3
<1>8. ProvenPayments'
    <2>1. \A x \in DOMAIN bindings' : bindings'[x].verified => ProvenIn(proved', x, bindings'[x].wallet)
        BY <1>1, <1>4, <1>5, <1>7 DEF ProvenPayments
    <2>2. ASSUME NEW k \in DOMAIN intents'
          PROVE  /\ intents'[k].status = "Executed" => ProvenIn(proved', k[1], intents'[k].wallet)
                 /\ intents'[k].wallet_epoch <= bindings'[k[1]].epoch
                 /\ intents'[k].wallet_epoch = bindings'[k[1]].epoch =>
                        intents'[k].wallet = bindings'[k[1]].wallet
        <3>1. /\ k \in DOMAIN intents /\ intents' = intents /\ k[1] \in DOMAIN bindings
              /\ intents[k] \in D!DisbursementIntent
              /\ intents[k].wallet_epoch <= bindings[k[1]].epoch
              /\ intents[k].status = "Executed" => ProvenIn(proved, k[1], intents[k].wallet)
            BY <1>1, <1>3 DEF D!TypeOK, ProvenPayments
        <3>2. CASE k[1] = r
            <4>1. intents[k].wallet_epoch \in Nat
                BY <3>1 DEF D!DisbursementIntent
            <4>2. intents[k].wallet_epoch < b1.epoch
                BY <1>2, <1>4, <3>1, <3>2, <4>1
            <4>3. b1.epoch \in Nat
                BY <1>4 DEF D!PayoutWallet
            <4>4. QED BY <1>5, <1>7, <3>1, <3>2, <4>1, <4>2, <4>3
        <3>3. CASE k[1] # r
            BY <1>1, <1>5, <1>7, <3>1, <3>3 DEF ProvenPayments
        <3>4. QED BY <3>2, <3>3
    <2>3. QED BY <2>1, <2>2 DEF ProvenPayments
<1>9. QED
    BY <1>6, <1>8 DEF DisbursementsInv

\* confirm_wallet_challenge verifies the wallet that is bound by now, which is the
\* one the challenge was opened for.
LEMMA DisbursementsInvConfirm ==
    ASSUME DisbursementsInv, UNCHANGED now, NEW i \in DOMAIN challenges, NEW key \in PublicKeys,
           D!ConfirmWalletChallenge(i, key)
    PROVE  DisbursementsInv'
<1> DEFINE c == challenges[i]
           r == c.recipient
           b1 == [bindings[r] EXCEPT !.verified = TRUE]
<1>1. D!TypeOK /\ ProvenPayments
    BY DEF DisbursementsInv
<1>2. /\ r \in DOMAIN bindings /\ bindings[r].wallet = c.wallet
      /\ bindings' = [bindings EXCEPT ![r] = b1]
      /\ challenges' = [challenges EXCEPT ![i].used = TRUE]
      /\ proved' = proved \cup {<<r, c.wallet, key>>}
      /\ UNCHANGED <<creators, walletKey, intents>>
    BY DEF D!ConfirmWalletChallenge, D!AnswersBinding, D!Has
<1>3. /\ b1 \in D!PayoutWallet /\ b1.wallet = c.wallet
      /\ b1.epoch = bindings[r].epoch
    BY <1>1, <1>2 DEF D!TypeOK, D!PayoutWallet
<1> HIDE DEF b1
<1>4. /\ DOMAIN bindings' = DOMAIN bindings /\ bindings'[r] = b1
      /\ \A x \in DOMAIN bindings : x # r => bindings'[x] = bindings[x]
    BY <1>2
<1>5. challenges' \in Seq(D!WalletChallenge)
    <2> DEFINE c1 == [c EXCEPT !.used = TRUE]
    <2>1. challenges \in Seq(D!WalletChallenge) /\ i \in 1..Len(challenges)
        BY <1>1, LenProperties DEF D!TypeOK
    <2>2. c \in D!WalletChallenge
        BY <2>1, ElementOfSeq
    <2>3. c1 \in D!WalletChallenge /\ challenges' = [challenges EXCEPT ![i] = c1]
        BY <1>2, <2>2 DEF D!WalletChallenge
    <2> HIDE DEF c1
    <2>4. QED BY <2>1, <2>3, ExceptSeq
<1>6. D!TypeOK'
    BY <1>1, <1>2, <1>3, <1>4, <1>5 DEF D!TypeOK
<1>7. /\ \A x, v : ProvenIn(proved, x, v) => ProvenIn(proved', x, v)
      /\ ProvenIn(proved', r, c.wallet)
    BY <1>2 DEF ProvenIn
<1>8. ProvenPayments'
    <2>1. \A x \in DOMAIN bindings' : bindings'[x].verified => ProvenIn(proved', x, bindings'[x].wallet)
        BY <1>1, <1>3, <1>4, <1>7 DEF ProvenPayments
    <2>2. \A k \in DOMAIN intents : /\ k[1] \in DOMAIN bindings
                                    /\ bindings'[k[1]].epoch = bindings[k[1]].epoch
                                    /\ bindings'[k[1]].wallet = bindings[k[1]].wallet
        BY <1>1, <1>2, <1>3, <1>4 DEF D!TypeOK
    <2>3. QED BY <1>1, <1>2, <1>7, <2>1, <2>2 DEF ProvenPayments
<1>9. QED
    BY <1>6, <1>8 DEF DisbursementsInv

\* create_intent pays the wallet of the current epoch.
LEMMA DisbursementsInvCreate ==
    ASSUME DisbursementsInv, UNCHANGED now, NEW caller, NEW r \in Payees, NEW n \in Installments,
           NEW amount \in PaymentAmounts, D!CreateIntent(caller, r, n, amount)
    PROVE  DisbursementsInv'
<1> DEFINE k1 == <<r, n>>
           b == bindings[r]
           new == [wallet |-> b.wallet, amount |-> amount,
                   wallet_epoch |-> b.epoch, status |-> "Pending"]
<1>1. D!TypeOK /\ ProvenPayments
    BY DEF DisbursementsInv
<1>2. /\ r \in DOMAIN bindings /\ b \in D!PayoutWallet /\ amount \in Nat
      /\ k1 \notin DOMAIN intents /\ intents' = D!Set(intents, k1, new)
      /\ UNCHANGED <<creators, walletKey, bindings, challenges, proved>>
    BY <1>1, PayoutsConstants DEF D!CreateIntent, D!Has, D!TypeOK
<1>3. /\ new \in D!DisbursementIntent /\ new.status = "Pending"
      /\ new.wallet = b.wallet /\ new.wallet_epoch = b.epoch /\ b.epoch \in Nat
    <2> HIDE DEF b
    <2>1. QED BY <1>2 DEF D!DisbursementIntent, D!IntentStatus, D!PayoutWallet
<1>4. k1 \in Payees \X Installments /\ k1[1] = r
    OBVIOUS
<1> HIDE DEF k1, new
<1>5. /\ DOMAIN intents' = DOMAIN intents \cup {k1} /\ intents'[k1] = new
      /\ \A x \in DOMAIN intents : x # k1 /\ intents'[x] = intents[x]
    BY <1>2 DEF D!Set
<1>6. D!TypeOK'
    BY <1>1, <1>2, <1>3, <1>4, <1>5 DEF D!TypeOK
<1>7. proved' = proved
    BY <1>2
<1>8. ProvenPayments'
    <2>1. new.wallet_epoch <= b.epoch
        BY <1>3
    <2>2. QED
        BY <1>1, <1>2, <1>3, <1>4, <1>5, <1>7, <2>1 DEF ProvenPayments
<1>9. QED
    BY <1>6, <1>8 DEF DisbursementsInv

\* record_execution and cancel_intent end a pending intent; only one to the proven
\* wallet of the current epoch is executed.
LEMMA DisbursementsInvEnd ==
    ASSUME DisbursementsInv, UNCHANGED now, NEW k \in DOMAIN intents,
           NEW status \in {"Executed", "Cancelled"},
           status = "Executed" => D!IsIntentExecutable(k),
           intents' = [intents EXCEPT ![k].status = status],
           UNCHANGED <<creators, walletKey, bindings, challenges, proved>>
    PROVE  DisbursementsInv'
<1> DEFINE new == [intents[k] EXCEPT !.status = status]
<1>1. D!TypeOK /\ ProvenPayments
    BY DEF DisbursementsInv
<1>2. intents[k] \in D!DisbursementIntent /\ k[1] \in DOMAIN bindings
    BY <1>1 DEF D!TypeOK
<1>3. /\ new \in D!DisbursementIntent /\ new.status = status
      /\ new.wallet = intents[k].wallet /\ new.wallet_epoch = intents[k].wallet_epoch
      /\ intents' = [intents EXCEPT ![k] = new]
    BY <1>2 DEF D!DisbursementIntent, D!IntentStatus
<1> HIDE DEF new
<1>4. /\ DOMAIN intents' = DOMAIN intents /\ intents'[k] = new
      /\ \A x \in DOMAIN intents : x # k => intents'[x] = intents[x]
    BY <1>3
<1>5. D!TypeOK'
    BY <1>1, <1>3, <1>4 DEF D!TypeOK
<1>6. proved' = proved
    OBVIOUS
<1>7. status = "Executed" => ProvenIn(proved, k[1], intents[k].wallet)
    BY <1>1, <1>2 DEF D!IsIntentExecutable, ProvenPayments
<1>8. ProvenPayments'
    BY <1>1, <1>3, <1>4, <1>6, <1>7 DEF ProvenPayments
<1>9. QED
    BY <1>5, <1>8 DEF DisbursementsInv

\* Every call of the disbursements contract keeps its invariant.
LEMMA DisbursementsInvNext ==
    ASSUME DisbursementsInv, D!Next, UNCHANGED now, now \in Nat
    PROVE  DisbursementsInv'
<1>0. D!TypeOK
    BY DEF DisbursementsInv
<1>1. CASE \E caller \in Creators \cup {Admin}, c \in Creators :
               D!AddCreator(caller, c) \/ D!RemoveCreator(caller, c)
    <2>1. D!TypeOK' /\ UNCHANGED <<bindings, intents, proved>>
        BY <1>0, <1>1 DEF D!AddCreator, D!RemoveCreator, D!TypeOK
    <2>2. QED BY <2>1, DisbursementsInvOther
<1>2. CASE \E caller \in Creators \cup {Admin}, r \in Payees, n \in Installments,
              amount \in PaymentAmounts : D!CreateIntent(caller, r, n, amount)
    BY <1>2, DisbursementsInvCreate
<1>3. CASE \E caller \in Creators \cup {Admin}, k \in DOMAIN intents : D!RecordExecution(caller, k)
    BY <1>3, DisbursementsInvEnd DEF D!RecordExecution
<1>4. CASE \E caller \in Creators \cup {Admin}, k \in DOMAIN intents : D!CancelIntent(caller, k)
    BY <1>4, DisbursementsInvEnd DEF D!CancelIntent
<1>5. CASE \E w \in Wallets, key \in PublicKeys : D!RegisterWalletKey(w, key)
    <2>1. PICK w \in Wallets, key \in PublicKeys : D!RegisterWalletKey(w, key)
        BY <1>5
    <2>2. /\ DOMAIN walletKey' = DOMAIN walletKey \cup {w} /\ walletKey'[w] = key
          /\ \A x \in DOMAIN walletKey : x # w => walletKey'[x] = walletKey[x]
          /\ UNCHANGED <<creators, bindings, challenges, intents, proved>>
        BY <2>1 DEF D!RegisterWalletKey, D!Set
    <2>3. D!TypeOK'
        BY <1>0, <2>2 DEF D!TypeOK
    <2>4. QED BY <2>2, <2>3, DisbursementsInvOther
<1>6. CASE \E r \in Payees, w \in Wallets : D!SetPayoutWallet(r, w)
    BY <1>6, DisbursementsInvSetWallet
<1>7. CASE \E r \in Payees, w \in Wallets, ttl \in Ttls : D!OpenWalletChallenge(r, w, ttl)
    <2>1. PICK r \in Payees, w \in Wallets, ttl \in Ttls : D!OpenWalletChallenge(r, w, ttl)
        BY <1>7
    <2> DEFINE c == [recipient |-> r, wallet |-> w, expires_at |-> now + ttl, used |-> FALSE]
    <2>2. /\ ttl \in Nat /\ challenges' = Append(challenges, c)
          /\ UNCHANGED <<creators, walletKey, bindings, intents, proved>>
        BY <2>1, PayoutsConstants DEF D!OpenWalletChallenge
    <2>3. c \in D!WalletChallenge
        BY <2>2 DEF D!WalletChallenge
    <2> HIDE DEF c
    <2>4. challenges' \in Seq(D!WalletChallenge)
        BY <1>0, <2>2, <2>3, AppendProperties DEF D!TypeOK
    <2>5. D!TypeOK'
        BY <1>0, <2>2, <2>4 DEF D!TypeOK
    <2>6. QED BY <2>2, <2>5, DisbursementsInvOther
<1>8. CASE \E i \in DOMAIN challenges, key \in PublicKeys : D!ConfirmWalletChallenge(i, key)
    BY <1>8, DisbursementsInvConfirm
<1>9. QED
    BY <1>1, <1>2, <1>3, <1>4, <1>5, <1>6, <1>7, <1>8 DEF D!Next

\* The passing of time and the calls of the other contracts keep the invariant.
LEMMA DisbursementsInvStutter ==
    ASSUME DisbursementsInv, UNCHANGED disbursementVars, now' \in Nat
    PROVE  DisbursementsInv'
BY DEF disbursementVars, DisbursementsInv, D!TypeOK, ProvenPayments

-----------------------------------------------------------------------------
(* scholarship-outbox: settlement reconciliation *)

\* The intents that raised an alert and are still in the table.
Alarming ==
    {id \in DOMAIN settlements : S!IsAlerting(settlements[id].state) \/ settlements[id].resolved}

\* What one intent says about itself, at ledger l.
VerdictSound(s, l) ==
    /\ s.attempts > 0 => /\ s.attempts = 1 /\ s.observed_ledger > 0
                         /\ s.observed_ledger + s.required_finality <= l
    /\ s.state = "Reconciled" /\ ~s.resolved =>
           s.attempts = 1 /\ s.observed_amount = s.expected_amount
    /\ s.state = "Mismatched" => s.attempts = 1 /\ s.observed_amount # s.expected_amount
    /\ s.state \in {"Pending", "Expired"} => s.attempts = 0 /\ ~s.resolved

\* The three parts of VerdictsSound.
TableExact == trackedIntents = Cardinality(DOMAIN settlements)
AlertsCounted == alertedIntents >= Cardinality(Alarming)
AllVerdictsSound == \A id \in DOMAIN settlements : VerdictSound(settlements[id], ledger)

\* They are the property the run checks.
LEMMA VerdictParts == S!VerdictsSound <=> TableExact /\ AlertsCounted /\ AllVerdictsSound
<1>1. AllVerdictsSound <=>
        \A id \in DOMAIN settlements :
         LET s == settlements[id] IN
         /\ s.attempts > 0 => /\ s.attempts = 1 /\ s.observed_ledger > 0
                              /\ s.observed_ledger + s.required_finality <= ledger
         /\ s.state = "Reconciled" /\ ~s.resolved =>
                s.attempts = 1 /\ s.observed_amount = s.expected_amount
         /\ s.state = "Mismatched" => s.attempts = 1 /\ s.observed_amount # s.expected_amount
         /\ s.state \in {"Pending", "Expired"} => s.attempts = 0 /\ ~s.resolved
    BY DEF AllVerdictsSound, VerdictSound
<1>2. QED
    BY <1>1, SameCardinality, Zenon DEF S!VerdictsSound, TableExact, AlertsCounted, Alarming

\* The inductive invariant of the settlement table.
SettlementInv ==
    /\ S!TypeOK /\ IsFiniteSet(DOMAIN settlements)
    /\ TableExact /\ AlertsCounted /\ AllVerdictsSound

\* The alarming intents are finitely many.
LEMMA AlarmingFinite ==
    ASSUME IsFiniteSet(DOMAIN settlements)
    PROVE  IsFiniteSet(Alarming) /\ Cardinality(Alarming) \in Nat
<1>1. Alarming \subseteq DOMAIN settlements
    BY DEF Alarming
<1>2. QED
    BY <1>1, FS_Subset, FS_CardinalityType

\* initialize leaves an empty table.
LEMMA SettlementInvInit == ASSUME ledger = 1, S!Init PROVE SettlementInv
<1>1. DOMAIN settlements = {} /\ trackedIntents = 0 /\ alertedIntents = 0
    BY DEF S!Init, S!Empty
<1>2. Alarming = {}
    BY <1>1 DEF Alarming
<1>3. IsFiniteSet(DOMAIN settlements) /\ Cardinality(DOMAIN settlements) = 0 /\ Cardinality(Alarming) = 0
    BY <1>1, <1>2, FS_EmptySet
<1>4. S!TypeOK
    BY <1>1, PayoutsConstants DEF S!TypeOK
<1>5. QED
    BY <1>1, <1>3, <1>4 DEF SettlementInv, TableExact, AlertsCounted, AllVerdictsSound

\* open_settlement puts a pending intent into a free slot.
LEMMA SettlementInvOpen ==
    ASSUME SettlementInv, UNCHANGED ledger, NEW caller, NEW id \in IntentIds,
           NEW amount \in SettlementAmounts, NEW finality \in Finalities,
           S!OpenSettlement(caller, id, amount, finality)
    PROVE  SettlementInv' /\ S!VerdictStep
<1> DEFINE new == [expected_amount |-> amount, required_finality |-> finality,
                   state |-> "Pending", observed_tx_hash |-> NoTx, observed_ledger |-> 0,
                   observed_amount |-> 0, attempts |-> 0, resolved |-> FALSE]
<1>1. /\ S!TypeOK /\ IsFiniteSet(DOMAIN settlements) /\ TableExact /\ AlertsCounted /\ AllVerdictsSound
    BY DEF SettlementInv
<1>2. /\ id \notin DOMAIN settlements /\ trackedIntents < MAX_TRACKED_INTENTS
      /\ settlements' = S!Set(settlements, id, new) /\ trackedIntents' = trackedIntents + 1
      /\ UNCHANGED alertedIntents /\ finality \in Nat
    BY PayoutsConstants DEF S!OpenSettlement, S!Has, S!SlotFree
<1>3. /\ new \in S!SettlementIntent /\ VerdictSound(new, ledger)
      /\ ~S!IsAlerting(new.state) /\ ~new.resolved
    BY <1>2, PayoutsConstants
    DEF S!SettlementIntent, S!SettlementState, VerdictSound, S!IsAlerting
<1> HIDE DEF new
<1>4. /\ DOMAIN settlements' = DOMAIN settlements \cup {id} /\ settlements'[id] = new
      /\ \A x \in DOMAIN settlements : x # id /\ settlements'[x] = settlements[x]
    BY <1>2 DEF S!Set
<1>5. S!TypeOK'
    BY <1>1, <1>2, <1>3, <1>4, PayoutsConstants DEF S!TypeOK
<1>6. TableExact' /\ IsFiniteSet(DOMAIN settlements)'
    <2>1. IsFiniteSet(DOMAIN settlements') /\ Cardinality(DOMAIN settlements') = Cardinality(DOMAIN settlements) + 1
        BY <1>1, <1>2, <1>4, FS_AddElement
    <2>2. QED BY <1>1, <1>2, <2>1 DEF TableExact
<1>7. Alarming' = Alarming
    BY <1>3, <1>4 DEF Alarming
<1>8. AlertsCounted' /\ AllVerdictsSound'
    BY <1>1, <1>2, <1>3, <1>4, <1>7 DEF AlertsCounted, AllVerdictsSound
<1>9. S!VerdictStep
    BY <1>4 DEF S!VerdictStep
<1>10. QED
    BY <1>5, <1>6, <1>8, <1>9 DEF SettlementInv

\* What a call may do to one intent: keep its observation, keep a verdict, and
\* leave an alarming state only by a recorded resolution.
VerdictKept(s, t) ==
    /\ s.observed_ledger # 0 => /\ t.observed_tx_hash = s.observed_tx_hash
                                /\ t.observed_ledger = s.observed_ledger
    /\ s.state = "Reconciled" => t = s
    /\ S!IsAlerting(s.state) =>
           t = s \/ t = [s EXCEPT !.state = "Reconciled", !.resolved = TRUE]

RaisesAlert(s) == S!IsAlerting(s.state) \/ s.resolved

\* A call that writes one intent keeps the table exact.
LEMMA SettlementInvWrite ==
    ASSUME SettlementInv, UNCHANGED <<ledger, trackedIntents>>, NEW id \in DOMAIN settlements,
           NEW t \in S!SettlementIntent, settlements' = [settlements EXCEPT ![id] = t],
           VerdictSound(t, ledger), VerdictKept(settlements[id], t),
           \/ alertedIntents' = alertedIntents + 1
           \/ alertedIntents' = alertedIntents /\ (RaisesAlert(t) => RaisesAlert(settlements[id]))
    PROVE  SettlementInv' /\ S!VerdictStep
<1>1. S!TypeOK /\ IsFiniteSet(DOMAIN settlements) /\ TableExact /\ AlertsCounted /\ AllVerdictsSound
    BY DEF SettlementInv
<1>2. /\ DOMAIN settlements' = DOMAIN settlements /\ settlements'[id] = t
      /\ \A x \in DOMAIN settlements : x # id => settlements'[x] = settlements[x]
    OBVIOUS
<1>3. S!TypeOK'
    BY <1>1, <1>2 DEF S!TypeOK
<1>4. TableExact' /\ IsFiniteSet(DOMAIN settlements)' /\ AllVerdictsSound'
    BY <1>1, <1>2 DEF TableExact, AllVerdictsSound
<1>5. AlertsCounted'
    <2>1. /\ IsFiniteSet(Alarming) /\ Cardinality(Alarming) \in Nat
          /\ alertedIntents \in Nat /\ alertedIntents >= Cardinality(Alarming)
        BY <1>1, AlarmingFinite DEF AlertsCounted, S!TypeOK
    <2>2. CASE alertedIntents' = alertedIntents + 1
        <3>1. Alarming' \subseteq Alarming \cup {id}
            BY <1>2 DEF Alarming
        <3>2. /\ IsFiniteSet(Alarming \cup {id})
              /\ Cardinality(Alarming \cup {id}) \in Nat
              /\ Cardinality(Alarming \cup {id}) <= Cardinality(Alarming) + 1
            <4>1. /\ IsFiniteSet(Alarming \cup {id})
                  /\ Cardinality(Alarming \cup {id}) =
                         IF id \in Alarming THEN Cardinality(Alarming) ELSE Cardinality(Alarming) + 1
                BY <2>1, FS_AddElement, Zenon
            <4> DEFINE c == Cardinality(Alarming)
                       d == Cardinality(Alarming \cup {id})
            <4>2. c \in Nat /\ (d = c \/ d = c + 1)
                BY <2>1, <4>1
            <4> HIDE DEF c, d
            <4>3. d \in Nat /\ d <= c + 1
                BY <4>2
            <4>4. QED BY <4>1, <4>3 DEF c, d
        <3>3. IsFiniteSet(Alarming') /\ Cardinality(Alarming') <= Cardinality(Alarming \cup {id})
            BY <3>1, <3>2, FS_Subset
        <3>4. Cardinality(Alarming') \in Nat
            BY <3>3, FS_CardinalityType
        <3>5. alertedIntents' >= Cardinality(Alarming')
            BY <2>1, <2>2, <3>2, <3>3, <3>4
        <3>6. QED BY <3>5 DEF AlertsCounted
    <2>3. CASE alertedIntents' = alertedIntents /\ (RaisesAlert(t) => RaisesAlert(settlements[id]))
        <3>1. Alarming' \subseteq Alarming
            BY <1>2, <2>3 DEF Alarming, RaisesAlert
        <3>2. IsFiniteSet(Alarming') /\ Cardinality(Alarming') <= Cardinality(Alarming)
            BY <2>1, <3>1, FS_Subset
        <3>3. Cardinality(Alarming') \in Nat
            BY <3>2, FS_CardinalityType
        <3>4. alertedIntents' >= Cardinality(Alarming')
            BY <2>1, <2>3, <3>2, <3>3
        <3>5. QED BY <3>4 DEF AlertsCounted
    <2>4. QED BY <2>2, <2>3
<1>6. S!VerdictStep
    <2> SUFFICES ASSUME NEW x \in DOMAIN settlements
                 PROVE  /\ x \in DOMAIN settlements'
                        /\ VerdictKept(settlements[x], settlements'[x])
        BY DEF S!VerdictStep, VerdictKept
    <2>1. CASE x = id
        BY <1>2, <2>1
    <2>2. CASE x # id
        BY <1>2, <2>2 DEF VerdictKept
    <2>3. QED BY <2>1, <2>2
<1>7. QED
    BY <1>3, <1>4, <1>5, <1>6 DEF SettlementInv

\* archive_settlement takes a settled intent out of the table.
LEMMA SettlementInvArchive ==
    ASSUME SettlementInv, UNCHANGED ledger, NEW caller, NEW id \in DOMAIN settlements,
           S!ArchiveSettlement(caller, id)
    PROVE  SettlementInv' /\ S!VerdictStep
<1>1. S!TypeOK /\ IsFiniteSet(DOMAIN settlements) /\ TableExact /\ AlertsCounted /\ AllVerdictsSound
    BY DEF SettlementInv
<1>2. /\ settlements[id].state = "Reconciled"
      /\ settlements' = S!Remove(settlements, {id}) /\ UNCHANGED alertedIntents
      /\ trackedIntents' = IF trackedIntents > 0 THEN trackedIntents - 1 ELSE 0
    BY DEF S!ArchiveSettlement, S!Archivable
<1>3. /\ DOMAIN settlements' = DOMAIN settlements \ {id}
      /\ \A x \in DOMAIN settlements' : settlements'[x] = settlements[x]
    BY <1>2 DEF S!Remove
<1>4. TableExact' /\ IsFiniteSet(DOMAIN settlements)' /\ trackedIntents' \in 0..MAX_TRACKED_INTENTS
    <2>1. /\ IsFiniteSet(DOMAIN settlements')
          /\ Cardinality(DOMAIN settlements') = Cardinality(DOMAIN settlements) - 1
        BY <1>1, <1>3, FS_RemoveElement
    <2>2. Cardinality(DOMAIN settlements) \in Nat /\ Cardinality(DOMAIN settlements) # 0
        BY <1>1, FS_CardinalityType, FS_EmptySet
    <2>3. QED
        BY <1>1, <1>2, <2>1, <2>2, PayoutsConstants DEF TableExact, S!TypeOK
<1>5. S!TypeOK'
    BY <1>1, <1>2, <1>3, <1>4 DEF S!TypeOK
<1>6. AlertsCounted'
    <2>1. Alarming' \subseteq Alarming
        BY <1>3 DEF Alarming
    <2>2. IsFiniteSet(Alarming) /\ Cardinality(Alarming) \in Nat /\ alertedIntents \in Nat
        BY <1>1, AlarmingFinite DEF S!TypeOK
    <2>3. IsFiniteSet(Alarming') /\ Cardinality(Alarming') <= Cardinality(Alarming)
        BY <2>1, <2>2, FS_Subset
    <2>4. Cardinality(Alarming') \in Nat
        BY <2>3, FS_CardinalityType
    <2>5. QED BY <1>1, <1>2, <2>2, <2>3, <2>4 DEF AlertsCounted
<1>7. AllVerdictsSound'
    BY <1>1, <1>3 DEF AllVerdictsSound
<1>8. S!VerdictStep
    BY <1>2, <1>3 DEF S!VerdictStep
<1>9. QED
    BY <1>4, <1>5, <1>6, <1>7, <1>8 DEF SettlementInv

\* Every call of the settlement part keeps its invariant and every verdict.
LEMMA SettlementInvNext ==
    ASSUME SettlementInv, S!Next, UNCHANGED ledger
    PROVE  SettlementInv' /\ S!VerdictStep
<1>0. /\ ledger \in Nat /\ alertedIntents \in Nat
      /\ \A id \in DOMAIN settlements :
            settlements[id] \in S!SettlementIntent /\ VerdictSound(settlements[id], ledger)
    BY DEF SettlementInv, S!TypeOK, AllVerdictsSound
<1>1. CASE \E caller \in Callers, id \in IntentIds, amount \in SettlementAmounts,
              finality \in Finalities : S!OpenSettlement(caller, id, amount, finality)
    BY <1>1, SettlementInvOpen
<1>2. ASSUME NEW caller, NEW id \in DOMAIN settlements, NEW tx \in TxHashes, NEW l,
             S!ObserveSettlement(caller, id, tx, l)
      PROVE  SettlementInv' /\ S!VerdictStep
    <2> DEFINE s == settlements[id]
               u == [s EXCEPT !.observed_tx_hash = tx]
               t == [u EXCEPT !.observed_ledger = l]
    <2>1. /\ s.state = "Pending" /\ s.observed_ledger = 0 /\ l \in Nat
          /\ settlements' = [settlements EXCEPT ![id] = t]
          /\ UNCHANGED <<trackedIntents, alertedIntents>>
        <3>1. /\ s.state = "Pending" /\ s.observed_ledger = 0 /\ l \in 1..ledger
              /\ UNCHANGED <<trackedIntents, alertedIntents>>
            BY <1>2 DEF S!ObserveSettlement, S!Unobserved
        <3>2. settlements' = [settlements EXCEPT ![id] = t]
            BY <1>2 DEF S!ObserveSettlement
        <3>3. l \in Nat
            BY <1>0, <3>1
        <3>4. QED BY <3>1, <3>2, <3>3
    <2>2. s \in S!SettlementIntent /\ VerdictSound(s, ledger)
        BY <1>0
    <2> HIDE DEF s
    <2>3. /\ u \in S!SettlementIntent /\ u.state = s.state /\ u.attempts = s.attempts
          /\ u.resolved = s.resolved
        BY <2>2 DEF S!SettlementIntent
    <2> HIDE DEF u
    <2>4. /\ t \in S!SettlementIntent /\ t.state = s.state /\ t.attempts = s.attempts
          /\ t.resolved = s.resolved
        BY <2>1, <2>3 DEF S!SettlementIntent
    <2> HIDE DEF t
    <2>5. VerdictSound(t, ledger) /\ VerdictKept(s, t) /\ (RaisesAlert(t) => RaisesAlert(s))
        BY <2>1, <2>2, <2>4 DEF VerdictSound, VerdictKept, RaisesAlert, S!IsAlerting
    <2>6. QED BY <2>1, <2>4, <2>5, SettlementInvWrite DEF s
<1>3. ASSUME NEW caller, NEW id \in DOMAIN settlements, NEW amount \in SettlementAmounts,
             S!ReconcileSettlement(caller, id, amount)
      PROVE  SettlementInv' /\ S!VerdictStep
    <2> DEFINE s == settlements[id]
               v == IF amount = s.expected_amount THEN "Reconciled" ELSE "Mismatched"
               u == [s EXCEPT !.attempts = @ + 1]
               w == [u EXCEPT !.observed_amount = amount]
               t == [w EXCEPT !.state = v]
    <2>1. /\ s.state = "Pending" /\ S!Final(s)
          /\ settlements' = [settlements EXCEPT ![id] = t]
          /\ \/ amount = s.expected_amount /\ alertedIntents' = alertedIntents
             \/ amount # s.expected_amount /\ alertedIntents' = alertedIntents + 1
          /\ UNCHANGED trackedIntents
        BY <1>3 DEF S!ReconcileSettlement, S!RaiseAlert
    <2>2. s \in S!SettlementIntent /\ VerdictSound(s, ledger) /\ amount \in Int
        BY <1>0, PayoutsConstants
    <2> HIDE DEF s
    <2>3. /\ u \in S!SettlementIntent /\ u.attempts = s.attempts + 1 /\ u.resolved = s.resolved
          /\ u.observed_ledger = s.observed_ledger /\ u.required_finality = s.required_finality
          /\ u.expected_amount = s.expected_amount /\ u.observed_tx_hash = s.observed_tx_hash
        BY <2>2 DEF S!SettlementIntent
    <2> HIDE DEF u
    <2>4. /\ w \in S!SettlementIntent /\ w.attempts = s.attempts + 1 /\ w.resolved = s.resolved
          /\ w.observed_ledger = s.observed_ledger /\ w.required_finality = s.required_finality
          /\ w.expected_amount = s.expected_amount /\ w.observed_tx_hash = s.observed_tx_hash
          /\ w.observed_amount = amount
        BY <2>2, <2>3 DEF S!SettlementIntent
    <2> HIDE DEF w
    <2>5. /\ t \in S!SettlementIntent /\ t.attempts = s.attempts + 1 /\ t.resolved = s.resolved
          /\ t.observed_ledger = s.observed_ledger /\ t.required_finality = s.required_finality
          /\ t.expected_amount = s.expected_amount /\ t.observed_tx_hash = s.observed_tx_hash
          /\ t.observed_amount = amount /\ t.state = v
        BY <2>4 DEF S!SettlementIntent, S!SettlementState
    <2> HIDE DEF t
    <2>6. VerdictSound(t, ledger) /\ VerdictKept(s, t)
        <3>1. s.attempts = 0 /\ ~s.resolved /\ s.observed_ledger # 0
              /\ s.observed_ledger \in Nat /\ s.required_finality \in Nat
            BY <2>1, <2>2 DEF VerdictSound, S!Final, S!SettlementIntent
        <3>2. s.observed_ledger + s.required_finality <= ledger
            BY <1>0, <2>1, <3>1 DEF S!Final
        <3>3. QED
            BY <2>1, <2>5, <3>1, <3>2 DEF VerdictSound, VerdictKept, S!IsAlerting
    <2>7. alertedIntents' = alertedIntents => (RaisesAlert(t) => RaisesAlert(s))
        BY <1>0, <2>1, <2>5 DEF RaisesAlert, S!IsAlerting
    <2>8. QED BY <2>1, <2>5, <2>6, <2>7, SettlementInvWrite DEF s
<1>4. ASSUME NEW caller, NEW id \in DOMAIN settlements, S!ExpireSettlement(caller, id)
      PROVE  SettlementInv' /\ S!VerdictStep
    <2> DEFINE s == settlements[id]
               t == [s EXCEPT !.state = "Expired"]
    <2>1. /\ s.state = "Pending" /\ settlements' = [settlements EXCEPT ![id] = t]
          /\ alertedIntents' = alertedIntents + 1 /\ UNCHANGED trackedIntents
        BY <1>4 DEF S!ExpireSettlement, S!RaiseAlert
    <2>2. s \in S!SettlementIntent /\ VerdictSound(s, ledger)
        BY <1>0
    <2> HIDE DEF s
    <2>3. /\ t \in S!SettlementIntent /\ t.state = "Expired" /\ t.attempts = s.attempts
          /\ t.resolved = s.resolved /\ t.observed_ledger = s.observed_ledger
          /\ t.observed_tx_hash = s.observed_tx_hash
        BY <2>2 DEF S!SettlementIntent, S!SettlementState
    <2> HIDE DEF t
    <2>4. VerdictSound(t, ledger) /\ VerdictKept(s, t)
        BY <2>1, <2>2, <2>3 DEF VerdictSound, VerdictKept, S!IsAlerting
    <2>5. QED BY <2>1, <2>3, <2>4, SettlementInvWrite DEF s
<1>5. ASSUME NEW caller, NEW id \in DOMAIN settlements, S!ResolveSettlement(caller, id)
      PROVE  SettlementInv' /\ S!VerdictStep
    <2> DEFINE s == settlements[id]
               u == [s EXCEPT !.state = "Reconciled"]
               t == [u EXCEPT !.resolved = TRUE]
    <2>1. /\ S!IsAlerting(s.state) /\ settlements' = [settlements EXCEPT ![id] = t]
          /\ alertedIntents' = alertedIntents /\ UNCHANGED trackedIntents
        BY <1>5 DEF S!ResolveSettlement
    <2>2. s \in S!SettlementIntent /\ VerdictSound(s, ledger)
        BY <1>0
    <2>3. t = [s EXCEPT !.state = "Reconciled", !.resolved = TRUE]
        OBVIOUS
    <2> HIDE DEF s
    <2>4. /\ u \in S!SettlementIntent /\ u.state = "Reconciled" /\ u.attempts = s.attempts
          /\ u.observed_ledger = s.observed_ledger /\ u.required_finality = s.required_finality
          /\ u.observed_tx_hash = s.observed_tx_hash
        BY <2>2 DEF S!SettlementIntent, S!SettlementState
    <2> HIDE DEF u
    <2>5. /\ t \in S!SettlementIntent /\ t.state = "Reconciled" /\ t.attempts = s.attempts
          /\ t.observed_ledger = s.observed_ledger /\ t.required_finality = s.required_finality
          /\ t.observed_tx_hash = s.observed_tx_hash /\ t.resolved = TRUE
        BY <2>4 DEF S!SettlementIntent
    <2> HIDE DEF t
    <2>6. VerdictSound(t, ledger) /\ (RaisesAlert(t) => RaisesAlert(s))
        BY <2>1, <2>2, <2>5 DEF VerdictSound, RaisesAlert, S!IsAlerting
    <2>7. VerdictKept(s, t)
        BY <2>1, <2>3, <2>5 DEF VerdictKept, S!IsAlerting
    <2>8. QED BY <2>1, <2>5, <2>6, <2>7, SettlementInvWrite DEF s
<1>6. CASE \E caller \in Callers, id \in DOMAIN settlements : S!ArchiveSettlement(caller, id)
    BY <1>6, SettlementInvArchive
<1>7. QED
    BY <1>1, <1>2, <1>3, <1>4, <1>5, <1>6 DEF S!Next

\* Ledgers close, and the calls of the other contracts leave the table alone.
LEMMA SettlementInvStutter ==
    ASSUME SettlementInv, UNCHANGED settlementVars, ledger' = ledger \/ ledger' = ledger + 1
    PROVE  SettlementInv' /\ S!VerdictStep
<1>1. ledger \in Nat /\ ledger' \in Nat /\ ledger <= ledger'
    BY DEF SettlementInv, S!TypeOK
<1>2. Alarming' = Alarming
    BY DEF Alarming, settlementVars
<1>3. S!TypeOK' /\ IsFiniteSet(DOMAIN settlements)' /\ TableExact' /\ AlertsCounted'
    BY <1>1, <1>2 DEF SettlementInv, S!TypeOK, TableExact, AlertsCounted, settlementVars
<1>4. AllVerdictsSound'
    <2> SUFFICES ASSUME NEW id \in DOMAIN settlements
                 PROVE  VerdictSound(settlements[id], ledger')
        BY DEF AllVerdictsSound, settlementVars
    <2>1. VerdictSound(settlements[id], ledger) /\ settlements[id] \in S!SettlementIntent
        BY DEF SettlementInv, AllVerdictsSound, S!TypeOK
    <2>2. QED BY <1>1, <2>1 DEF VerdictSound, S!SettlementIntent
<1>5. S!VerdictStep
    BY DEF S!VerdictStep, settlementVars
<1>6. QED
    BY <1>3, <1>4, <1>5 DEF SettlementInv

-----------------------------------------------------------------------------
(* scholarship-milestones: the arithmetic of a schedule *)

\* The contracts add up with the same Sum as this module.
LEMMA SameSum == ASSUME NEW f, NEW n PROVE M!Sum(f, n) = Sum(f, n)
BY DEF M!Sum, Sum

\* A rounded share is never more than the exact one.
LEMMA ShareBound ==
    ASSUME NEW total \in Nat, NEW bps \in Nat
    PROVE  M!Share(total, bps) \in Nat /\ 10000 * M!Share(total, bps) <= total * bps
<1>1. total * bps \in Nat
    OBVIOUS
<1>2. \A x \in Nat : (x \div 10000) \in Nat /\ 10000 * (x \div 10000) <= x
    OBVIOUS
<1>3. QED
    BY <1>1, <1>2 DEF M!Share, M!BPS_DENOM

\* A rounded share is a natural number.
LEMMA ShareNat == \A total, bps \in Nat : M!Share(total, bps) \in Nat
BY ShareBound

\* The rounded shares of a list of percentages are together not more than the
\* share of their sum.
LEMMA SharesBound ==
    ASSUME NEW total \in Nat, NEW n \in Nat, NEW b, NEW sh,
           \A i \in 1..n : b[i] \in Nat /\ sh[i] = M!Share(total, b[i])
    PROVE  /\ Sum(sh, n) \in Nat /\ Sum(b, n) \in Nat
           /\ 10000 * Sum(sh, n) <= total * Sum(b, n)
<1> DEFINE T == {m \in Nat : m <= n =>
                   /\ Sum(sh, m) \in Nat /\ Sum(b, m) \in Nat
                   /\ 10000 * Sum(sh, m) <= total * Sum(b, m)}
<1>1. 0 \in T
    BY SumZero
<1>2. ASSUME NEW m \in Nat, m \in T PROVE m + 1 \in T
    <2> SUFFICES ASSUME m + 1 <= n
                 PROVE  /\ Sum(sh, m + 1) \in Nat /\ Sum(b, m + 1) \in Nat
                        /\ 10000 * Sum(sh, m + 1) <= total * Sum(b, m + 1)
        OBVIOUS
    <2> DEFINE x == Sum(sh, m)
               y == Sum(b, m)
               u == sh[m + 1]
               v == b[m + 1]
    <2>1. x \in Nat /\ y \in Nat /\ 10000 * x <= total * y
        BY <1>2
    <2>2. v \in Nat /\ u = M!Share(total, v)
        OBVIOUS
    <2>4. Sum(sh, m + 1) = x + u /\ Sum(b, m + 1) = y + v
        BY SumSucc
    <2> HIDE DEF x, y, u, v
    <2>3. u \in Nat /\ 10000 * u <= total * v
        BY <2>2, ShareBound
    <2>5. total * (y + v) = total * y + total * v /\ total * y \in Nat /\ total * v \in Nat
        BY <2>1, <2>2
    <2>6. 10000 * (x + u) <= total * (y + v)
        BY <2>1, <2>3, <2>5
    <2>7. QED BY <2>1, <2>2, <2>3, <2>4, <2>6
<1>3. Nat \subseteq T
    <2> HIDE DEF T
    <2>1. QED BY <1>1, <1>2, NatSetInduction
<1>4. QED
    BY <1>3

\* sh lists the rounded shares of the percentages b, which add up to 100 %.
Rounded(total, n, b, sh) ==
    /\ total \in Nat /\ n \in Nat
    /\ \A i \in 1..n : b[i] \in Nat /\ sh[i] = M!Share(total, b[i])
    /\ Sum(b, n) = 10000

\* The rounded shares of percentages that add up to 100 % never exceed the total.
LEMMA SharesWithin ==
    ASSUME NEW total, NEW n, NEW b, NEW sh, Rounded(total, n, b, sh)
    PROVE  Sum(sh, n) \in Nat /\ Sum(sh, n) <= total
<1>1. total \in Nat /\ n \in Nat /\ Sum(b, n) = 10000
    BY DEF Rounded
<1>2. \A i \in 1..n : b[i] \in Nat /\ sh[i] = M!Share(total, b[i])
    BY DEF Rounded
<1>3. Sum(sh, n) \in Nat /\ 10000 * Sum(sh, n) <= total * Sum(b, n)
    BY <1>1, <1>2, SharesBound
<1>4. QED
    BY <1>1, <1>3

\* What callers pass is a list of percentages with due dates.
LEMMA InputList ==
    ASSUME NEW inputs \in ScheduleInputs
    PROVE  /\ Len(inputs) \in Nat /\ DOMAIN inputs = 1..Len(inputs)
           /\ \A i \in 1..Len(inputs) : inputs[i].percentage_bps \in Nat /\ inputs[i].due_at \in Nat
<1> DEFINE R == [percentage_bps : Percentages, due_at : DueDates]
<1>1. PICK n \in 0..MaxInputs : inputs \in [1..n -> R]
    BY DEF ScheduleInputs
<1>2. n \in Nat
    BY PayoutsConstants
<1>3. inputs \in Seq(R)
    <2> HIDE DEF R
    <2>1. inputs \in UNION {[1..k -> R] : k \in Nat}
        BY <1>1, <1>2
    <2>2. QED BY <2>1, SeqDef, Zenon
<1>4. Len(inputs) \in Nat /\ inputs \in [1..Len(inputs) -> R] /\ DOMAIN inputs = 1..Len(inputs)
    BY <1>3, LenProperties
<1>5. QED
    BY <1>4, PayoutsConstants

\* The amounts build_milestones gives the milestones: none is negative or below its
\* own rounded share, and they add up to the total.
LEMMA AmountsAddUp ==
    ASSUME NEW total \in Int, NEW inputs \in ScheduleInputs, M!InputsAccepted(total, inputs)
    PROVE  LET n == Len(inputs)
               am == [i \in 1..n |-> M!AmountOf(total, inputs, i)]
           IN  /\ total \in Nat
               /\ \A i \in 1..n : am[i] \in Nat /\ am[i] >= M!Share(total, inputs[i].percentage_bps)
               /\ Sum(am, n) = total
<1> DEFINE n == Len(inputs)
           m == n - 1
           am == [i \in 1..n |-> M!AmountOf(total, inputs, i)]
           b == [i \in DOMAIN inputs |-> inputs[i].percentage_bps]
           sh == [i \in 1..n |-> M!Share(total, inputs[i].percentage_bps)]
           part == [j \in 1..m |-> M!Share(total, inputs[j].percentage_bps)]
<1>1. /\ n \in Nat /\ n >= 1 /\ DOMAIN inputs = 1..n /\ total \in Nat
      /\ \A i \in 1..n : b[i] \in Nat
      /\ Sum(b, n) = 10000
    BY InputList, PayoutsConstants, SameSum DEF M!InputsAccepted, M!Bps, M!BPS_DENOM
<1>2. m \in Nat /\ n = m + 1 /\ 1..m \subseteq 1..n /\ n \in 1..n /\ n \notin 1..m
    BY <1>1
<1>3. \A i \in 1..n : sh[i] = M!Share(total, b[i]) /\ sh[i] \in Nat
    <2> SUFFICES ASSUME NEW i \in 1..n PROVE sh[i] = M!Share(total, b[i]) /\ sh[i] \in Nat
        OBVIOUS
    <2>1. b[i] \in Nat /\ sh[i] = M!Share(total, b[i])
        BY <1>1
    <2> HIDE DEF n, m, am, b, sh, part
    <2>0. total \in Nat
        BY <1>1
    <2>2. PICK v \in Nat : v = b[i]
        BY ONLY <2>1
    <2>3. M!Share(total, v) \in Nat
        BY ONLY <2>0, ShareNat
    <2>4. QED BY ONLY <2>1, <2>2, <2>3
<1>4. /\ \A i \in 1..m : am[i] = sh[i]
      /\ am[n] = total - Sum(part, m)
    <2>1. \A i \in 1..m : i < n /\ i \in 1..n
        BY <1>1, <1>2
    <2>2. \A i \in 1..m : am[i] = sh[i]
        BY <2>1 DEF M!AmountOf
    <2>3. ~(n < n)
        BY <1>1
    <2>4. am[n] = total - M!Sum(part, m)
        BY <1>2, <2>3 DEF M!AmountOf
    <2>5. QED BY <2>2, <2>4, SameSum
<1> HIDE DEF n, am, b, sh
<1>5. Sum(part, m) = Sum(sh, m)
    <2>1. \A i \in 1..m : part[i] = sh[i]
        BY <1>2 DEF sh
    <2> HIDE DEF part, m
    <2>2. QED BY <1>2, <2>1, SumExt
<1> HIDE DEF part, m
<1>6. Sum(sh, n) \in Nat /\ Sum(sh, n) <= total
    <2>1. Rounded(total, n, b, sh)
        BY <1>1, <1>3 DEF Rounded
    <2>2. QED BY ONLY <2>1, SharesWithin
<1>7. Sum(sh, n) = Sum(sh, m) + sh[n] /\ Sum(sh, m) \in Int /\ sh[n] \in Nat
    <2>1. Sum(sh, m + 1) = Sum(sh, m) + sh[m + 1]
        BY <1>2, SumSucc
    <2>2. \A i \in 1..m : sh[i] \in Int
        BY <1>2, <1>3
    <2>3. Sum(sh, m) \in Int
        BY <1>2, <2>2, SumType
    <2>4. QED BY <1>2, <1>3, <2>1, <2>3
<1>8. am[n] >= sh[n] /\ am[n] \in Nat
    BY <1>1, <1>4, <1>5, <1>6, <1>7
<1>9. \A i \in 1..n : am[i] \in Nat /\ am[i] >= sh[i]
    <2>1. \A i \in 1..n : i \in 1..m \/ i = n
        BY <1>1, <1>2
    <2>2. QED BY <1>2, <1>3, <1>4, <1>8, <2>1
<1>10. Sum(am, n) = total
    <2>1. Sum(am, m + 1) = Sum(am, m) + am[m + 1]
        BY <1>2, SumSucc
    <2>2. Sum(am, m) = Sum(sh, m)
        BY <1>2, <1>4, SumExt
    <2>3. QED BY <1>1, <1>2, <1>4, <1>5, <1>7, <2>1, <2>2
<1>11. QED
    BY <1>1, <1>9, <1>10 DEF n, am, sh

-----------------------------------------------------------------------------
(* scholarship-milestones: the inductive invariant *)

\* The amounts of the milestones m add up to total, and none is below its share.
AmountsExact(m, total) ==
    /\ Sum([i \in 1..Len(m) |-> m[i].amount], Len(m)) = total
    /\ \A i \in 1..Len(m) :
           m[i].amount \in Nat /\ m[i].amount >= M!Share(total, m[i].percentage_bps)

\* The released milestones are verified and form a prefix.
ReleasedInOrder(m) ==
    \A i \in 1..Len(m) :
        m[i].released => m[i].verified /\ \A j \in 1..i : m[j].released

GoodSchedule(s) ==
    /\ s \in M!MilestoneSchedule
    /\ AmountsExact(s.milestones, s.total_amount)
    /\ ReleasedInOrder(s.milestones)

\* What ReleasedStep asks of the schedule t that replaces s.
KeepsReleased(s, t) ==
    \A i \in DOMAIN s.milestones :
        s.milestones[i].released =>
            /\ t.total_amount = s.total_amount
            /\ Len(t.milestones) = Len(s.milestones)
            /\ t.milestones[i] = s.milestones[i]

MilestonesInv ==
    /\ DOMAIN schedules \subseteq ScheduledAwards
    /\ \A id \in DOMAIN schedules : GoodSchedule(schedules[id])

\* The list of milestones of a good schedule.
LEMMA MilestoneList ==
    ASSUME NEW s, GoodSchedule(s)
    PROVE  /\ s.milestones \in Seq(M!Milestone) /\ Len(s.milestones) \in Nat
           /\ DOMAIN s.milestones = 1..Len(s.milestones)
           /\ \A i \in 1..Len(s.milestones) : s.milestones[i] \in M!Milestone
           /\ s.total_amount \in Nat /\ s.version \in Nat /\ s.active \in BOOLEAN
<1>1. s \in [total_amount : Nat, version : Nat, active : BOOLEAN, milestones : Seq(M!Milestone)]
    BY DEF GoodSchedule, M!MilestoneSchedule
<1>2. /\ s.milestones \in Seq(M!Milestone)
      /\ s.total_amount \in Nat /\ s.version \in Nat /\ s.active \in BOOLEAN
    BY <1>1
<1>3. QED
    BY <1>2, LenProperties

\* Writing a good schedule under one award keeps the invariant, and the step is
\* one ReleasedStep allows when the schedule it replaces keeps its releases.
LEMMA ScheduleWrite ==
    ASSUME MilestonesInv, NEW id \in ScheduledAwards, NEW t, GoodSchedule(t),
           schedules' = [x \in DOMAIN schedules \cup {id} |->
                            IF x = id THEN t ELSE schedules[x]],
           id \in DOMAIN schedules => KeepsReleased(schedules[id], t)
    PROVE  MilestonesInv' /\ M!ReleasedStep
<1>1. /\ DOMAIN schedules' = DOMAIN schedules \cup {id}
      /\ schedules'[id] = t
      /\ \A x \in DOMAIN schedules : x # id => schedules'[x] = schedules[x]
    OBVIOUS
<1>2. MilestonesInv'
    <2>1. \A x \in DOMAIN schedules' : GoodSchedule(schedules'[x])
        BY <1>1 DEF MilestonesInv
    <2>2. DOMAIN schedules' \subseteq ScheduledAwards
        BY <1>1 DEF MilestonesInv
    <2>3. QED BY ONLY <2>1, <2>2 DEF MilestonesInv
<1>3. M!ReleasedStep
    <2> SUFFICES ASSUME NEW x \in DOMAIN schedules, NEW i \in DOMAIN schedules[x].milestones,
                        schedules[x].milestones[i].released
                 PROVE  /\ schedules[x].milestones[i].verified
                        /\ \A j \in 1..i : schedules[x].milestones[j].released
                        /\ schedules'[x].total_amount = schedules[x].total_amount
                        /\ Len(schedules'[x].milestones) = Len(schedules[x].milestones)
                        /\ schedules'[x].milestones[i] = schedules[x].milestones[i]
        BY DEF M!ReleasedStep, M!Milestones
    <2>1. GoodSchedule(schedules[x])
        BY DEF MilestonesInv
    <2>2. /\ schedules[x].milestones[i].verified
          /\ \A j \in 1..i : schedules[x].milestones[j].released
        BY <2>1, MilestoneList DEF GoodSchedule, ReleasedInOrder
    <2>3. KeepsReleased(schedules[x], schedules'[x])
        BY <1>1 DEF KeepsReleased
    <2>4. QED BY <2>2, <2>3 DEF KeepsReleased
<1>4. QED
    BY <1>2, <1>3

\* A schedule with the milestones of build_milestones is good.
LEMMA BuiltSchedule ==
    ASSUME NEW total \in Int, NEW inputs \in ScheduleInputs, M!InputsAccepted(total, inputs),
           NEW v \in Nat, NEW a \in BOOLEAN
    PROVE  GoodSchedule([total_amount |-> total, version |-> v, active |-> a,
                         milestones |-> M!BuildMilestones(total, inputs)])
<1> DEFINE n == Len(inputs)
           m == M!BuildMilestones(total, inputs)
           am == [i \in 1..n |-> M!AmountOf(total, inputs, i)]
           t == [total_amount |-> total, version |-> v, active |-> a, milestones |-> m]
<1>1. /\ n \in Nat /\ DOMAIN inputs = 1..n
      /\ \A i \in 1..n : inputs[i].percentage_bps \in Nat /\ inputs[i].due_at \in Nat
    BY InputList
<1>2. /\ total \in Nat
      /\ \A i \in 1..n : am[i] \in Nat /\ am[i] >= M!Share(total, inputs[i].percentage_bps)
      /\ Sum(am, n) = total
    BY AmountsAddUp
<1>3. \A i \in 1..n :
          m[i] = [percentage_bps |-> inputs[i].percentage_bps, amount |-> am[i],
                  due_at |-> inputs[i].due_at, verified |-> FALSE, released |-> FALSE]
    BY <1>1 DEF M!BuildMilestones
<1>4. m = [i \in 1..n |-> m[i]]
    BY <1>1 DEF M!BuildMilestones
<1> HIDE DEF m, am, n
<1>5. \A i \in 1..n : m[i] \in M!Milestone
    <2> SUFFICES ASSUME NEW i \in 1..n PROVE m[i] \in M!Milestone
        OBVIOUS
    <2>0. am[i] \in Nat
        BY ONLY <1>2, i \in 1..n, Zenon
    <2>1. am[i] \in Int /\ inputs[i].percentage_bps \in Nat /\ inputs[i].due_at \in Nat
        BY <1>1, <2>0
    <2>2. m[i] = [percentage_bps |-> inputs[i].percentage_bps, amount |-> am[i],
                  due_at |-> inputs[i].due_at, verified |-> FALSE, released |-> FALSE]
        BY <1>3
    <2>3. QED BY ONLY <2>1, <2>2 DEF M!Milestone
<1>6. m \in Seq(M!Milestone) /\ Len(m) = n
    <2>1. [i \in 1..n |-> m[i]] \in Seq(M!Milestone)
        BY <1>1, <1>5, IsASeq
    <2>2. m \in Seq(M!Milestone)
        BY <2>1, <1>4
    <2>3. DOMAIN m = 1..n
        BY <1>4
    <2>4. QED BY <1>1, <2>2, <2>3, LenProperties
<1>7. /\ \A i \in 1..n : m[i].amount = am[i] /\ m[i].percentage_bps = inputs[i].percentage_bps
      /\ \A i \in 1..n : ~m[i].released
    <2> SUFFICES ASSUME NEW i \in 1..n
                 PROVE  /\ m[i].amount = am[i] /\ m[i].percentage_bps = inputs[i].percentage_bps
                        /\ ~m[i].released
        BY Zenon
    <2>1. m[i] = [percentage_bps |-> inputs[i].percentage_bps, amount |-> am[i],
                  due_at |-> inputs[i].due_at, verified |-> FALSE, released |-> FALSE]
        BY <1>3
    <2>2. QED BY ONLY <2>1
<1>8. AmountsExact(m, total)
    <2> DEFINE g == [i \in 1..n |-> m[i].amount]
    <2>1. \A i \in 1..n : g[i] = am[i]
        BY <1>7
    <2>2. Sum(g, n) = Sum(am, n)
        <3> HIDE DEF g
        <3>1. QED BY <1>1, <2>1, SumExt
    <2>3. Sum([i \in 1..Len(m) |-> m[i].amount], Len(m)) = total
        BY <1>2, <1>6, <2>2
    <2>4. \A i \in 1..Len(m) :
              m[i].amount \in Nat /\ m[i].amount >= M!Share(total, m[i].percentage_bps)
        BY <1>2, <1>6, <1>7
    <2>5. QED BY <2>3, <2>4 DEF AmountsExact
<1>9. ReleasedInOrder(m)
    BY <1>6, <1>7 DEF ReleasedInOrder
<1>10. t \in M!MilestoneSchedule /\ t.milestones = m /\ t.total_amount = total
    BY <1>2, <1>6 DEF M!MilestoneSchedule
<1>11. GoodSchedule(t)
    <2> HIDE DEF t
    <2>1. QED BY <1>8, <1>9, <1>10 DEF GoodSchedule
<1>12. QED
    BY <1>11 DEF m

\* Writing the flags of a milestone that is not released keeps a schedule good and
\* its releases as they are, when a release is verified and next in line.
LEMMA FlagWrite ==
    ASSUME NEW s, GoodSchedule(s), NEW i \in DOMAIN s.milestones, NEW r \in M!Milestone,
           ~s.milestones[i].released,
           r.amount = s.milestones[i].amount,
           r.percentage_bps = s.milestones[i].percentage_bps,
           r.released => r.verified /\ \A j \in 1..(i - 1) : s.milestones[j].released
    PROVE  LET t == [s EXCEPT !.milestones = [s.milestones EXCEPT ![i] = r]]
           IN  GoodSchedule(t) /\ KeepsReleased(s, t)
<1> DEFINE m == s.milestones
           k == [m EXCEPT ![i] = r]
           t == [s EXCEPT !.milestones = k]
           n == Len(m)
<1>1. /\ m \in Seq(M!Milestone) /\ n \in Nat /\ DOMAIN m = 1..n
      /\ s \in M!MilestoneSchedule /\ s.total_amount \in Nat
    BY MilestoneList DEF GoodSchedule
<1>2. i \in 1..n
    BY <1>1
<1>3. k \in Seq(M!Milestone) /\ Len(k) = n /\ DOMAIN k = 1..n
    <2>1. k \in Seq(M!Milestone)
        BY <1>1, <1>2, ExceptSeq
    <2>2. DOMAIN k = 1..n
        BY <1>1
    <2> HIDE DEF k, n
    <2>3. QED BY <1>1, <2>1, <2>2, LenProperties
<1>4. k[i] = r /\ \A j \in 1..n : j # i => k[j] = m[j]
    BY <1>1, <1>2
<1>5. /\ t \in M!MilestoneSchedule
      /\ t.milestones = k /\ t.total_amount = s.total_amount
    <2> HIDE DEF k
    <2>1. QED BY <1>1, <1>3 DEF M!MilestoneSchedule
<1>6. AmountsExact(m, s.total_amount) /\ ReleasedInOrder(m)
    BY DEF GoodSchedule
<1> HIDE DEF k, t, m, n
<1>7. \A j \in 1..n : k[j].amount = m[j].amount /\ k[j].percentage_bps = m[j].percentage_bps
    BY <1>2, <1>4 DEF m
<1>8. AmountsExact(k, s.total_amount)
    <2>1. [j \in 1..Len(k) |-> k[j].amount] = [j \in 1..Len(m) |-> m[j].amount]
        BY <1>3, <1>7 DEF n
    <2>2. Len(k) = Len(m)
        BY <1>3 DEF n
    <2>3. QED BY <1>3, <1>6, <1>7, <2>1, <2>2 DEF AmountsExact, n
<1>9. ReleasedInOrder(k)
    <2> SUFFICES ASSUME NEW j \in 1..n, k[j].released
                 PROVE  k[j].verified /\ \A x \in 1..j : k[x].released
        BY <1>3 DEF ReleasedInOrder
    <2>0. ~m[i].released
        BY DEF m
    <2>1. CASE j = i
        <3>1. r.released /\ r.verified /\ \A x \in 1..(i - 1) : m[x].released
            BY <1>4, <2>1 DEF m
        <3>2. \A x \in 1..i : x = i \/ (x \in 1..(i - 1) /\ x \in 1..n /\ x # i)
            BY <1>1, <1>2
        <3>3. QED BY <1>4, <2>1, <3>1, <3>2
    <2>2. CASE j # i
        <3>1. m[j].released /\ m[j].verified /\ \A x \in 1..j : m[x].released
            BY <1>4, <1>6, <2>2 DEF ReleasedInOrder, n
        <3>2. \A x \in 1..j : x \in 1..n /\ x # i
            BY <1>1, <2>0, <3>1
        <3>3. QED BY <1>4, <2>2, <3>1, <3>2
    <2>3. QED BY <2>1, <2>2
<1>10. GoodSchedule(t)
    BY <1>5, <1>8, <1>9 DEF GoodSchedule
<1>11. KeepsReleased(s, t)
    <2> SUFFICES ASSUME NEW j \in DOMAIN s.milestones, s.milestones[j].released
                 PROVE  /\ t.total_amount = s.total_amount
                        /\ Len(t.milestones) = Len(s.milestones)
                        /\ t.milestones[j] = s.milestones[j]
        BY DEF KeepsReleased
    <2>1. j \in 1..n /\ j # i
        BY <1>1 DEF m
    <2>2. QED BY <1>3, <1>4, <1>5, <2>1 DEF m, n
<1>12. QED
    BY <1>10, <1>11 DEF t, k, m

\* Before the first call there is no schedule.
LEMMA MilestonesInvInit == ASSUME M!Init PROVE MilestonesInv
BY DEF M!Init, M!Empty, MilestonesInv

\* define_schedule, activate_schedule and amend_schedule.
LEMMA MilestonesInvPlan ==
    ASSUME MilestonesInv, NEW caller, NEW id,
           \/ \E total \in Totals, inputs \in ScheduleInputs :
                  \/ id \in ScheduledAwards /\ M!DefineSchedule(caller, id, total, inputs)
                  \/ id \in DOMAIN schedules /\ M!AmendSchedule(caller, id, total, inputs)
           \/ id \in DOMAIN schedules /\ M!ActivateSchedule(caller, id)
    PROVE  MilestonesInv' /\ M!ReleasedStep
<1>1. ASSUME NEW total \in Totals, NEW inputs \in ScheduleInputs,
             id \in ScheduledAwards, M!DefineSchedule(caller, id, total, inputs)
      PROVE  MilestonesInv' /\ M!ReleasedStep
    <2> DEFINE t == [total_amount |-> total, version |-> 1, active |-> FALSE,
                     milestones |-> M!BuildMilestones(total, inputs)]
    <2>1. /\ id \notin DOMAIN schedules
          /\ schedules' = [x \in DOMAIN schedules \cup {id} |-> IF x = id THEN t ELSE schedules[x]]
        BY <1>1 DEF M!DefineSchedule, M!Has, M!Set
    <2>2. GoodSchedule(t)
        <3>1. total \in Int /\ M!InputsAccepted(total, inputs)
            BY <1>1, PayoutsConstants DEF M!DefineSchedule
        <3>2. QED BY <3>1, BuiltSchedule
    <2> HIDE DEF t
    <2>3. QED BY ONLY MilestonesInv, id \in ScheduledAwards, <1>1, <2>1, <2>2, ScheduleWrite
<1>2. ASSUME NEW total \in Totals, NEW inputs \in ScheduleInputs,
             id \in DOMAIN schedules, M!AmendSchedule(caller, id, total, inputs)
      PROVE  MilestonesInv' /\ M!ReleasedStep
    <2> DEFINE t == [total_amount |-> total, version |-> schedules[id].version + 1,
                     active |-> TRUE, milestones |-> M!BuildMilestones(total, inputs)]
    <2>0. id \in ScheduledAwards /\ GoodSchedule(schedules[id])
        BY <1>2 DEF MilestonesInv
    <2>1. schedules' = [x \in DOMAIN schedules \cup {id} |-> IF x = id THEN t ELSE schedules[x]]
        <3>1. schedules' = [schedules EXCEPT ![id] = t]
            BY <1>2 DEF M!AmendSchedule
        <3> HIDE DEF t
        <3>2. QED BY <1>2, <3>1
    <2>2. GoodSchedule(t)
        <3>1. total \in Int /\ M!InputsAccepted(total, inputs)
            BY <1>2, PayoutsConstants DEF M!AmendSchedule
        <3>2. schedules[id].version + 1 \in Nat
            BY <2>0, MilestoneList
        <3>3. QED BY <3>1, <3>2, BuiltSchedule
    <2> HIDE DEF t
    <2>3. KeepsReleased(schedules[id], t)
        BY <1>2 DEF KeepsReleased, M!AmendSchedule, M!Amendable, M!Milestones
    <2>4. QED BY ONLY MilestonesInv, <2>0, <2>1, <2>2, <2>3, ScheduleWrite
<1>3. ASSUME id \in DOMAIN schedules, M!ActivateSchedule(caller, id)
      PROVE  MilestonesInv' /\ M!ReleasedStep
    <2> DEFINE s == schedules[id]
               t == [s EXCEPT !.active = TRUE]
    <2>0. id \in ScheduledAwards /\ GoodSchedule(s)
        BY <1>3 DEF MilestonesInv
    <2>1. schedules' = [x \in DOMAIN schedules \cup {id} |-> IF x = id THEN t ELSE schedules[x]]
        BY <1>3 DEF M!ActivateSchedule
    <2>2. /\ t \in M!MilestoneSchedule
          /\ t.milestones = s.milestones /\ t.total_amount = s.total_amount
        <3>1. s \in M!MilestoneSchedule
            BY <2>0 DEF GoodSchedule
        <3> HIDE DEF s
        <3>2. QED BY <3>1 DEF M!MilestoneSchedule
    <2> HIDE DEF t
    <2>3. GoodSchedule(t)
        BY <2>0, <2>2 DEF GoodSchedule
    <2>4. KeepsReleased(schedules[id], t)
        BY <2>2 DEF KeepsReleased
    <2>5. QED BY ONLY MilestonesInv, <2>0, <2>1, <2>3, <2>4, ScheduleWrite
<1>4. QED
    BY <1>1, <1>2, <1>3

\* verify_milestone and release_milestone.
LEMMA MilestonesInvFlag ==
    ASSUME MilestonesInv, NEW caller, NEW id \in DOMAIN schedules, NEW i \in DOMAIN M!Milestones(id),
           M!VerifyMilestone(caller, id, i) \/ M!ReleaseMilestone(caller, id, i)
    PROVE  MilestonesInv' /\ M!ReleasedStep
<1> DEFINE s == schedules[id]
           m == s.milestones
<1>1. id \in ScheduledAwards /\ GoodSchedule(s)
    BY DEF MilestonesInv
<1>2. i \in DOMAIN m /\ m[i] \in M!Milestone /\ i \in 1..Len(m)
    BY <1>1, MilestoneList DEF M!Milestones
<1>3. ASSUME NEW r \in M!Milestone, ~m[i].released,
             r.amount = m[i].amount, r.percentage_bps = m[i].percentage_bps,
             r.released => r.verified /\ \A j \in 1..(i - 1) : m[j].released,
             schedules' = [schedules EXCEPT ![id].milestones[i] = r]
      PROVE  MilestonesInv' /\ M!ReleasedStep
    <2> DEFINE t == [s EXCEPT !.milestones = [m EXCEPT ![i] = r]]
    <2>1. schedules' = [x \in DOMAIN schedules \cup {id} |-> IF x = id THEN t ELSE schedules[x]]
        BY <1>3
    <2>2. GoodSchedule(t) /\ KeepsReleased(s, t)
        BY <1>1, <1>2, <1>3, FlagWrite
    <2> HIDE DEF t
    <2>3. QED BY ONLY MilestonesInv, <1>1, <2>1, <2>2, ScheduleWrite
<1>4. CASE M!VerifyMilestone(caller, id, i)
    <2> DEFINE r == [m[i] EXCEPT !.verified = TRUE]
    <2>1. ~m[i].verified /\ schedules' = [schedules EXCEPT ![id].milestones[i] = r]
        BY <1>4 DEF M!VerifyMilestone, M!Milestones
    <2>2. ~m[i].released
        BY <1>1, <1>2, <2>1 DEF GoodSchedule, ReleasedInOrder
    <2>3. /\ r \in M!Milestone /\ r.amount = m[i].amount
          /\ r.percentage_bps = m[i].percentage_bps /\ ~r.released
        <3> HIDE DEF m
        <3>1. QED BY <1>2, <2>2 DEF M!Milestone
    <2> HIDE DEF r
    <2>4. QED BY <1>3, <2>1, <2>2, <2>3
<1>5. CASE M!ReleaseMilestone(caller, id, i)
    <2> DEFINE r == [m[i] EXCEPT !.released = TRUE]
    <2>1. /\ ~m[i].released /\ m[i].verified /\ \A j \in 1..(i - 1) : m[j].released
          /\ schedules' = [schedules EXCEPT ![id].milestones[i] = r]
        BY <1>5 DEF M!ReleaseMilestone, M!Milestones
    <2>2. /\ r \in M!Milestone /\ r.amount = m[i].amount
          /\ r.percentage_bps = m[i].percentage_bps /\ r.verified
        <3> HIDE DEF m
        <3>1. QED BY <1>2, <2>1 DEF M!Milestone
    <2> HIDE DEF r
    <2>3. QED BY <1>3, <2>1, <2>2
<1>6. QED
    BY <1>4, <1>5

\* Every call of the milestones contract.
LEMMA MilestonesInvNext ==
    ASSUME MilestonesInv, M!Next
    PROVE  MilestonesInv' /\ M!ReleasedStep
BY MilestonesInvPlan, MilestonesInvFlag DEF M!Next

\* Calls of the other contracts.
LEMMA MilestonesInvStutter ==
    ASSUME MilestonesInv, UNCHANGED schedules
    PROVE  MilestonesInv' /\ M!ReleasedStep
<1>1. MilestonesInv'
    BY DEF MilestonesInv
<1>2. ASSUME NEW x \in DOMAIN schedules PROVE GoodSchedule(schedules[x])
    BY DEF MilestonesInv
<1>3. M!ReleasedStep
    <2> SUFFICES ASSUME NEW x \in DOMAIN schedules, NEW i \in DOMAIN schedules[x].milestones,
                        schedules[x].milestones[i].released
                 PROVE  /\ schedules[x].milestones[i].verified
                        /\ \A j \in 1..i : schedules[x].milestones[j].released
        BY DEF M!ReleasedStep, M!Milestones
    <2>1. QED BY <1>2, MilestoneList DEF GoodSchedule, ReleasedInOrder
<1>4. QED
    BY <1>1, <1>3

\* What a good schedule releases stays within its total, and is the total when
\* everything is released.
LEMMA ReleasesWithin ==
    ASSUME MilestonesInv
    PROVE  M!ScheduleConserves
<1> SUFFICES ASSUME NEW id \in DOMAIN schedules
             PROVE  LET m     == M!Milestones(id)
                        n     == Len(m)
                        total == schedules[id].total_amount
                    IN  /\ M!Sum([i \in 1..n |-> m[i].amount], n) = total
                        /\ \A i \in 1..n : m[i].amount >= M!Share(total, m[i].percentage_bps)
                        /\ M!ReleasedTotal(id) \in 0..total
                        /\ (\A i \in 1..n : m[i].released) => M!ReleasedTotal(id) = total
    BY DEF M!ScheduleConserves
<1> DEFINE s == schedules[id]
           m == s.milestones
           n == Len(m)
           total == s.total_amount
           g == [i \in 1..n |-> m[i].amount]
           f == [i \in 1..n |-> IF m[i].released THEN m[i].amount ELSE 0]
<1>1. GoodSchedule(s)
    BY DEF MilestonesInv
<1>2. n \in Nat /\ DOMAIN m = 1..n /\ total \in Nat
    BY <1>1, MilestoneList
<1>3. /\ Sum(g, n) = total
      /\ \A i \in 1..n : m[i].amount \in Nat /\ m[i].amount >= M!Share(total, m[i].percentage_bps)
    BY <1>1 DEF GoodSchedule, AmountsExact
<1>4. M!Milestones(id) = m /\ M!ReleasedTotal(id) = Sum(f, n)
    BY <1>2, SameSum DEF M!Milestones, M!ReleasedTotal
<1>5. \A i \in 1..n : f[i] \in Int /\ g[i] \in Int /\ 0 <= f[i] /\ f[i] <= g[i]
    <2> HIDE DEF m, n
    <2>1. QED BY <1>2, <1>3
<1>6. (\A i \in 1..n : m[i].released) => \A i \in 1..n : f[i] = g[i]
    OBVIOUS
<1>7. M!Sum(g, n) = Sum(g, n)
    BY SameSum
<1> HIDE DEF f, n, total, m
<1>8. Sum(f, n) \in 0..total
    <2> HIDE DEF g
    <2>1. Sum(f, n) \in Int /\ Sum(g, n) \in Int /\ 0 <= Sum(f, n) /\ Sum(f, n) <= Sum(g, n)
        BY ONLY <1>2, <1>5, SumMonotone
    <2>2. QED BY <1>2, <1>3, <2>1
<1>9. (\A i \in 1..n : m[i].released) => Sum(f, n) = total
    <2> HIDE DEF g
    <2>1. QED BY <1>2, <1>3, <1>6, SumExt
<1>10. QED
    BY <1>3, <1>4, <1>7, <1>8, <1>9 DEF n, total, m

-----------------------------------------------------------------------------
(* The four contracts together *)

PayoutsInv == AwardsInv /\ MilestonesInv /\ DisbursementsInv /\ SettlementInv

\* initialize establishes the invariant.
LEMMA PayoutsInvInit == Init => PayoutsInv
BY AwardsInvInit, MilestonesInvInit, DisbursementsInvInit, SettlementInvInit DEF Init, PayoutsInv

\* Every call of one contract keeps the invariants of all four, replaces no verdict
\* and rewrites no released plan.
LEMMA PayoutsInvNext ==
    ASSUME PayoutsInv, [Next]_vars
    PROVE  PayoutsInv' /\ S!VerdictStep /\ M!ReleasedStep
<1>1. AwardsInv /\ MilestonesInv /\ DisbursementsInv /\ SettlementInv
    BY DEF PayoutsInv
<1>2. now \in Nat
    BY <1>1 DEF AwardsInv, A!TypeOK
<1>3. CASE focus = "awards" /\ UNCHANGED <<ledger, schedules, disbursementVars, settlementVars>>
           /\ ((A!Next /\ UNCHANGED now) \/ A!AdvanceTime)
    <2>1. now' \in Nat
        BY <1>2, <1>3 DEF A!AdvanceTime
    <2>2. AwardsInv'
        <3>1. CASE A!Next /\ UNCHANGED now
            BY <1>1, <3>1, AwardsInvNext
        <3>2. CASE A!AdvanceTime
            <4>1. UNCHANGED awardVars
                BY <3>2 DEF A!AdvanceTime, A!awardVars, awardVars
            <4>2. QED BY <1>1, <2>1, <4>1, AwardsInvStutter
        <3>3. QED BY <1>3, <3>1, <3>2
    <2>3. MilestonesInv' /\ M!ReleasedStep
        BY <1>1, <1>3, MilestonesInvStutter
    <2>4. DisbursementsInv'
        BY <1>1, <1>3, <2>1, DisbursementsInvStutter
    <2>5. SettlementInv' /\ S!VerdictStep
        BY <1>1, <1>3, SettlementInvStutter
    <2>6. QED BY <2>2, <2>3, <2>4, <2>5 DEF PayoutsInv
<1>4. CASE focus = "milestones" /\ M!Next
           /\ UNCHANGED <<now, ledger, awardVars, disbursementVars, settlementVars>>
    <2>1. MilestonesInv' /\ M!ReleasedStep
        BY <1>1, <1>4, MilestonesInvNext
    <2>2. AwardsInv' /\ DisbursementsInv'
        BY <1>1, <1>2, <1>4, AwardsInvStutter, DisbursementsInvStutter
    <2>3. SettlementInv' /\ S!VerdictStep
        BY <1>1, <1>4, SettlementInvStutter
    <2>4. QED BY <2>1, <2>2, <2>3 DEF PayoutsInv
<1>5. CASE focus = "disbursements" /\ UNCHANGED <<ledger, awardVars, schedules, settlementVars>>
           /\ ((D!Next /\ UNCHANGED now) \/ D!AdvanceTime)
    <2>1. now' \in Nat
        BY <1>2, <1>5 DEF D!AdvanceTime
    <2>2. DisbursementsInv'
        <3>1. CASE D!Next /\ UNCHANGED now
            BY <1>1, <1>2, <3>1, DisbursementsInvNext
        <3>2. CASE D!AdvanceTime
            <4>1. UNCHANGED disbursementVars
                BY <3>2 DEF D!AdvanceTime, D!disbursementVars, disbursementVars
            <4>2. QED BY <1>1, <2>1, <4>1, DisbursementsInvStutter
        <3>3. QED BY <1>5, <3>1, <3>2
    <2>3. MilestonesInv' /\ M!ReleasedStep
        BY <1>1, <1>5, MilestonesInvStutter
    <2>4. AwardsInv'
        BY <1>1, <1>5, <2>1, AwardsInvStutter
    <2>5. SettlementInv' /\ S!VerdictStep
        BY <1>1, <1>5, SettlementInvStutter
    <2>6. QED BY <2>2, <2>3, <2>4, <2>5 DEF PayoutsInv
<1>6. CASE focus = "settlement" /\ UNCHANGED <<now, awardVars, schedules, disbursementVars>>
           /\ ((S!Next /\ UNCHANGED ledger) \/ S!CloseLedger)
    <2>1. SettlementInv' /\ S!VerdictStep
        <3>1. CASE S!Next /\ UNCHANGED ledger
            BY <1>1, <3>1, SettlementInvNext
        <3>2. CASE S!CloseLedger
            <4>1. UNCHANGED settlementVars /\ ledger' = ledger + 1
                BY <3>2 DEF S!CloseLedger, S!settlementVars, settlementVars
            <4>2. QED BY <1>1, <4>1, SettlementInvStutter
        <3>3. QED BY <1>6, <3>1, <3>2
    <2>2. MilestonesInv' /\ M!ReleasedStep
        BY <1>1, <1>6, MilestonesInvStutter
    <2>3. AwardsInv' /\ DisbursementsInv'
        BY <1>1, <1>2, <1>6, AwardsInvStutter, DisbursementsInvStutter
    <2>4. QED BY <2>1, <2>2, <2>3 DEF PayoutsInv
<1>7. CASE UNCHANGED vars
    <2>1. UNCHANGED <<now, ledger, awardVars, schedules, disbursementVars, settlementVars>>
        BY <1>7 DEF vars
    <2>2. MilestonesInv' /\ M!ReleasedStep
        BY <1>1, <2>1, MilestonesInvStutter
    <2>3. AwardsInv' /\ DisbursementsInv'
        BY <1>1, <1>2, <2>1, AwardsInvStutter, DisbursementsInvStutter
    <2>4. SettlementInv' /\ S!VerdictStep
        BY <1>1, <2>1, SettlementInvStutter
    <2>5. QED BY <2>2, <2>3, <2>4 DEF PayoutsInv
<1>8. QED
    BY <1>3, <1>4, <1>5, <1>6, <1>7 DEF Next

\* The invariant holds of every behaviour of the four contracts.
LEMMA PayoutsInvariant == Spec => []PayoutsInv
<1>1. PayoutsInv /\ [Next]_vars => PayoutsInv'
    BY PayoutsInvNext
<1>2. QED
    BY PayoutsInvInit, <1>1, PTL DEF Spec

\* scholarship-awards, -milestones, -disbursements and the settlement of the
\* outbox: no call stores a value outside its type, leaves a pointer or counter
\* behind the record it refers to, or fills the settlement table past its bound.
THEOREM PayoutsTypeCorrect == Spec => []TypeOK
<1>1. PayoutsInv => TypeOK
    <2>1. MilestonesInv => M!TypeOK
        BY DEF MilestonesInv, M!TypeOK, GoodSchedule
    <2>2. QED BY <2>1 DEF PayoutsInv, TypeOK, AwardsInv, DisbursementsInv, SettlementInv
<1>2. QED
    BY <1>1, PayoutsInvariant, PTL

\* scholarship-awards: for any number of awards and programs, a program's reservation
\* counter is the number of its live awards, and a live-award pointer exists exactly
\* for each live award (create_award, decline_award, expire_award, cancel_award,
\* terminate_award).
THEOREM PayoutsReservations == Spec => []ReservationsExact
<1>1. PayoutsInv => ReservationsExact
    BY ReservationParts DEF PayoutsInv, AwardsInv, ReservationsExact
<1>2. QED
    BY <1>1, PayoutsInvariant, PTL

\* scholarship-awards: money is paid only under an acceptance and never beyond the
\* award (accept_award, record_disbursement, terminate_award).
THEOREM PayoutsUnderAgreement == Spec => []PaidUnderAgreement
<1>1. PayoutsInv => PaidUnderAgreement
    BY DEF PayoutsInv, AwardsInv, PaidUnderAgreement
<1>2. QED
    BY <1>1, PayoutsInvariant, PTL

\* scholarship-milestones: whatever the percentages round to, the milestones add up
\* to the total, the last one gets at least its share, and what is released never
\* exceeds the total (build_milestones, released_total).
THEOREM PayoutsConserve == Spec => []ScheduleConserves
<1>1. PayoutsInv => ScheduleConserves
    BY ReleasesWithin DEF PayoutsInv, ScheduleConserves
<1>2. QED
    BY <1>1, PayoutsInvariant, PTL

\* scholarship-disbursements: an executed intent was paid to a wallet its recipient
\* had proved under the wallet epoch the intent was created for (set_payout_wallet,
\* confirm_wallet_challenge, create_intent, record_execution).
THEOREM PayoutsProvenWallet == Spec => []PaidToProvenWallet
<1>1. PayoutsInv => PaidToProvenWallet
    BY ProvenPaymentsSame DEF PayoutsInv, DisbursementsInv, PaidToProvenWallet
<1>2. QED
    BY <1>1, PayoutsInvariant, PTL

\* scholarship-outbox: a settlement verdict rests on one final observation, and the
\* table and alert counters are exact (observe_settlement, reconcile_settlement,
\* expire_settlement, resolve_settlement, archive_settlement).
THEOREM PayoutsVerdicts == Spec => []VerdictsSound
<1>1. PayoutsInv => VerdictsSound
    BY VerdictParts DEF PayoutsInv, SettlementInv, VerdictsSound
<1>2. QED
    BY <1>1, PayoutsInvariant, PTL

\* scholarship-outbox: no step replaces a verdict or the observation it rests on.
THEOREM PayoutsVerdictsSticky == Spec => VerdictsSticky
<1>1. PayoutsInv /\ [Next]_vars => [S!VerdictStep]_(S!settlementVars)
    BY PayoutsInvNext
<1>2. Spec => [][S!VerdictStep]_(S!settlementVars)
    BY <1>1, PayoutsInvariant, PTL DEF Spec
<1>3. QED
    BY <1>2 DEF VerdictsSticky, S!VerdictsSticky

\* scholarship-milestones: releases are verified, in order and final, and the first
\* one freezes the plan (amend_schedule, release_milestone).
THEOREM PayoutsFreeze == Spec => ReleasesFreezePlan
<1>1. PayoutsInv /\ [Next]_vars => [M!ReleasedStep]_schedules
    BY PayoutsInvNext
<1>2. Spec => [][M!ReleasedStep]_schedules
    BY <1>1, PayoutsInvariant, PTL DEF Spec
<1>3. QED
    BY <1>2 DEF ReleasesFreezePlan, M!ReleasesFreezePlan
=============================================================================
