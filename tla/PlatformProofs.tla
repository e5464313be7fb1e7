--------------------------- MODULE PlatformProofs ---------------------------
(***************************************************************************)
(* What the contracts below the services keep, for every instance: what    *)
(* was settled stands (SettledStands), nothing is used twice or after its  *)
(* time (NothingUsedTwice), and the amounts kept apart in different stores *)
(* add up (AddsUp).                                                        *)
(***************************************************************************)
EXTENDS Platform, SumTheorems, SequenceTheorems, FiniteSetTheorems

-----------------------------------------------------------------------------
(* Records numbered 1, 2, ... as the contracts' counters number them *)

Numbered(store, Kind) == \E n \in Nat : store \in [1..n -> Kind]

LEMMA NumberedInitial == ASSUME NEW Kind PROVE Numbered([k \in {} |-> {}], Kind)
<1>1. 1..0 = {}
  OBVIOUS
<1>2. [k \in {} |-> {}] \in [1..0 -> Kind]
  BY <1>1
<1>3. QED BY <1>2 DEF Numbered

\* The number a create call takes is free, and the next one after it is the next number.
LEMMA NumberedNext ==
  ASSUME NEW Kind, NEW store, Numbered(store, Kind), NEW r \in Kind, NEW k, NEW new,
         k = Cardinality(DOMAIN store) + 1,
         new = [x \in DOMAIN store \cup {k} |-> IF x = k THEN r ELSE store[x]]
  PROVE  /\ k \in Nat /\ k \notin DOMAIN store /\ DOMAIN new = DOMAIN store \cup {k}
         /\ new[k] = r /\ \A x \in DOMAIN store : new[x] = store[x]
         /\ Numbered(new, Kind)
<1>1. PICK n \in Nat : store \in [1..n -> Kind]
  BY DEF Numbered
<1>2. k = n + 1
  <2>1. DOMAIN store = 1..n
    BY <1>1
  <2>2. Cardinality(1..n) = n
    BY FS_Interval
  <2>3. QED BY <2>1, <2>2
<1>3. 1..(n + 1) = 1..n \cup {n + 1} /\ n + 1 \notin 1..n /\ n + 1 \in Nat
  OBVIOUS
<1>4. new \in [1..(n + 1) -> Kind]
  BY <1>1, <1>2, <1>3
<1>5. QED BY <1>1, <1>2, <1>3, <1>4 DEF Numbered

\* One stored record is replaced by another of its kind.
LEMMA NumberedUpdate ==
  ASSUME NEW Kind, NEW store, Numbered(store, Kind), NEW k \in DOMAIN store, NEW r \in Kind
  PROVE  /\ DOMAIN [store EXCEPT ![k] = r] = DOMAIN store
         /\ [store EXCEPT ![k] = r][k] = r
         /\ \A x \in DOMAIN store \ {k} : [store EXCEPT ![k] = r][x] = store[x]
         /\ Numbered([store EXCEPT ![k] = r], Kind)
BY DEF Numbered

LEMMA NumberedMember ==
  ASSUME NEW Kind, NEW store, Numbered(store, Kind), NEW k \in DOMAIN store PROVE store[k] \in Kind
BY DEF Numbered

LEMMA NumberedFinite ==
  ASSUME NEW Kind, NEW store, Numbered(store, Kind)
  PROVE  IsFiniteSet(DOMAIN store) /\ Cardinality(DOMAIN store) \in Nat
<1>1. PICK n \in Nat : store \in [1..n -> Kind]
  BY DEF Numbered
<1>2. QED BY <1>1, FS_Interval

-----------------------------------------------------------------------------
(* What patrons owe *)

Fine == [loan : Loans, amount : Int, waived : BOOLEAN]
Damage == [loan : Loans, by : Librarians \cup {Admin}, resolved : BOOLEAN, charged : BOOLEAN,
           history : Int]

\* Debts are numbers, so that a waiver lowers one, and reports of damage are numbered, so
\* that a new one never takes the place of a resolved one.
AccountsInv ==
    /\ Numbered(fines, Fine)
    /\ \A loan \in DOMAIN loanDebt : loanDebt[loan] \in Int
    /\ Numbered(damages, Damage)

WithinCap ==
    \A loan \in Loans :
        P!Get(loanDebt', loan, 0) > P!DebtOf(loan) => P!Get(loanDebt', loan, 0) <= finePolicy'.total
ChargesStand ==
    \A a \in DOMAIN damages : damages[a].resolved => damages'[a].charged = damages[a].charged
AccountsStand == [WithinCap /\ ChargesStand]_(P!accountVars)

LEMMA AccountsInitial == P!Init => AccountsInv
<1>1. ASSUME P!Init PROVE AccountsInv
  <2>1. fines = [k \in {} |-> {}] /\ loanDebt = [k \in {} |-> {}] /\ damages = [k \in {} |-> {}]
    BY <1>1 DEF P!Init, P!Empty
  <2>2. QED BY <2>1, NumberedInitial DEF AccountsInv
<1>2. QED BY <1>1

\* The steps that touch neither debts nor damage.
LEMMA AccountsElsewhere ==
  ASSUME AccountsInv, UNCHANGED <<fines, loanDebt, damages>>
  PROVE  AccountsInv' /\ WithinCap /\ ChargesStand
<1>1. AccountsInv'
  BY DEF AccountsInv
<1>2. ASSUME NEW loan \in Loans PROVE ~(P!Get(loanDebt', loan, 0) > P!DebtOf(loan))
  BY DEF AccountsInv, P!DebtOf, P!Get
<1>3. QED BY <1>1, <1>2 DEF WithinCap, ChargesStand

LEMMA PAssessFine ==
  ASSUME AccountsInv, NEW loan \in Loans, NEW amount \in FineAmounts, NEW start, NEW nonce,
         NEW expiry, P!AssessFine(loan, amount, start, nonce, expiry)
  PROVE  AccountsInv' /\ WithinCap /\ ChargesStand
<1> DEFINE r == [loan |-> loan, amount |-> amount, waived |-> FALSE]
           k == P!NextKey(fines)
           d == P!DebtOf(loan) + amount
<1>1. /\ fines' = P!Set(fines, k, r) /\ loanDebt' = P!Set(loanDebt, loan, d)
      /\ P!WithinCaps(loan, amount) /\ finePolicy' = finePolicy
      /\ UNCHANGED <<P!ledgerVars, P!holdVars>>
  BY Zenon DEF P!AssessFine
<1>2. damages' = damages
  BY <1>1 DEF P!holdVars
<1>3. amount \in Int /\ P!DebtOf(loan) \in Int
  BY PlatformConstants DEF AccountsInv, P!DebtOf, P!Get
<1>4. Numbered(fines', Fine)
  <2>1. r \in Fine
    BY <1>3 DEF Fine
  <2>2. k = Cardinality(DOMAIN fines) + 1
    BY Zenon DEF P!NextKey, P!Cardinality, Cardinality
  <2>3. fines' = [x \in DOMAIN fines \cup {k} |-> IF x = k THEN r ELSE fines[x]]
    BY <1>1 DEF P!Set
  <2>4. Numbered(fines, Fine)
    BY DEF AccountsInv
  <2> HIDE DEF r, k
  <2>5. QED BY ONLY <2>1, <2>2, <2>3, <2>4, NumberedNext
<1>5. d \in Int /\ d <= finePolicy'.total
  BY <1>1, <1>3 DEF P!WithinCaps
<1> HIDE DEF r, k, d
<1>6. \A x \in DOMAIN loanDebt' : loanDebt'[x] \in Int
  BY <1>1, <1>5 DEF AccountsInv, P!Set
<1>7. ASSUME NEW x \in Loans, P!Get(loanDebt', x, 0) > P!DebtOf(x)
      PROVE  P!Get(loanDebt', x, 0) <= finePolicy'.total
  <2>1. CASE x = loan
    BY <2>1, <1>1, <1>5 DEF P!Get, P!Set
  <2>2. CASE x # loan
    <3>1. P!Get(loanDebt', x, 0) = P!DebtOf(x) /\ P!DebtOf(x) \in Int
      BY <2>2, <1>1 DEF P!Get, P!Set, P!DebtOf, AccountsInv
    <3>2. QED BY <3>1, <1>7
  <2>3. QED BY <2>1, <2>2
<1>8. QED BY <1>2, <1>4, <1>6, <1>7 DEF AccountsInv, WithinCap, ChargesStand

LEMMA PWaiveFine ==
  ASSUME AccountsInv, NEW id \in DOMAIN fines, NEW amount \in FineAmounts, P!WaiveFine(id, amount)
  PROVE  AccountsInv' /\ WithinCap /\ ChargesStand
<1> DEFINE r == [fines[id] EXCEPT !.amount = @ - amount, !.waived = @ \/ fines[id].amount = amount]
           d == P!DebtOf(fines[id].loan) - amount
<1>1. /\ amount > 0 /\ fines' = [fines EXCEPT ![id] = r]
      /\ loanDebt' = P!Set(loanDebt, fines[id].loan, d)
      /\ UNCHANGED <<P!ledgerVars, P!holdVars>>
  BY Zenon DEF P!WaiveFine
<1>2. damages' = damages
  BY <1>1 DEF P!holdVars
<1>3. amount \in Int /\ P!DebtOf(fines[id].loan) \in Int
  BY PlatformConstants DEF AccountsInv, P!DebtOf, P!Get
<1>4. fines[id] \in Fine
  BY NumberedMember DEF AccountsInv
<1>5. r \in Fine
  <2>1. PICK w \in BOOLEAN : w = (fines[id].waived \/ fines[id].amount = amount)
    BY Zenon
  <2>2. r = [[fines[id] EXCEPT !.amount = fines[id].amount - amount] EXCEPT !.waived = w]
    BY <2>1, Zenon
  <2>3. [fines[id] EXCEPT !.amount = fines[id].amount - amount] \in Fine
    BY <1>3, <1>4 DEF Fine
  <2> DEFINE f == [fines[id] EXCEPT !.amount = fines[id].amount - amount]
  <2> HIDE DEF r
  <2>4. r = [f EXCEPT !.waived = w] /\ f \in Fine
    BY <2>2, <2>3, Zenon
  <2> HIDE DEF f
  <2>5. QED BY ONLY <2>1, <2>4 DEF Fine
<1>6. d \in Int /\ d < P!DebtOf(fines[id].loan)
  BY <1>1, <1>3
<1> HIDE DEF r, d
<1>7. Numbered(fines', Fine)
  BY <1>1, <1>5, NumberedUpdate DEF AccountsInv
<1>8. \A x \in DOMAIN loanDebt' : loanDebt'[x] \in Int
  BY <1>1, <1>6 DEF AccountsInv, P!Set
<1>9. ASSUME NEW x \in Loans
      PROVE  ~(P!Get(loanDebt', x, 0) > P!DebtOf(x))
  <2>1. CASE x = fines[id].loan
    BY <2>1, <1>1, <1>3, <1>6 DEF P!Get, P!Set
  <2>2. CASE x # fines[id].loan
    <3>1. P!Get(loanDebt', x, 0) = P!DebtOf(x) /\ P!DebtOf(x) \in Int
      BY <2>2, <1>1 DEF P!Get, P!Set, P!DebtOf, AccountsInv
    <3>2. QED BY <3>1
  <2>3. QED BY <2>1, <2>2
<1>10. QED BY <1>2, <1>7, <1>8, <1>9 DEF AccountsInv, WithinCap, ChargesStand

LEMMA PAttest ==
  ASSUME AccountsInv, NEW who \in Librarians \cup {Admin}, NEW loan \in Loans, P!Attest(who, loan)
  PROVE  AccountsInv' /\ WithinCap /\ ChargesStand
<1> DEFINE r == [loan |-> loan, by |-> who, resolved |-> FALSE, charged |-> FALSE, history |-> 1]
           k == P!NextKey(damages)
<1>1. /\ damages' = P!Set(damages, k, r)
      /\ UNCHANGED <<P!fineVars, P!ledgerVars, deposits, vault, librarians>>
  BY Zenon DEF P!Attest
<1>2. UNCHANGED <<fines, loanDebt>>
  BY <1>1 DEF P!fineVars
<1>3. /\ Numbered(damages', Damage) /\ \A x \in DOMAIN damages : damages'[x] = damages[x]
  <2>1. r \in Damage
    BY DEF Damage
  <2>2. k = Cardinality(DOMAIN damages) + 1
    BY Zenon DEF P!NextKey, P!Cardinality, Cardinality
  <2>3. damages' = [x \in DOMAIN damages \cup {k} |-> IF x = k THEN r ELSE damages[x]]
    BY <1>1 DEF P!Set
  <2>4. Numbered(damages, Damage)
    BY DEF AccountsInv
  <2> HIDE DEF r, k
  <2>5. QED BY ONLY <2>1, <2>2, <2>3, <2>4, NumberedNext
<1>4. ASSUME NEW x \in Loans PROVE ~(P!Get(loanDebt', x, 0) > P!DebtOf(x))
  BY <1>2 DEF AccountsInv, P!DebtOf, P!Get
<1>5. QED BY <1>2, <1>3, <1>4 DEF AccountsInv, WithinCap, ChargesStand

\* Resolving, correcting and charging write one report, and only an unresolved one is charged.
LEMMA DamageWritten ==
  ASSUME AccountsInv, NEW a \in DOMAIN damages, NEW r \in Damage,
         damages' = [damages EXCEPT ![a] = r],
         damages[a].resolved => r.charged = damages[a].charged,
         UNCHANGED <<fines, loanDebt>>
  PROVE  AccountsInv' /\ WithinCap /\ ChargesStand
<1>1. Numbered(damages', Damage)
  BY NumberedUpdate DEF AccountsInv
<1>2. ASSUME NEW x \in DOMAIN damages, damages[x].resolved
      PROVE  damages'[x].charged = damages[x].charged
  BY <1>2, NumberedUpdate DEF AccountsInv
<1>3. ASSUME NEW x \in Loans PROVE ~(P!Get(loanDebt', x, 0) > P!DebtOf(x))
  BY DEF AccountsInv, P!DebtOf, P!Get
<1>4. QED BY <1>1, <1>2, <1>3 DEF AccountsInv, WithinCap, ChargesStand

LEMMA PDamage ==
  ASSUME AccountsInv, NEW who \in Librarians \cup {Admin}, NEW a \in DOMAIN damages,
         P!Resolve(who, a) \/ P!AppendCorrection(who, a) \/ P!MarkCharged(who, a)
  PROVE  AccountsInv' /\ WithinCap /\ ChargesStand
<1>1. damages[a] \in Damage
  BY NumberedMember DEF AccountsInv
<1>2. UNCHANGED <<fines, loanDebt>>
  BY DEF P!Resolve, P!AppendCorrection, P!MarkCharged, P!fineVars
<1>3. CASE P!Resolve(who, a)
  <2> DEFINE r == [damages[a] EXCEPT !.resolved = TRUE]
  <2>1. damages' = [damages EXCEPT ![a] = r]
    BY <1>3 DEF P!Resolve
  <2>2. r \in Damage /\ r.charged = damages[a].charged
    BY <1>1 DEF Damage
  <2> HIDE DEF r
  <2>3. QED BY <1>2, <2>1, <2>2, DamageWritten
<1>4. CASE P!AppendCorrection(who, a)
  <2> DEFINE r == [damages[a] EXCEPT !.history = @ + 1]
  <2>1. damages' = [damages EXCEPT ![a] = r]
    BY <1>4 DEF P!AppendCorrection
  <2>2. r \in Damage /\ r.charged = damages[a].charged
    BY <1>1 DEF Damage
  <2> HIDE DEF r
  <2>3. QED BY <1>2, <2>1, <2>2, DamageWritten
<1>5. CASE P!MarkCharged(who, a)
  <2> DEFINE r == [damages[a] EXCEPT !.charged = TRUE]
  <2>1. damages' = [damages EXCEPT ![a] = r] /\ ~damages[a].resolved
    BY <1>5 DEF P!MarkCharged, P!Chargeable
  <2>2. r \in Damage
    BY <1>1 DEF Damage
  <2> HIDE DEF r
  <2>3. QED BY <1>2, <2>1, <2>2, DamageWritten
<1>6. QED BY <1>3, <1>4, <1>5

LEMMA AccountsStep ==
  ASSUME AccountsInv, P!FineNext \/ P!LedgerNext \/ P!DepositNext \/ P!DamageNext
  PROVE  AccountsInv' /\ AccountsStand
<1>1. CASE P!FineNext
  <2>1. CASE \E policy \in Policies : P!SetPolicy(policy)
    <3>1. UNCHANGED <<fines, loanDebt, damages>>
      BY <2>1 DEF P!SetPolicy, P!holdVars
    <3>2. QED BY <3>1, AccountsElsewhere DEF AccountsStand
  <2>2. QED BY <1>1, <2>1, PAssessFine, PWaiveFine, Zenon DEF P!FineNext, AccountsStand
<1>2. CASE P!LedgerNext
  <2>1. UNCHANGED <<P!fineVars, P!holdVars>>
    BY <1>2, Zenon DEF P!LedgerNext, P!AddSupportedAsset, P!Assess, P!Waive,
       P!InitiatePayment, P!FailPayment, P!ConfirmPayment, P!RefundPayment,
       P!ReversePayment, P!UndoPayment
  <2>2. UNCHANGED <<fines, loanDebt, damages>>
    BY <2>1 DEF P!fineVars, P!holdVars
  <2>3. QED BY <2>2, AccountsElsewhere DEF AccountsStand
<1>3. CASE P!DepositNext
  <2>1. UNCHANGED <<P!fineVars, damages>>
    BY <1>3, Zenon DEF P!DepositNext, P!LockDeposit, P!ReleaseDeposit, P!PartialCharge,
       P!FullCharge, P!PayOut
  <2>2. UNCHANGED <<fines, loanDebt, damages>>
    BY <2>1 DEF P!fineVars
  <2>3. QED BY <2>2, AccountsElsewhere DEF AccountsStand
<1>4. CASE P!DamageNext
  <2>1. ASSUME NEW who, NEW is, P!SetLibrarian(who, is) PROVE AccountsInv' /\ AccountsStand
    <3>1. UNCHANGED <<fines, loanDebt, damages>>
      BY <2>1 DEF P!SetLibrarian, P!fineVars
    <3>2. QED BY <3>1, AccountsElsewhere DEF AccountsStand
  <2>2. QED BY <1>4, <2>1, PAttest, PDamage, Zenon DEF P!DamageNext, AccountsStand
<1>5. QED BY <1>1, <1>2, <1>3, <1>4

-----------------------------------------------------------------------------
(* Library licenses *)

License ==
    [work : Works, licensee : Licensees, from : Nat, until : Nat, revoked : BOOLEAN,
     seats : SeatCounts \cup {0}, taken : Int]
Offer == [work : Works, buyer : Licensees, from : Nat, until : Nat, accepted : BOOLEAN]
Grant == [license : Nat, grantee : Learners, from : Nat, until : Nat]
Session == [grant : Nat, until : Nat]
OfflineCopy == [grant : Nat, until : Nat, max : Uses, used : Nat, active : BOOLEAN]

\* Everything derived refers to a record that exists and ends no later than it does, and
\* records are numbered, so that a new one never takes the place of a revoked one.
DerivedInv ==
    /\ \A g \in DOMAIN grants : /\ grants[g].license \in DOMAIN licenses
                                /\ grants[g].until <= licenses[grants[g].license].until
    /\ \A r \in DOMAIN readers : /\ readers[r].grant \in DOMAIN grants
                                 /\ readers[r].until <= grants[readers[r].grant].until
    /\ \A o \in DOMAIN offline : /\ offline[o].grant \in DOMAIN grants
                                 /\ offline[o].until <= grants[offline[o].grant].until
LicensingInv ==
    /\ now \in Nat
    /\ Numbered(licenses, License) /\ Numbered(offers, Offer)
    /\ Numbered(grants, Grant)
    /\ Numbered(readers, Session) /\ Numbered(offline, OfflineCopy)
    /\ DerivedInv
    /\ IsFiniteSet(usedProofs) /\ Cardinality(DOMAIN grants) = Cardinality(usedProofs)

LicenseCuts ==
    \A id \in DOMAIN licenses : licenses[id].revoked =>
         /\ licenses'[id].revoked
         /\ \A g \in DOMAIN grants' : grants'[g].license = id => L!Has(grants, g)
         /\ \A r \in DOMAIN readers' : grants'[readers'[r].grant].license = id => L!Has(readers, r)
         /\ \A o \in DOMAIN offline' : grants'[offline'[o].grant].license = id =>
                L!Has(offline, o) /\ offline'[o].used = offline[o].used
LicensingStands == [LicenseCuts]_(L!licensingVars)

\* One use of NumberedNext for the contract's own operators.
LEMMA LicenseNumber ==
  ASSUME NEW Kind, NEW store, Numbered(store, Kind), NEW r \in Kind, NEW k, NEW new,
         k = L!NextId(store), new = L!Set(store, k, r)
  PROVE  /\ k \in Nat /\ k \notin DOMAIN store /\ DOMAIN new = DOMAIN store \cup {k}
         /\ new[k] = r /\ \A x \in DOMAIN store : new[x] = store[x]
         /\ Numbered(new, Kind)
<1>1. k = Cardinality(DOMAIN store) + 1
  BY Zenon DEF L!NextId, L!Cardinality, Cardinality
<1>2. new = [x \in DOMAIN store \cup {k} |-> IF x = k THEN r ELSE store[x]]
  BY DEF L!Set
<1>3. QED BY ONLY <1>1, <1>2, Numbered(store, Kind), r \in Kind, NumberedNext

LEMMA LicensingInitial == L!Init /\ now = 1 => LicensingInv
<1>1. ASSUME L!Init, now = 1 PROVE LicensingInv
  <2> DEFINE none == [k \in {} |-> {}]
  <2>1. /\ licenses = none /\ offers = none /\ grants = none /\ readers = none /\ offline = none
        /\ usedProofs = {}
    BY <1>1 DEF L!Init, L!Empty
  <2>2. DOMAIN none = {}
    OBVIOUS
  <2>3. Cardinality({}) = 0 /\ IsFiniteSet({})
    BY FS_EmptySet
  <2>4. \A Kind : Numbered(none, Kind)
    BY NumberedInitial
  <2> HIDE DEF none
  <2>5. QED BY <1>1, <2>1, <2>2, <2>3, <2>4 DEF LicensingInv, DerivedInv
<1>2. QED BY <1>1

\* What a step may do to the licenses: add some, and revoke or rewrite one without changing
\* its end or undoing a revocation.
LicensesKept ==
    /\ Numbered(licenses', License)
    /\ DOMAIN licenses \subseteq DOMAIN licenses'
    /\ \A id \in DOMAIN licenses : /\ licenses'[id].until = licenses[id].until
                                   /\ licenses[id].revoked => licenses'[id].revoked

LEMMA LicensesMoved ==
  ASSUME LicensingInv, LicensesKept, now' = now, Numbered(offers', Offer),
         UNCHANGED <<grants, readers, offline, usedProofs>>
  PROVE  LicensingInv' /\ LicenseCuts
<1>1. DerivedInv'
  <2>1. DerivedInv
    BY DEF LicensingInv
  <2>2. ASSUME NEW g \in DOMAIN grants
        PROVE  /\ grants[g].license \in DOMAIN licenses'
               /\ grants[g].until <= licenses'[grants[g].license].until
    <3>1. /\ grants[g].license \in DOMAIN licenses
          /\ grants[g].until <= licenses[grants[g].license].until
      BY <2>1, Zenon DEF DerivedInv
    <3> DEFINE id == grants[g].license
    <3>2. id \in DOMAIN licenses /\ grants[g].until <= licenses[id].until
      BY <3>1
    <3> HIDE DEF id
    <3>3. licenses'[id].until = licenses[id].until /\ id \in DOMAIN licenses'
      BY <3>2 DEF LicensesKept
    <3>4. id \in DOMAIN licenses' /\ grants[g].until <= licenses'[id].until
      BY <3>2, <3>3
    <3>5. QED BY <3>4 DEF id
  <2>3. grants' = grants /\ readers' = readers /\ offline' = offline
    OBVIOUS
  <2>4. QED BY <2>1, <2>2, <2>3 DEF DerivedInv
<1>2. LicensingInv'
  BY <1>1 DEF LicensingInv, LicensesKept
<1>3. LicenseCuts
  <2>1. grants' = grants /\ readers' = readers /\ offline' = offline
    OBVIOUS
  <2>2. ASSUME NEW id \in DOMAIN licenses, licenses[id].revoked PROVE licenses'[id].revoked
    BY <2>2 DEF LicensesKept
  <2>3. /\ \A g \in DOMAIN grants' : L!Has(grants, g)
        /\ \A r \in DOMAIN readers' : L!Has(readers, r)
        /\ \A o \in DOMAIN offline' : L!Has(offline, o) /\ offline'[o].used = offline[o].used
    BY <2>1 DEF L!Has
  <2>4. QED BY <2>2, <2>3, Zenon DEF LicenseCuts
<1>4. QED BY <1>2, <1>3

LEMMA LicensesSame == ASSUME LicensingInv, UNCHANGED licenses PROVE LicensesKept
BY DEF LicensesKept, LicensingInv

LEMMA LicenseAdded ==
  ASSUME LicensingInv, NEW r \in License, licenses' = L!Set(licenses, L!NextId(licenses), r)
  PROVE  LicensesKept
<1> DEFINE k == L!NextId(licenses)
<1>1. Numbered(licenses, License)
  BY DEF LicensingInv
<1>2. /\ DOMAIN licenses' = DOMAIN licenses \cup {k}
      /\ \A x \in DOMAIN licenses : licenses'[x] = licenses[x]
      /\ Numbered(licenses', License)
  <2>1. k = L!NextId(licenses) /\ licenses' = L!Set(licenses, k, r)
    OBVIOUS
  <2> HIDE DEF k
  <2>2. QED BY <1>1, <2>1, LicenseNumber
<1> HIDE DEF k
<1>3. QED BY <1>2 DEF LicensesKept

LEMMA LicenseRewritten ==
  ASSUME LicensingInv, NEW id \in DOMAIN licenses, NEW r \in License,
         licenses' = [licenses EXCEPT ![id] = r], r.until = licenses[id].until,
         licenses[id].revoked => r.revoked
  PROVE  LicensesKept
<1>1. Numbered(licenses, License)
  BY DEF LicensingInv
<1>2. /\ DOMAIN licenses' = DOMAIN licenses /\ licenses'[id] = r
      /\ \A x \in DOMAIN licenses \ {id} : licenses'[x] = licenses[x]
      /\ Numbered(licenses', License)
  BY <1>1, NumberedUpdate, Zenon
<1>3. ASSUME NEW x \in DOMAIN licenses
      PROVE  /\ licenses'[x].until = licenses[x].until
             /\ licenses[x].revoked => licenses'[x].revoked
  <2>1. CASE x = id
    BY <1>2, <2>1
  <2>2. CASE x # id
    BY <1>2, <2>2
  <2>3. QED BY <2>1, <2>2
<1>4. QED BY <1>2, <1>3 DEF LicensesKept

LEMMA LGrantLicense ==
  ASSUME LicensingInv, now' = now, NEW work \in Works, NEW licensee \in Licensees,
         NEW from \in LicenseTimes, NEW until \in LicenseTimes, NEW n \in SeatCounts,
         L!GrantLicense(work, licensee, from, until, n)
  PROVE  LicensingInv' /\ LicenseCuts
<1> DEFINE r == [work |-> work, licensee |-> licensee, from |-> from, until |-> until,
                 revoked |-> FALSE, seats |-> n, taken |-> 0]
<1>1. /\ licenses' = L!Set(licenses, L!NextId(licenses), r)
      /\ UNCHANGED <<usedProofs, grants, L!otherSide>>
  BY Zenon DEF L!GrantLicense
<1>2. UNCHANGED <<offers, grants, readers, offline, usedProofs>>
  BY <1>1 DEF L!otherSide
<1>3. r \in License
  BY PlatformConstants DEF License
<1> HIDE DEF r
<1>4. LicensesKept
  BY <1>1, <1>3, LicenseAdded
<1>5. Numbered(offers', Offer)
  BY <1>2 DEF LicensingInv
<1>6. QED BY <1>2, <1>4, <1>5, LicensesMoved

LEMMA LRevokeLicense ==
  ASSUME LicensingInv, now' = now, NEW id \in DOMAIN licenses,
         L!RevokeLicense(id) \/ L!ApplyLicenseRevocation(id)
  PROVE  LicensingInv' /\ LicenseCuts
<1> DEFINE r == [licenses[id] EXCEPT !.revoked = TRUE]
<1>1. licenses' = [licenses EXCEPT ![id] = r]
  BY DEF L!RevokeLicense, L!ApplyLicenseRevocation
<1>2. UNCHANGED <<offers, grants, readers, offline, usedProofs>>
  BY DEF L!RevokeLicense, L!ApplyLicenseRevocation, L!otherSide
<1>3. licenses[id] \in License
  BY NumberedMember DEF LicensingInv
<1>4. r \in License /\ r.until = licenses[id].until /\ r.revoked
  BY <1>3 DEF License
<1> HIDE DEF r
<1>5. LicensesKept
  BY <1>1, <1>4, LicenseRewritten
<1>6. Numbered(offers', Offer)
  BY <1>2 DEF LicensingInv
<1>7. QED BY <1>2, <1>5, <1>6, LicensesMoved

LEMMA LSeat ==
  ASSUME LicensingInv, now' = now, NEW id \in DOMAIN licenses,
         L!AllocateSeat(id) \/ L!ReleaseSeat(id)
  PROVE  LicensingInv' /\ LicenseCuts
<1>1. licenses[id] \in License
  BY NumberedMember DEF LicensingInv
<1>2. PICK t \in Int : licenses' = [licenses EXCEPT ![id] = [licenses[id] EXCEPT !.taken = t]]
  <2>1. licenses[id].taken + 1 \in Int /\ licenses[id].taken - 1 \in Int
    BY <1>1 DEF License
  <2>2. CASE L!AllocateSeat(id)
    BY <2>1, <2>2 DEF L!AllocateSeat
  <2>3. CASE L!ReleaseSeat(id)
    BY <2>1, <2>3 DEF L!ReleaseSeat
  <2>4. QED BY <2>2, <2>3
<1> DEFINE r == [licenses[id] EXCEPT !.taken = t]
<1>3. UNCHANGED <<offers, grants, readers, offline, usedProofs>>
  BY DEF L!AllocateSeat, L!ReleaseSeat, L!otherSide
<1>4. r \in License /\ r.until = licenses[id].until /\ r.revoked = licenses[id].revoked
  BY <1>1 DEF License
<1>5. licenses' = [licenses EXCEPT ![id] = r]
  BY <1>2
<1> HIDE DEF r
<1>6. LicensesKept
  BY <1>4, <1>5, LicenseRewritten
<1>7. Numbered(offers', Offer)
  BY <1>3 DEF LicensingInv
<1>8. QED BY <1>3, <1>6, <1>7, LicensesMoved

LEMMA LCreateRentalOffer ==
  ASSUME LicensingInv, now' = now, NEW work \in Works, NEW buyer \in Licensees,
         NEW from \in LicenseTimes, NEW until \in LicenseTimes,
         L!CreateRentalOffer(work, buyer, from, until)
  PROVE  LicensingInv' /\ LicenseCuts
<1> DEFINE r == [work |-> work, buyer |-> buyer, from |-> from, until |-> until,
                 accepted |-> FALSE]
           k == L!NextId(offers)
<1>1. /\ offers' = L!Set(offers, k, r)
      /\ UNCHANGED <<L!licenseCore, readers, offline>>
  BY Zenon DEF L!CreateRentalOffer
<1>2. UNCHANGED <<licenses, grants, readers, offline, usedProofs>>
  BY <1>1 DEF L!licenseCore
<1>3. r \in Offer
  BY PlatformConstants DEF Offer
<1>4. k = L!NextId(offers) /\ Numbered(offers, Offer)
  BY DEF LicensingInv
<1> HIDE DEF r, k
<1>5. Numbered(offers', Offer)
  BY <1>1, <1>3, <1>4, LicenseNumber
<1>6. LicensesKept
  BY <1>2, LicensesSame
<1>7. QED BY <1>2, <1>5, <1>6, LicensesMoved

LEMMA LAcceptRentalOffer ==
  ASSUME LicensingInv, now' = now, NEW o \in DOMAIN offers, L!AcceptRentalOffer(o)
  PROVE  LicensingInv' /\ LicenseCuts
<1> DEFINE r == [work |-> offers[o].work, licensee |-> offers[o].buyer, from |-> now,
                 until |-> offers[o].until, revoked |-> FALSE, seats |-> 0, taken |-> 0]
           f == [offers[o] EXCEPT !.accepted = TRUE]
<1>1. /\ offers' = [offers EXCEPT ![o] = f]
      /\ licenses' = L!Set(licenses, L!NextId(licenses), r)
  BY DEF L!AcceptRentalOffer
<1>2. UNCHANGED <<grants, readers, offline, usedProofs>>
  BY DEF L!AcceptRentalOffer
<1>3. offers[o] \in Offer /\ now \in Nat
  BY NumberedMember DEF LicensingInv
<1>4. r \in License /\ f \in Offer
  <2>1. f \in Offer
    BY <1>3 DEF Offer
  <2>2. /\ offers[o].work \in Works /\ offers[o].buyer \in Licensees
        /\ offers[o].until \in Nat
    BY <1>3 DEF Offer
  <2>3. r \in License
    BY <1>3, <2>2 DEF License
  <2>4. QED BY <2>1, <2>3
<1> HIDE DEF r, f
<1>5. LicensesKept
  BY <1>1, <1>4, LicenseAdded
<1>6. Numbered(offers', Offer)
  BY <1>1, <1>4, NumberedUpdate DEF LicensingInv
<1>7. QED BY <1>2, <1>5, <1>6, LicensesMoved


\* A session or a copy may be added, or a copy used, under a grant whose license stands.
LEMMA LicenseStands ==
  ASSUME LicensingInv, NEW g \in DOMAIN grants, L!IsGrantActive(g)
  PROVE  grants[g].license \in DOMAIN licenses /\ ~licenses[grants[g].license].revoked
BY DEF L!IsGrantActive, L!IsLicenseActive, LicensingInv, DerivedInv

LEMMA LDeriveAccessGrant ==
  ASSUME LicensingInv, now' = now, NEW id \in DOMAIN licenses, NEW caller, NEW grantee \in Learners,
         NEW span \in Spans, NEW nonce, L!DeriveAccessGrant(caller, id, grantee, span, nonce)
  PROVE  LicensingInv' /\ LicenseCuts
<1> DEFINE until == L!GrantEnd(licenses[id], span)
           r == [license |-> id, grantee |-> grantee, from |-> now, until |-> until]
           k == L!NextId(grants)
<1>1. /\ grants' = L!Set(grants, k, r) /\ usedProofs' = usedProofs \cup {nonce}
      /\ nonce \notin usedProofs /\ ~licenses[id].revoked
      /\ licenses' = licenses
  BY DEF L!DeriveAccessGrant, L!FreshProof, L!IsLicenseActive
<1>2. UNCHANGED <<offers, readers, offline>>
  BY DEF L!DeriveAccessGrant, L!otherSide
<1>3. licenses[id] \in License /\ id \in Nat /\ now \in Nat /\ span \in Nat
  <2>1. licenses[id] \in License
    BY NumberedMember DEF LicensingInv
  <2>2. QED BY <2>1, PlatformConstants DEF LicensingInv, Numbered
<1>4. until \in Nat /\ until <= licenses[id].until
  BY <1>3 DEF L!GrantEnd, License
<1> HIDE DEF until
<1>5. r \in Grant /\ r.license = id /\ r.until = until
  BY <1>3, <1>4 DEF Grant
<1>6. k = L!NextId(grants) /\ Numbered(grants, Grant)
  BY DEF LicensingInv
<1> HIDE DEF r, k
<1>7. /\ k \notin DOMAIN grants /\ DOMAIN grants' = DOMAIN grants \cup {k}
      /\ grants'[k] = r /\ \A x \in DOMAIN grants : grants'[x] = grants[x]
      /\ Numbered(grants', Grant)
  BY <1>1, <1>5, <1>6, LicenseNumber
<1>8. IsFiniteSet(usedProofs') /\ Cardinality(DOMAIN grants') = Cardinality(usedProofs')
  <2>1. IsFiniteSet(DOMAIN grants) /\ IsFiniteSet(usedProofs)
    BY <1>6, NumberedFinite DEF LicensingInv
  <2>2. Cardinality(DOMAIN grants') = Cardinality(DOMAIN grants) + 1
    BY <1>7, <2>1, FS_AddElement
  <2>3. IsFiniteSet(usedProofs') /\ Cardinality(usedProofs') = Cardinality(usedProofs) + 1
    BY <1>1, <2>1, FS_AddElement
  <2>4. QED BY <2>2, <2>3 DEF LicensingInv
<1>9. DerivedInv'
  <2>1. ASSUME NEW g \in DOMAIN grants'
        PROVE  /\ grants'[g].license \in DOMAIN licenses
               /\ grants'[g].until <= licenses[grants'[g].license].until
    <3>1. CASE g = k
      BY <1>4, <1>5, <1>7, <3>1
    <3>2. CASE g # k
      BY <1>7, <3>2 DEF LicensingInv, DerivedInv
    <3>3. QED BY <3>1, <3>2
  <2>2. ASSUME NEW x \in DOMAIN readers
        PROVE  /\ readers[x].grant \in DOMAIN grants'
               /\ readers[x].until <= grants'[readers[x].grant].until
    BY <1>7 DEF LicensingInv, DerivedInv
  <2>3. ASSUME NEW x \in DOMAIN offline
        PROVE  /\ offline[x].grant \in DOMAIN grants'
               /\ offline[x].until <= grants'[offline[x].grant].until
    BY <1>7 DEF LicensingInv, DerivedInv
  <2>4. licenses' = licenses /\ readers' = readers /\ offline' = offline
    BY <1>1, <1>2
  <2>5. QED BY <2>1, <2>2, <2>3, <2>4 DEF DerivedInv
<1>10. LicensingInv'
  BY <1>1, <1>2, <1>7, <1>8, <1>9 DEF LicensingInv
<1>11. LicenseCuts
  <2>1. ASSUME NEW x \in DOMAIN licenses, licenses[x].revoked, NEW g \in DOMAIN grants',
               grants'[g].license = x
        PROVE  L!Has(grants, g)
    BY <1>1, <1>5, <1>7, <2>1 DEF L!Has
  <2>2. /\ \A x \in DOMAIN readers' : L!Has(readers, x)
        /\ \A o \in DOMAIN offline' : L!Has(offline, o) /\ offline'[o].used = offline[o].used
    BY <1>2 DEF L!Has
  <2>3. QED BY <1>1, <2>1, <2>2, Zenon DEF LicenseCuts
<1>12. QED BY <1>10, <1>11

LEMMA LCreateReaderSession ==
  ASSUME LicensingInv, now' = now, NEW g \in DOMAIN grants, NEW span \in Spans,
         L!CreateReaderSession(g, span)
  PROVE  LicensingInv' /\ LicenseCuts
<1> DEFINE r == [grant |-> g, until |-> now + span]
           k == L!NextId(readers)
<1>1. readers' = L!Set(readers, k, r) /\ now + span <= grants[g].until /\ L!IsGrantActive(g)
  BY DEF L!CreateReaderSession
<1>2. UNCHANGED <<licenses, offers, grants, offline, usedProofs>>
  BY DEF L!CreateReaderSession, L!licenseCore
<1>3. r \in Session /\ r.grant = g /\ r.until <= grants[g].until
  BY <1>1, PlatformConstants DEF Session, LicensingInv, Numbered
<1>4. k = L!NextId(readers) /\ Numbered(readers, Session)
  BY DEF LicensingInv
<1> HIDE DEF r, k
<1>5. /\ k \notin DOMAIN readers /\ DOMAIN readers' = DOMAIN readers \cup {k}
      /\ readers'[k] = r /\ \A x \in DOMAIN readers : readers'[x] = readers[x]
      /\ Numbered(readers', Session)
  BY <1>1, <1>3, <1>4, LicenseNumber
<1>6. DerivedInv'
  <2>1. ASSUME NEW x \in DOMAIN readers'
        PROVE  /\ readers'[x].grant \in DOMAIN grants
               /\ readers'[x].until <= grants[readers'[x].grant].until
    <3>1. CASE x = k
      BY <1>3, <1>5, <3>1
    <3>2. CASE x # k
      BY <1>5, <3>2 DEF LicensingInv, DerivedInv
    <3>3. QED BY <3>1, <3>2
  <2>2. grants' = grants /\ licenses' = licenses /\ offline' = offline
    BY <1>2
  <2>3. DerivedInv
    BY DEF LicensingInv
  <2>4. QED BY <2>1, <2>2, <2>3 DEF DerivedInv
<1>7. LicensingInv'
  BY <1>2, <1>5, <1>6 DEF LicensingInv
<1>8. LicenseCuts
  <2>1. ASSUME NEW x \in DOMAIN licenses, licenses[x].revoked, NEW y \in DOMAIN readers',
               grants'[readers'[y].grant].license = x
        PROVE  L!Has(readers, y)
    BY <1>1, <1>2, <1>3, <1>5, <2>1, LicenseStands DEF L!Has
  <2>2. /\ \A x \in DOMAIN grants' : L!Has(grants, x)
        /\ \A o \in DOMAIN offline' : L!Has(offline, o) /\ offline'[o].used = offline[o].used
    BY <1>2 DEF L!Has
  <2>3. QED BY <1>2, <2>1, <2>2, Zenon DEF LicenseCuts
<1>9. QED BY <1>7, <1>8

\* Writing a copy, new or used, under a grant whose license stands.
LEMMA OfflineWritten ==
  ASSUME LicensingInv, now' = now, NEW g \in DOMAIN grants, L!IsGrantActive(g), NEW k,
         Numbered(offline', OfflineCopy), DOMAIN offline' = DOMAIN offline \cup {k},
         offline'[k].grant = g, offline'[k].until <= grants[g].until,
         \A x \in DOMAIN offline \ {k} : offline'[x] = offline[x],
         UNCHANGED <<licenses, offers, grants, readers, usedProofs>>
  PROVE  LicensingInv' /\ LicenseCuts
<1>1. DerivedInv'
  <2>1. ASSUME NEW x \in DOMAIN offline'
        PROVE  /\ offline'[x].grant \in DOMAIN grants
               /\ offline'[x].until <= grants[offline'[x].grant].until
    <3>1. CASE x = k
      BY <3>1
    <3>2. CASE x # k
      BY <3>2 DEF LicensingInv, DerivedInv
    <3>3. QED BY <3>1, <3>2
  <2>2. grants' = grants /\ licenses' = licenses /\ readers' = readers
    OBVIOUS
  <2>3. DerivedInv
    BY DEF LicensingInv
  <2>4. QED BY <2>1, <2>2, <2>3 DEF DerivedInv
<1>2. LicensingInv'
  BY <1>1 DEF LicensingInv
<1>3. LicenseCuts
  <2>1. ASSUME NEW x \in DOMAIN licenses, licenses[x].revoked, NEW o \in DOMAIN offline',
               grants'[offline'[o].grant].license = x
        PROVE  L!Has(offline, o) /\ offline'[o].used = offline[o].used
    <3>1. o # k
      BY <2>1, LicenseStands
    <3>2. QED BY <3>1 DEF L!Has
  <2>2. /\ \A x \in DOMAIN grants' : L!Has(grants, x)
        /\ \A x \in DOMAIN readers' : L!Has(readers, x)
    BY DEF L!Has
  <2>3. licenses' = licenses
    OBVIOUS
  <2>4. QED BY <2>1, <2>2, <2>3, Zenon DEF LicenseCuts
<1>4. QED BY <1>2, <1>3

LEMMA LCreateOfflineGrant ==
  ASSUME LicensingInv, now' = now, NEW g \in DOMAIN grants, NEW until \in LicenseTimes,
         NEW uses \in Uses, L!CreateOfflineGrant(g, until, uses)
  PROVE  LicensingInv' /\ LicenseCuts
<1> DEFINE r == [grant |-> g, until |-> until, max |-> uses, used |-> 0, active |-> TRUE]
           k == L!NextId(offline)
<1>1. offline' = L!Set(offline, k, r) /\ until <= grants[g].until /\ L!IsGrantActive(g)
  BY DEF L!CreateOfflineGrant
<1>2. UNCHANGED <<licenses, offers, grants, readers, usedProofs>>
  BY DEF L!CreateOfflineGrant, L!licenseCore
<1>3. g \in Nat /\ until \in Nat
  BY PlatformConstants DEF LicensingInv, Numbered
<1>4. r \in OfflineCopy /\ r.grant = g /\ r.until = until
  BY <1>3 DEF OfflineCopy
<1>5. k = L!NextId(offline) /\ Numbered(offline, OfflineCopy)
  BY DEF LicensingInv
<1> HIDE DEF r, k
<1>6. /\ k \notin DOMAIN offline /\ DOMAIN offline' = DOMAIN offline \cup {k}
      /\ offline'[k] = r /\ \A x \in DOMAIN offline : offline'[x] = offline[x]
      /\ Numbered(offline', OfflineCopy)
  BY <1>1, <1>4, <1>5, LicenseNumber
<1>7. QED BY <1>1, <1>2, <1>4, <1>6, OfflineWritten

LEMMA LConsumeOfflineGrant ==
  ASSUME LicensingInv, now' = now, NEW o \in DOMAIN offline, L!ConsumeOfflineGrant(o)
  PROVE  LicensingInv' /\ LicenseCuts
<1>1. offline[o] \in OfflineCopy
  BY NumberedMember DEF LicensingInv
<1>2. PICK w \in BOOLEAN : w = (offline[o].used + 1 # offline[o].max)
  BY Zenon
<1> DEFINE g == offline[o].grant
           f == [offline[o] EXCEPT !.used = @ + 1]
           r == [f EXCEPT !.active = w]
<1>3. offline' = [offline EXCEPT ![o] = [offline[o] EXCEPT !.used = @ + 1,
                                         !.active = offline[o].used + 1 # offline[o].max]]
  BY Zenon DEF L!ConsumeOfflineGrant
<1>4. offline' = [offline EXCEPT ![o] = r]
  BY <1>2, <1>3, Zenon
<1>5. L!IsGrantActive(g) /\ UNCHANGED <<licenses, offers, grants, readers, usedProofs>>
  BY DEF L!ConsumeOfflineGrant, L!licenseCore
<1>6. f \in OfflineCopy /\ f.grant = g /\ f.until = offline[o].until
  BY <1>1 DEF OfflineCopy
<1> HIDE DEF f
<1>7. r \in OfflineCopy /\ r.grant = g /\ r.until = offline[o].until
  BY <1>2, <1>6 DEF OfflineCopy
<1>8. g \in DOMAIN grants /\ r.until <= grants[g].until
  BY <1>7 DEF LicensingInv, DerivedInv
<1> HIDE DEF r, g
<1>9. /\ DOMAIN offline' = DOMAIN offline /\ offline'[o] = r
      /\ \A x \in DOMAIN offline \ {o} : offline'[x] = offline[x]
      /\ Numbered(offline', OfflineCopy)
  BY <1>4, <1>7, NumberedUpdate DEF LicensingInv
<1>10. DOMAIN offline' = DOMAIN offline \cup {o}
  BY <1>9
<1>11. QED BY <1>5, <1>7, <1>8, <1>9, <1>10, OfflineWritten

\* The steps that touch none of these records.
LEMMA LicensingElsewhere ==
  ASSUME LicensingInv, now' = now,
         UNCHANGED <<licenses, offers, grants, readers, offline, usedProofs>>
  PROVE  LicensingInv' /\ LicenseCuts
<1>1. LicensesKept
  BY LicensesSame
<1>2. Numbered(offers', Offer)
  BY DEF LicensingInv
<1>3. QED BY <1>1, <1>2, LicensesMoved

LEMMA LicensingStep ==
  ASSUME LicensingInv, now' = now,
         \/ L!LicenseNext \/ L!AccessNext \/ L!ReaderNext
         \/ L!MigrationNext \/ L!HoldingsNext \/ L!OfferNext
  PROVE  LicensingInv' /\ LicensingStands
<1> DEFINE still == UNCHANGED <<licenses, offers, grants, readers, offline, usedProofs>>
<1>1. ASSUME still PROVE LicensingInv' /\ LicenseCuts
  BY <1>1, LicensingElsewhere
<1>2. CASE L!LicenseNext
  <2>1. ASSUME NEW id, NEW at, L!ScheduleLicenseRevocation(id, at) PROVE still
    BY <2>1 DEF L!ScheduleLicenseRevocation, L!licenseCore
  <2> HIDE DEF still
  <2>2. QED BY <1>1, <1>2, <2>1, LGrantLicense, LRevokeLicense, Zenon
              DEF L!LicenseNext, LicensingStands
<1>3. CASE L!AccessNext
  <2>1. ASSUME NEW nonce, NEW work, NEW learner, L!RecordEnrollment(nonce, work, learner)
        PROVE  still
    BY <2>1 DEF L!RecordEnrollment, L!otherSide
  <2> HIDE DEF still
  <2>2. QED BY <1>1, <1>3, <2>1, LDeriveAccessGrant, Zenon DEF L!AccessNext, LicensingStands
<1>4. CASE L!ReaderNext
  BY <1>4, LCreateReaderSession, LCreateOfflineGrant, LConsumeOfflineGrant, Zenon
     DEF L!ReaderNext, LicensingStands
<1>5. CASE L!MigrationNext
  <2>1. UNCHANGED <<L!licenseCore, L!otherSide>>
    BY <1>5, Zenon DEF L!MigrationNext, L!ProposeRenditionMigration, L!AcceptRenditionMigration
  <2>2. still
    BY <2>1 DEF L!licenseCore, L!otherSide
  <2> HIDE DEF still
  <2>3. QED BY <1>1, <2>2 DEF LicensingStands
<1>6. CASE L!HoldingsNext
  <2>1. ASSUME \/ \E id, n : L!SetAllocationLimit(id, n) \/ L!AllocateSeats(id, n)
               \/ \E id, rendition, mode : \/ L!GrantEntitlement(id, rendition, mode)
                                           \/ L!RevokeEntitlement(id, rendition, mode)
               \/ \E a : L!RevokeAllocation(a)
        PROVE  still
    <3>1. UNCHANGED <<L!licenseCore, L!otherSide>>
      BY <2>1, Zenon DEF L!SetAllocationLimit, L!AllocateSeats, L!GrantEntitlement,
         L!RevokeEntitlement, L!RevokeAllocation
    <3>2. QED BY <3>1 DEF L!licenseCore, L!otherSide
  <2> HIDE DEF still
  <2>2. QED BY <1>1, <1>6, <2>1, LSeat, Zenon DEF L!HoldingsNext, LicensingStands
<1>7. CASE L!OfferNext
  <2>1. ASSUME \/ \E subject, role, until : L!IssueAttestation(subject, role, until)
               \/ \E a : L!RevokeAttestation(a)
        PROVE  still
    <3>1. UNCHANGED <<L!licenseCore, offers, readers, offline>>
      BY <2>1, Zenon DEF L!IssueAttestation, L!RevokeAttestation
    <3>2. QED BY <3>1 DEF L!licenseCore
  <2> HIDE DEF still
  <2>2. QED BY <1>1, <1>7, <2>1, LCreateRentalOffer, LAcceptRentalOffer, Zenon
              DEF L!OfferNext, LicensingStands
<1>8. QED BY <1>2, <1>3, <1>4, <1>5, <1>6, <1>7

LEMMA LicensingWithin == LicensingInv => L!DerivedWithin
<1>1. ASSUME LicensingInv PROVE L!DerivedWithin
  <2>1. Cardinality(DOMAIN grants) = Cardinality(usedProofs)
    BY <1>1 DEF LicensingInv
  <2>2. L!Cardinality(DOMAIN grants) = L!Cardinality(usedProofs)
    BY <2>1, Zenon DEF Cardinality, L!Cardinality
  <2>3. DerivedInv
    BY <1>1 DEF LicensingInv
  <2>4. QED BY <2>2, <2>3 DEF L!DerivedWithin, DerivedInv
<1>2. QED BY <1>1

-----------------------------------------------------------------------------
(* Idempotency keys and rate limits *)

KeyIds == Actors \X Operations \X Keys
Pending(p) == {id \in DOMAIN records : <<id[1], id[2]>> = p /\ records[id].status = "Pending"}

\* The counter of an actor and operation counts its keys in flight, and no counter at all
\* stands for none; a bucket that exists was used, so that only a new one is counted.
KeysInv ==
    /\ DOMAIN records \subseteq KeyIds /\ IsFiniteSet(DOMAIN records)
    /\ \A id \in DOMAIN records : "status" \in DOMAIN records[id]
    /\ DOMAIN pendingOf \subseteq Actors \X Operations
    /\ \A p \in Actors \X Operations : G!Get(pendingOf, p, 0) = Cardinality(Pending(p))
BucketsInv ==
    /\ IsFiniteSet(DOMAIN buckets)
    /\ \A b \in DOMAIN buckets : buckets[b] \in Nat \ {0}
    /\ bucketCount = Cardinality(DOMAIN buckets)

OutcomesKept ==
    \A id \in DOMAIN records :
        /\ id \in DOMAIN records'
        /\ records[id].status # "Pending" => records'[id] = records[id]
GuardsStand == [OutcomesKept]_(G!keyVars)

LEMMA GuardsInitial == G!Init => KeysInv /\ BucketsInv
<1>1. ASSUME G!Init PROVE KeysInv /\ BucketsInv
  <2>1. DOMAIN records = {} /\ DOMAIN pendingOf = {} /\ DOMAIN buckets = {} /\ bucketCount = 0
    BY <1>1 DEF G!Init, G!Empty
  <2>2. IsFiniteSet({}) /\ Cardinality({}) = 0
    BY FS_EmptySet
  <2>3. \A p : Pending(p) = {}
    BY <2>1 DEF Pending
  <2>4. QED BY <2>1, <2>2, <2>3 DEF KeysInv, BucketsInv, G!Get
<1>2. QED BY <1>1

LEMMA PendingFinite ==
  ASSUME KeysInv, NEW p PROVE IsFiniteSet(Pending(p)) /\ Cardinality(Pending(p)) \in Nat
<1>1. Pending(p) \subseteq DOMAIN records
  BY DEF Pending
<1>2. IsFiniteSet(Pending(p))
  BY <1>1, FS_Subset DEF KeysInv
<1>3. QED BY <1>2, FS_CardinalityType

LEMMA GCreateKey ==
  ASSUME KeysInv, NEW actor \in Actors, NEW operation \in Operations, NEW key \in Keys,
         NEW ttl, G!CreateKey(actor, operation, key, ttl)
  PROVE  KeysInv' /\ OutcomesKept /\ UNCHANGED G!limitVars
<1> DEFINE id == <<actor, operation, key>>
           p == <<actor, operation>>
           r == [status |-> "Pending", created_at |-> now,
                 expires_at |-> now + G!EffectiveTtl(ttl),
                 completed_at |-> 0, result_hash |-> G!NoResult]
           count == G!Get(pendingOf, p, 0) + 1
<1>1. /\ id \notin DOMAIN records /\ records' = G!Set(records, id, r)
      /\ pendingOf' = G!Set(pendingOf, p, count) /\ UNCHANGED G!limitVars
  BY DEF G!CreateKey, G!Has
<1>2. /\ id \in KeyIds /\ id[1] = actor /\ id[2] = operation /\ p \in Actors \X Operations
      /\ r.status = "Pending" /\ p = <<id[1], id[2]>> /\ "status" \in DOMAIN r
  BY DEF KeyIds
<1> HIDE DEF id, p, r
<1>3. /\ DOMAIN records' = DOMAIN records \cup {id} /\ records'[id] = r
      /\ \A x \in DOMAIN records : records'[x] = records[x]
  BY <1>1 DEF G!Set
<1>4. /\ DOMAIN records' \subseteq KeyIds /\ IsFiniteSet(DOMAIN records')
      /\ \A x \in DOMAIN records' : "status" \in DOMAIN records'[x]
  BY <1>2, <1>3, FS_AddElement DEF KeysInv
<1>5. Pending(p)' = Pending(p) \cup {id} /\ id \notin Pending(p)
  BY <1>1, <1>2, <1>3 DEF Pending
<1>6. \A q : q # p => Pending(q)' = Pending(q)
  BY <1>1, <1>2, <1>3 DEF Pending
<1>7. Cardinality(Pending(p)') = Cardinality(Pending(p)) + 1
  BY <1>5, PendingFinite, FS_AddElement
<1>8. ASSUME NEW q \in Actors \X Operations
      PROVE  G!Get(pendingOf', q, 0) = Cardinality(Pending(q)')
  <2>1. CASE q = p
    <3>1. G!Get(pendingOf', q, 0) = count
      BY <1>1, <2>1 DEF G!Get, G!Set
    <3>2. G!Get(pendingOf, p, 0) = Cardinality(Pending(p))
      BY <1>2 DEF KeysInv
    <3>3. QED BY <1>7, <2>1, <3>1, <3>2
  <2>2. CASE q # p
    <3>1. G!Get(pendingOf', q, 0) = G!Get(pendingOf, q, 0)
      BY <1>1, <2>2 DEF G!Get, G!Set
    <3>2. G!Get(pendingOf, q, 0) = Cardinality(Pending(q))
      BY DEF KeysInv
    <3>3. QED BY <1>6, <2>2, <3>1, <3>2
  <2>3. QED BY <2>1, <2>2
<1>9. DOMAIN pendingOf' \subseteq Actors \X Operations
  BY <1>1, <1>2 DEF KeysInv, G!Set
<1>10. KeysInv'
  BY <1>4, <1>8, <1>9 DEF KeysInv
<1>11. OutcomesKept
  BY <1>1, <1>3 DEF OutcomesKept
<1>12. QED BY <1>1, <1>10, <1>11

LEMMA GTransition ==
  ASSUME KeysInv, NEW actor \in Actors, NEW operation \in Operations, NEW key \in Keys,
         NEW status, status # "Pending", NEW result,
         G!Transition(actor, operation, key, status, result)
  PROVE  KeysInv' /\ OutcomesKept
<1> DEFINE id == <<actor, operation, key>>
           p == <<actor, operation>>
           r == [records[id] EXCEPT !.status = status, !.completed_at = now,
                                    !.result_hash = result]
<1>1. /\ id \in DOMAIN records /\ records[id].status = "Pending"
      /\ records' = [records EXCEPT ![id] = r]
      /\ pendingOf' = [pendingOf EXCEPT ![p] = IF @ > 0 THEN @ - 1 ELSE 0]
  BY DEF G!Transition, G!InFlight, G!Has
<1>2. p \in Actors \X Operations /\ p = <<id[1], id[2]>>
  OBVIOUS
<1>3. r.status = status /\ "status" \in DOMAIN r
  BY <1>1 DEF KeysInv
<1> HIDE DEF id, p, r
<1>4. r.status # "Pending"
  BY <1>3
<1>5. /\ DOMAIN records' = DOMAIN records /\ records'[id] = r
      /\ \A x \in DOMAIN records \ {id} : records'[x] = records[x]
      /\ \A x \in DOMAIN records' : "status" \in DOMAIN records'[x]
  BY <1>1, <1>3 DEF KeysInv
<1>6. Pending(p)' = Pending(p) \ {id} /\ id \in Pending(p)
  BY <1>1, <1>2, <1>4, <1>5 DEF Pending
<1>7. \A q : q # p => Pending(q)' = Pending(q)
  BY <1>2, <1>5 DEF Pending
<1>8. Cardinality(Pending(p)') = Cardinality(Pending(p)) - 1 /\ Cardinality(Pending(p)) > 0
  <2>1. IsFiniteSet(Pending(p)) /\ Cardinality(Pending(p)) \in Nat
    BY PendingFinite
  <2>2. Cardinality(Pending(p)) # 0
    BY <1>6, <2>1, FS_EmptySet
  <2>3. Cardinality(Pending(p)') = Cardinality(Pending(p)) - 1
    BY <1>6, <2>1, FS_RemoveElement
  <2>4. QED BY <2>1, <2>2, <2>3
<1>9. G!Get(pendingOf, p, 0) = Cardinality(Pending(p)) /\ Cardinality(Pending(p)) \in Nat
  BY <1>2, PendingFinite DEF KeysInv
<1>10. p \in DOMAIN pendingOf /\ pendingOf[p] = Cardinality(Pending(p))
  BY <1>8, <1>9 DEF G!Get
<1>11. ASSUME NEW q \in Actors \X Operations
       PROVE  G!Get(pendingOf', q, 0) = Cardinality(Pending(q)')
  <2>1. CASE q = p
    <3>1. G!Get(pendingOf', q, 0) = Cardinality(Pending(p)) - 1
      BY <1>1, <1>8, <1>10, <2>1 DEF G!Get
    <3>2. QED BY <1>8, <2>1, <3>1
  <2>2. CASE q # p
    <3>1. G!Get(pendingOf', q, 0) = G!Get(pendingOf, q, 0)
      BY <1>1, <2>2 DEF G!Get
    <3>2. G!Get(pendingOf, q, 0) = Cardinality(Pending(q))
      BY DEF KeysInv
    <3>3. QED BY <1>7, <2>2, <3>1, <3>2
  <2>3. QED BY <2>1, <2>2
<1>12. DOMAIN pendingOf' = DOMAIN pendingOf
  BY <1>1
<1>13. KeysInv'
  BY <1>5, <1>11, <1>12 DEF KeysInv
<1>14. OutcomesKept
  BY <1>1, <1>5 DEF OutcomesKept
<1>15. QED BY <1>13, <1>14

LEMMA GCheckAndRecord ==
  ASSUME BucketsInv, NEW actor, NEW action, G!CheckAndRecord(actor, action)
  PROVE  BucketsInv' /\ UNCHANGED G!keyVars
<1> DEFINE id == <<actor, action, G!WindowId(action)>>
           current == G!Get(buckets, id, 0)
<1>1. /\ bucketCount' = IF current = 0 THEN bucketCount + 1 ELSE bucketCount
      /\ buckets' = G!Set(buckets, id, current + 1)
      /\ UNCHANGED G!keyVars
  BY DEF G!CheckAndRecord
<1>2. current \in Nat /\ (current = 0 <=> id \notin DOMAIN buckets)
  BY DEF BucketsInv, G!Get
<1> HIDE DEF id, current
<1>3. DOMAIN buckets' = DOMAIN buckets \cup {id}
  BY <1>1 DEF G!Set
<1>4. \A b \in DOMAIN buckets' : buckets'[b] \in Nat \ {0}
  BY <1>1, <1>2 DEF G!Set, BucketsInv
<1>5. IsFiniteSet(DOMAIN buckets') /\ bucketCount' = Cardinality(DOMAIN buckets')
  <2>1. CASE id \in DOMAIN buckets
    <3>1. DOMAIN buckets' = DOMAIN buckets /\ bucketCount' = bucketCount
      BY <1>1, <1>2, <1>3, <2>1
    <3>2. QED BY <3>1 DEF BucketsInv
  <2>2. CASE id \notin DOMAIN buckets
    BY <1>1, <1>2, <1>3, <2>2, FS_AddElement DEF BucketsInv
  <2>3. QED BY <2>1, <2>2
<1>6. QED BY <1>1, <1>4, <1>5 DEF BucketsInv

LEMMA GuardsStep ==
  ASSUME KeysInv, BucketsInv, G!KeyNext \/ G!LimitNext
  PROVE  KeysInv' /\ BucketsInv' /\ GuardsStand
<1>1. ASSUME UNCHANGED G!keyVars PROVE KeysInv'
  <2>1. records' = records /\ pendingOf' = pendingOf
    BY <1>1 DEF G!keyVars
  <2>2. \A p : Pending(p)' = Pending(p)
    BY <2>1 DEF Pending
  <2>3. QED BY <2>1, <2>2 DEF KeysInv
<1>2. ASSUME UNCHANGED G!limitVars PROVE BucketsInv'
  BY <1>2 DEF G!limitVars, BucketsInv
<1>3. CASE G!KeyNext
  <2>1. ASSUME NEW a \in Actors, NEW op \in Operations, NEW k \in Keys, NEW r,
               G!CompleteSuccess(a, op, k, r) \/ G!CompleteFailure(a, op, k, r)
        PROVE  KeysInv' /\ OutcomesKept /\ UNCHANGED G!limitVars
    BY <2>1, GTransition DEF G!CompleteSuccess, G!CompleteFailure
  <2>2. QED BY <1>2, <1>3, <2>1, GCreateKey, Zenon DEF G!KeyNext, GuardsStand
<1>4. CASE G!LimitNext
  <2>1. ASSUME \/ \E action, c : G!SetActionConfig(action, c)
               \/ \E s : G!GrantServiceAuth(s) \/ G!RevokeServiceAuth(s)
        PROVE  BucketsInv' /\ UNCHANGED G!keyVars
    <3>1. UNCHANGED <<buckets, bucketCount, G!keyVars>>
      BY <2>1, Zenon DEF G!SetActionConfig, G!GrantServiceAuth, G!RevokeServiceAuth
    <3>2. QED BY <3>1 DEF BucketsInv
  <2>2. BucketsInv' /\ UNCHANGED G!keyVars
    BY <1>4, <2>1, GCheckAndRecord, Zenon DEF G!LimitNext
  <2>3. QED BY <1>1, <2>2 DEF GuardsStand
<1>5. QED BY <1>3, <1>4

LEMMA GuardsCounted == KeysInv /\ BucketsInv => G!InFlightExact /\ G!BucketsCounted
<1>1. ASSUME KeysInv, BucketsInv PROVE G!InFlightExact /\ G!BucketsCounted
  <2>1. ASSUME NEW p \in DOMAIN pendingOf PROVE pendingOf[p] = Cardinality(Pending(p))
    BY <1>1 DEF KeysInv, G!Get
  <2>2. \A U : Cardinality(U) = G!Cardinality(U)
    BY Zenon DEF Cardinality, G!Cardinality
  <2>3. QED BY <1>1, <2>1, <2>2, Zenon DEF G!InFlightExact, G!BucketsCounted, Pending, BucketsInv
<1>2. QED BY <1>1

-----------------------------------------------------------------------------
(* Certificates *)

AtMostOne(proposal) == \A p, q \in proposal : p = q

\* Token ids are handed out in order and every one was minted; a proof that minted is used.
CertificatesInv ==
    /\ AtMostOne(pendingAdmin) /\ AtMostOne(pendingKey) /\ AtMostOne(pendingMinter)
    /\ nextTokenId \in Nat
    /\ DOMAIN mintedBy = {i \in Nat : i < nextTokenId}
    /\ \A k \in DOMAIN certificates : certificates[k] \in DOMAIN mintedBy
    /\ \A i \in DOMAIN mintedBy : mintedBy[i].nonce \subseteq usedNonces
    /\ C!TokenIdsUnique /\ C!NonceMintsOnce

CertificatesKept ==
    /\ \A k \in DOMAIN certificates \cap DOMAIN certificates' : certificates'[k] = certificates[k]
    /\ \A k \in DOMAIN certificates' \ DOMAIN certificates :
           certificates'[k] \notin {certificates[l] : l \in DOMAIN certificates}
RolesProposed ==
    /\ certAdmin' # certAdmin => \E p \in pendingAdmin : p.who = certAdmin' /\ now <= p.expiry
    /\ backendKey' # backendKey => \E p \in pendingKey : p.who = backendKey' /\ now <= p.expiry
    /\ certMinter' # certMinter =>
           \E p \in pendingMinter : p.who = certMinter' /\ now <= p.expiry
CertificatesStand == [CertificatesKept /\ RolesProposed]_(C!certificateVars)

LEMMA CertificatesInitial == C!Init => CertificatesInv
<1>1. ASSUME C!Init PROVE CertificatesInv
  <2>1. /\ pendingAdmin = {} /\ pendingKey = {} /\ pendingMinter = {}
        /\ nextTokenId = 0 /\ DOMAIN certificates = {} /\ DOMAIN mintedBy = {}
    BY <1>1 DEF C!Init, C!Empty
  <2>2. QED BY <2>1 DEF CertificatesInv, AtMostOne, C!TokenIdsUnique, C!NonceMintsOnce
<1>2. QED BY <1>1

\* The steps of the roles leave the certificates alone.
LEMMA RolesMoved ==
  ASSUME CertificatesInv, UNCHANGED C!tokenVars, RolesProposed,
         AtMostOne(pendingAdmin'), AtMostOne(pendingKey'), AtMostOne(pendingMinter')
  PROVE  CertificatesInv' /\ CertificatesKept
<1>1. UNCHANGED <<certificates, nextTokenId, usedNonces, mintedBy>>
  BY DEF C!tokenVars
<1>2. CertificatesInv'
  BY <1>1 DEF CertificatesInv, C!TokenIdsUnique, C!NonceMintsOnce
<1>3. QED BY <1>1, <1>2 DEF CertificatesKept

\* Taking up a proposal that is open takes the one that is stored.
LEMMA ProposalTaken ==
  ASSUME NEW proposal, AtMostOne(proposal), C!Open(proposal)
  PROVE  \E p \in proposal : p.who = C!Proposed(proposal) /\ now <= p.expiry
<1>1. PICK p \in proposal : now <= p.expiry
  BY DEF C!Open
<1>2. \A q \in proposal : q = p
  BY <1>1 DEF AtMostOne
<1>3. (CHOOSE q \in proposal : TRUE) = p
  BY <1>1, <1>2
<1>4. QED BY <1>1, <1>3 DEF C!Proposed

LEMMA CRoles ==
  ASSUME CertificatesInv,
         \/ \E a : C!ProposeAdminTransfer(a)
         \/ C!AcceptAdminTransfer \/ C!CancelAdminTransfer
         \/ \E m : C!ProposeMinterRotation(m)
         \/ C!ActivateMinterRotation \/ C!CancelMinterRotation
         \/ \E k : C!ProposeKeyRotation(k)
         \/ C!ActivateKeyRotation \/ C!CancelKeyRotation
         \/ \E p : C!TogglePause(p)
  PROVE  CertificatesInv' /\ CertificatesKept /\ RolesProposed
<1>1. /\ AtMostOne(pendingAdmin) /\ AtMostOne(pendingKey) /\ AtMostOne(pendingMinter)
      /\ AtMostOne({}) /\ \A who, ttl : AtMostOne(C!ProposalUntil(who, ttl))
  BY DEF CertificatesInv, AtMostOne, C!ProposalUntil
<1>2. CASE \/ \E a : C!ProposeAdminTransfer(a)
           \/ C!AcceptAdminTransfer \/ C!CancelAdminTransfer
  <2>1. UNCHANGED <<backendKey, certMinter, pendingKey, pendingMinter, C!tokenVars>>
    BY <1>2, Zenon DEF C!ProposeAdminTransfer, C!AcceptAdminTransfer, C!CancelAdminTransfer
  <2>2. AtMostOne(pendingAdmin')
    BY <1>1, <1>2, Zenon
       DEF C!ProposeAdminTransfer, C!AcceptAdminTransfer, C!CancelAdminTransfer
  <2>3. certAdmin' # certAdmin => \E p \in pendingAdmin : p.who = certAdmin' /\ now <= p.expiry
    BY <1>1, <1>2, ProposalTaken
       DEF C!ProposeAdminTransfer, C!AcceptAdminTransfer, C!CancelAdminTransfer
  <2>4. RolesProposed
    BY <2>1, <2>3 DEF RolesProposed
  <2>5. QED BY <1>1, <2>1, <2>2, <2>4, RolesMoved
<1>3. CASE \/ \E m : C!ProposeMinterRotation(m)
           \/ C!ActivateMinterRotation \/ C!CancelMinterRotation
  <2>1. UNCHANGED <<certAdmin, backendKey, pendingAdmin, pendingKey, C!tokenVars>>
    BY <1>3, Zenon
       DEF C!ProposeMinterRotation, C!ActivateMinterRotation, C!CancelMinterRotation
  <2>2. AtMostOne(pendingMinter')
    BY <1>1, <1>3, Zenon
       DEF C!ProposeMinterRotation, C!ActivateMinterRotation, C!CancelMinterRotation
  <2>3. certMinter' # certMinter =>
            \E p \in pendingMinter : p.who = certMinter' /\ now <= p.expiry
    BY <1>1, <1>3, ProposalTaken
       DEF C!ProposeMinterRotation, C!ActivateMinterRotation, C!CancelMinterRotation
  <2>4. RolesProposed
    BY <2>1, <2>3 DEF RolesProposed
  <2>5. QED BY <1>1, <2>1, <2>2, <2>4, RolesMoved
<1>4. CASE \/ \E k : C!ProposeKeyRotation(k)
           \/ C!ActivateKeyRotation \/ C!CancelKeyRotation
  <2>1. UNCHANGED <<certAdmin, certMinter, pendingAdmin, pendingMinter, C!tokenVars>>
    BY <1>4, Zenon DEF C!ProposeKeyRotation, C!ActivateKeyRotation, C!CancelKeyRotation
  <2>2. AtMostOne(pendingKey')
    BY <1>1, <1>4, Zenon DEF C!ProposeKeyRotation, C!ActivateKeyRotation, C!CancelKeyRotation
  <2>3. backendKey' # backendKey => \E p \in pendingKey : p.who = backendKey' /\ now <= p.expiry
    BY <1>1, <1>4, ProposalTaken
       DEF C!ProposeKeyRotation, C!ActivateKeyRotation, C!CancelKeyRotation
  <2>4. RolesProposed
    BY <2>1, <2>3 DEF RolesProposed
  <2>5. QED BY <1>1, <2>1, <2>2, <2>4, RolesMoved
<1>5. CASE \E p : C!TogglePause(p)
  <2>1. UNCHANGED <<certAdmin, backendKey, certMinter, pendingAdmin, pendingKey, pendingMinter,
                    C!tokenVars>>
    BY <1>5 DEF C!TogglePause, C!roleVars
  <2>2. RolesProposed
    BY <2>1 DEF RolesProposed
  <2>3. QED BY <1>1, <2>1, <2>2, RolesMoved
<1>6. QED BY <1>2, <1>3, <1>4, <1>5

\* A certificate is saved under a fresh token id, with no proof or with one not used before.
LEMMA CSaveCertificate ==
  ASSUME CertificatesInv, NEW recipient, NEW course, NEW how,
         C!SaveCertificate(recipient, course, how),
         how.nonce \cap usedNonces = {}, usedNonces' = usedNonces \cup how.nonce
  PROVE  CertificatesInv' /\ CertificatesKept /\ RolesProposed
<1> DEFINE k == <<recipient, course>>
<1>1. /\ k \notin DOMAIN certificates
      /\ certificates' = C!Set(certificates, k, nextTokenId)
      /\ nextTokenId' = nextTokenId + 1
      /\ mintedBy' = C!Set(mintedBy, nextTokenId, how)
  BY DEF C!SaveCertificate, C!Has
<1>2. UNCHANGED <<certAdmin, backendKey, certMinter, pendingAdmin, pendingKey, pendingMinter>>
  BY DEF C!SaveCertificate, C!roleVars
<1> HIDE DEF k
<1>3. /\ DOMAIN certificates' = DOMAIN certificates \cup {k} /\ certificates'[k] = nextTokenId
      /\ \A x \in DOMAIN certificates : certificates'[x] = certificates[x]
  BY <1>1 DEF C!Set
<1>4. /\ DOMAIN mintedBy' = DOMAIN mintedBy \cup {nextTokenId} /\ mintedBy'[nextTokenId] = how
      /\ \A i \in DOMAIN mintedBy : mintedBy'[i] = mintedBy[i]
  BY <1>1 DEF C!Set, CertificatesInv
<1>5. nextTokenId \notin DOMAIN mintedBy /\ nextTokenId \in Nat
  BY DEF CertificatesInv
<1>6. nextTokenId' \in Nat /\ DOMAIN mintedBy' = {i \in Nat : i < nextTokenId'}
  BY <1>1, <1>4 DEF CertificatesInv
<1>7. \A x \in DOMAIN certificates' : certificates'[x] \in DOMAIN mintedBy'
  BY <1>3, <1>4 DEF CertificatesInv
<1>8. \A i \in DOMAIN mintedBy' : mintedBy'[i].nonce \subseteq usedNonces'
  BY <1>4 DEF CertificatesInv
<1>9. C!TokenIdsUnique'
  BY <1>3, <1>5, <1>7 DEF C!TokenIdsUnique, CertificatesInv
<1>10. C!NonceMintsOnce'
  <2>1. \A i \in DOMAIN mintedBy : mintedBy[i].nonce \cap how.nonce = {}
    BY DEF CertificatesInv
  <2>2. SUFFICES ASSUME NEW i \in DOMAIN mintedBy', NEW j \in DOMAIN mintedBy', i # j
                 PROVE  mintedBy'[i].nonce \cap mintedBy'[j].nonce = {}
    BY DEF C!NonceMintsOnce
  <2>3. CASE i \in DOMAIN mintedBy /\ j \in DOMAIN mintedBy
    BY <1>4, <2>2, <2>3 DEF CertificatesInv, C!NonceMintsOnce
  <2>4. CASE i = nextTokenId
    <3>1. j \in DOMAIN mintedBy
      BY <1>4, <2>2, <2>4
    <3>2. QED BY <1>4, <2>1, <2>4, <3>1
  <2>5. CASE j = nextTokenId
    <3>1. i \in DOMAIN mintedBy
      BY <1>4, <2>2, <2>5
    <3>2. QED BY <1>4, <2>1, <2>5, <3>1
  <2>6. QED BY <1>4, <2>3, <2>4, <2>5
<1>11. CertificatesInv'
  BY <1>2, <1>6, <1>7, <1>8, <1>9, <1>10 DEF CertificatesInv
<1>12. CertificatesKept
  <2>1. \A x \in DOMAIN certificates : certificates[x] # nextTokenId
    BY <1>5 DEF CertificatesInv
  <2>2. QED BY <1>1, <1>3, <2>1 DEF CertificatesKept
<1>13. RolesProposed
  BY <1>2 DEF RolesProposed
<1>14. QED BY <1>11, <1>12, <1>13

LEMMA CRevoke ==
  ASSUME CertificatesInv, NEW recipient, NEW course, C!RevokeImpl(recipient, course)
  PROVE  CertificatesInv' /\ CertificatesKept /\ RolesProposed
<1>1. /\ certificates' = C!Remove(certificates, {<<recipient, course>>})
      /\ UNCHANGED <<nextTokenId, usedNonces, mintedBy>>
  BY DEF C!RevokeImpl
<1>2. UNCHANGED <<certAdmin, backendKey, certMinter, pendingAdmin, pendingKey, pendingMinter>>
  BY DEF C!RevokeImpl, C!roleVars
<1>3. /\ DOMAIN certificates' \subseteq DOMAIN certificates
      /\ \A x \in DOMAIN certificates' : certificates'[x] = certificates[x]
  BY <1>1 DEF C!Remove
<1>4. CertificatesInv'
  <2>1. C!TokenIdsUnique' /\ C!NonceMintsOnce'
    BY <1>1, <1>3 DEF CertificatesInv, C!TokenIdsUnique, C!NonceMintsOnce
  <2>2. QED BY <1>1, <1>2, <1>3, <2>1 DEF CertificatesInv
<1>5. CertificatesKept
  BY <1>3 DEF CertificatesKept
<1>6. RolesProposed
  BY <1>2 DEF RolesProposed
<1>7. QED BY <1>4, <1>5, <1>6

LEMMA CertificatesStep ==
  ASSUME CertificatesInv, C!MintNext \/ C!RoleNext
  PROVE  CertificatesInv' /\ CertificatesStand
<1>1. ASSUME NEW proof, C!Mint(proof)
      PROVE  CertificatesInv' /\ CertificatesKept /\ RolesProposed
  <2> DEFINE how == [nonce |-> {proof.nonce}, key |-> {proof.key}, currentKey |-> {backendKey}]
  <2>1. /\ C!SaveCertificate(proof.recipient, proof.course, how)
        /\ proof.nonce \notin usedNonces /\ usedNonces' = usedNonces \cup {proof.nonce}
    BY <1>1, Zenon DEF C!Mint, C!ConsumeNonce
  <2>2. how.nonce = {proof.nonce}
    OBVIOUS
  <2> HIDE DEF how
  <2>3. how.nonce \cap usedNonces = {} /\ usedNonces' = usedNonces \cup how.nonce
    BY <2>1, <2>2
  <2>4. QED BY <2>1, <2>3, CSaveCertificate
<1>2. ASSUME NEW r, NEW c, C!MintCertificate(r, c)
      PROVE  CertificatesInv' /\ CertificatesKept /\ RolesProposed
  <2> DEFINE how == [nonce |-> {}, key |-> {}, currentKey |-> {}]
  <2>1. C!SaveCertificate(r, c, how) /\ usedNonces' = usedNonces
    BY <1>2, Zenon DEF C!MintCertificate
  <2>2. how.nonce = {}
    OBVIOUS
  <2> HIDE DEF how
  <2>3. how.nonce \cap usedNonces = {} /\ usedNonces' = usedNonces \cup how.nonce
    BY <2>1, <2>2
  <2>4. QED BY <2>1, <2>3, CSaveCertificate
<1>3. CASE C!MintNext
  BY <1>1, <1>2, <1>3, CRevoke, CRoles, Zenon DEF C!MintNext, CertificatesStand
<1>4. CASE C!RoleNext
  BY <1>4, CRoles, Zenon DEF C!RoleNext, CertificatesStand
<1>5. QED BY <1>3, <1>4

-----------------------------------------------------------------------------
(* Eligibility *)

WellFormed(rule) ==
    /\ S!Elements(rule.all_of) \cap S!Elements(rule.any_of) = {}
    /\ \A l \in {rule.all_of, rule.any_of} : Cardinality(S!Elements(l)) = Len(l)
GoodRules == {rule \in CriterionRules : WellFormed(rule)}
RulesInv == \A p \in DOMAIN mentorRules : mentorRules[p] \in Seq(GoodRules)

\* A list has no more elements than places.
LEMMA ElementsCounted ==
  ASSUME NEW Kind, NEW l \in Seq(Kind)
  PROVE  IsFiniteSet(S!Elements(l)) /\ Cardinality(S!Elements(l)) <= Len(l)
<1>1. IsFiniteSet(1..Len(l)) /\ Cardinality(1..Len(l)) = Len(l)
  <2>1. \A n \in Nat : IsFiniteSet(1..n) /\ Cardinality(1..n) = n
    BY FS_Interval
  <2>2. Len(l) \in Nat
    OBVIOUS
  <2>3. QED BY <2>1, <2>2
<1>2. S!Elements(l) = {l[i] : i \in 1..Len(l)}
  BY DEF S!Elements
<1>3. IsFiniteSet({l[i] : i \in 1..Len(l)}) /\ Cardinality({l[i] : i \in 1..Len(l)}) <= Len(l)
  <2> DEFINE U == 1..Len(l)
             V == {l[i] : i \in 1..Len(l)}
             f == [i \in U |-> l[i]]
  <2>1. f \in Surjection(U, V)
    BY DEF Surjection
  <2>2. IsFiniteSet(U) /\ Cardinality(U) = Len(l)
    BY <1>1
  <2> HIDE DEF U, V, f
  <2>3. IsFiniteSet(V) /\ Cardinality(V) <= Cardinality(U)
    BY <2>1, <2>2, FS_Surjection
  <2>4. QED BY <2>2, <2>3 DEF V
<1>4. QED BY <1>2, <1>3

\* As many criteria as places in the two lists: no criterion stands in two places.
LEMMA CountedRuleWellFormed ==
  ASSUME NEW rule \in CriterionRules,
         Cardinality(S!CriteriaOf(rule)) = Len(rule.all_of) + Len(rule.any_of)
  PROVE  WellFormed(rule)
<1> DEFINE A == S!Elements(rule.all_of)
           B == S!Elements(rule.any_of)
           m == Len(rule.all_of)
           n == Len(rule.any_of)
<1>1. rule.all_of \in Seq(Criteria) /\ rule.any_of \in Seq(Criteria)
  BY PlatformConstants
<1>2. /\ IsFiniteSet(A) /\ Cardinality(A) <= m /\ m \in Nat
      /\ IsFiniteSet(B) /\ Cardinality(B) <= n /\ n \in Nat
  BY <1>1, ElementsCounted
<1>3. Cardinality(A \cup B) = m + n
  BY DEF S!CriteriaOf
<1> HIDE DEF A, B, m, n
<1>4. Cardinality(A \cup B) = Cardinality(A) + Cardinality(B) - Cardinality(A \cap B)
  BY <1>2, FS_Union
<1>5. /\ Cardinality(A) \in Nat /\ Cardinality(B) \in Nat /\ Cardinality(A \cap B) \in Nat
      /\ IsFiniteSet(A \cap B)
  <2>1. IsFiniteSet(A \cap B)
    BY <1>2, FS_Intersection
  <2>2. QED BY <1>2, <2>1, FS_CardinalityType
<1>6. Cardinality(A) = m /\ Cardinality(B) = n /\ Cardinality(A \cap B) = 0
  BY <1>2, <1>3, <1>4, <1>5
<1>7. A \cap B = {}
  BY <1>5, <1>6, FS_EmptySet
<1>8. QED BY <1>6, <1>7 DEF WellFormed, A, B, m, n

LEMMA RulesInitial == S!Init => RulesInv
BY DEF S!Init, S!Empty, RulesInv

LEMMA SPublishMentorshipEligibilityRule ==
  ASSUME RulesInv, NEW p, NEW rule \in CriterionRules,
         S!PublishMentorshipEligibilityRule(p, rule)
  PROVE  RulesInv'
<1>1. /\ Cardinality(S!CriteriaOf(rule)) = Len(rule.all_of) + Len(rule.any_of)
      /\ mentorRules' = S!Set(mentorRules, p, Append(S!Versions(mentorRules, p), rule))
  <2>1. \A U : Cardinality(U) = S!Cardinality(U)
    BY Zenon DEF Cardinality, S!Cardinality
  <2>2. QED BY <2>1 DEF S!PublishMentorshipEligibilityRule
<1>2. rule \in GoodRules
  BY <1>1, CountedRuleWellFormed DEF GoodRules
<1>3. S!Versions(mentorRules, p) \in Seq(GoodRules)
  BY DEF S!Versions, S!Get, RulesInv
<1> DEFINE list == Append(S!Versions(mentorRules, p), rule)
<1>4. list \in Seq(GoodRules)
  BY <1>2, <1>3
<1>5. mentorRules' = S!Set(mentorRules, p, list)
  BY <1>1
<1> HIDE DEF list
<1>6. QED BY <1>4, <1>5 DEF S!Set, RulesInv

LEMMA ScreeningStep ==
  ASSUME RulesInv, S!TypeNext \/ S!CriterionNext
  PROVE  RulesInv'
<1>1. ASSUME UNCHANGED mentorRules PROVE RulesInv'
  BY <1>1 DEF RulesInv
<1>2. CASE S!TypeNext
  <2>1. UNCHANGED mentorRules
    BY <1>2, Zenon DEF S!TypeNext, S!AddIssuer, S!RemoveIssuer, S!PublishEligibilityRule,
       S!IssueAttestation, S!RevokeAttestation
  <2>2. QED BY <1>1, <2>1
<1>3. CASE S!CriterionNext
  <2>1. ASSUME \/ \E i : S!AddIssuer(i) \/ S!RemoveIssuer(i)
               \/ \E i, s, p, c, e : S!IssueCriterionAttestation(i, s, p, c, e)
               \/ \E caller, k : S!RevokeCriterionAttestation(caller, k)
        PROVE  UNCHANGED mentorRules
    BY <2>1, Zenon DEF S!AddIssuer, S!RemoveIssuer, S!IssueCriterionAttestation,
       S!RevokeCriterionAttestation
  <2>2. QED BY <1>1, <1>3, <2>1, SPublishMentorshipEligibilityRule, Zenon DEF S!CriterionNext
<1>4. QED BY <1>2, <1>3

LEMMA RulesGood == RulesInv => S!RulesWellFormed
<1>1. ASSUME RulesInv PROVE S!RulesWellFormed
  <2>1. \A U : Cardinality(U) = S!Cardinality(U)
    BY Zenon DEF Cardinality, S!Cardinality
  <2>2. ASSUME NEW p \in DOMAIN mentorRules, NEW i \in DOMAIN mentorRules[p]
        PROVE  WellFormed(mentorRules[p][i])
    <3>1. mentorRules[p] \in Seq(GoodRules)
      BY <1>1 DEF RulesInv
    <3>2. mentorRules[p][i] \in GoodRules
      BY <3>1
    <3>3. QED BY <3>2 DEF GoodRules
  <2>3. QED BY <2>1, <2>2, Zenon DEF S!RulesWellFormed, WellFormed
<1>2. QED BY <1>1

\* Holds of every state by what evaluate_eligibility reads: Valid is the evidence.
LEMMA EvidenceLive == S!EligibleOnLiveEvidence
<1>1. \A store, k : S!Valid(store, k) <=>
          k \in DOMAIN store /\ store[k].expiry > now /\ ~store[k].revoked
  BY DEF S!Valid, S!Has
<1> DEFINE live(store, k) == k \in DOMAIN store /\ store[k].expiry > now /\ ~store[k].revoked
<1>2. ASSUME NEW p, NEW s, S!EvaluateEligibility(p, s)
      PROVE  \A t \in S!Elements(S!Latest(typeRules, p)) :
                 \E scope \in {p, GlobalScope} : live(attested, <<s, scope, t>>)
  BY <1>1, <1>2, Zenon DEF S!EvaluateEligibility, S!HasValidAttestation
<1>3. ASSUME NEW p, NEW s, S!EvaluateMentorshipEligibility(p, s), NEW rule,
             rule = S!Latest(mentorRules, p)
      PROVE  /\ \A c \in S!Elements(rule.all_of) : S!HasValidCriterionAttestation(s, p, c)
             /\ \/ rule.any_of = <<>>
                \/ \E c \in S!Elements(rule.any_of) : S!HasValidCriterionAttestation(s, p, c)
  BY <1>3, Zenon DEF S!EvaluateMentorshipEligibility
<1>4. ASSUME NEW p, NEW s, S!EvaluateMentorshipEligibility(p, s), NEW rule,
             rule = S!Latest(mentorRules, p)
      PROVE  /\ \A c \in S!Elements(rule.all_of) : live(criterionOf, <<s, p, c>>)
             /\ \/ rule.any_of = <<>>
                \/ \E c \in S!Elements(rule.any_of) : live(criterionOf, <<s, p, c>>)
  BY <1>1, <1>3, <1>4, Zenon DEF S!HasValidCriterionAttestation
<1> HIDE DEF live
<1>5. ASSUME NEW p \in EligPrograms, NEW s \in Subjects
      PROVE  /\ S!EvaluateEligibility(p, s) =>
                    \A t \in S!Elements(S!Latest(typeRules, p)) :
                        \E scope \in {p, GlobalScope} : live(attested, <<s, scope, t>>)
             /\ S!EvaluateMentorshipEligibility(p, s) =>
                    LET rule == S!Latest(mentorRules, p)
                    IN /\ \A c \in S!Elements(rule.all_of) : live(criterionOf, <<s, p, c>>)
                       /\ \/ rule.any_of = <<>>
                          \/ \E c \in S!Elements(rule.any_of) : live(criterionOf, <<s, p, c>>)
  <2>1. PICK rule : rule = S!Latest(mentorRules, p)
    OBVIOUS
  <2>2. QED BY <1>2, <1>4, <2>1, Zenon
<1>6. QED BY <1>5, Zenon DEF S!EligibleOnLiveEvidence, live

-----------------------------------------------------------------------------
(* The migration of legacy records *)

Run == [system : Systems, dry : BOOLEAN, cursor : Nat, mapped : Nat, sealed : BOOLEAN]
Legacy == [payload : Payloads, state : {"Mapped", "Archived"}]

OpenRuns == {run \in DOMAIN runs : ~runs[run].sealed}
MappedBy == [run \in DOMAIN runs |-> runs[run].mapped]
MappedTotal == Sum(MappedBy, Cardinality(DOMAIN runs))
Tracked == {id \in DOMAIN legacy : legacy[id].state = "Mapped"}
Total(run) == G!Get(unmapped, run, 0)
Kept(run) == G!Get(reported, run, <<>>)
Least(total) == IF total <= MAX_REPORTED_PER_RUN THEN total ELSE MAX_REPORTED_PER_RUN

RunExact(run) ==
    /\ runs[run].dry => runs[run].mapped = 0
    /\ Total(run) \in Nat
    /\ Kept(run) \in Seq(LegacyIds) /\ Len(Kept(run)) = Least(Total(run))
    /\ runs[run].mapped + Total(run) <= runs[run].cursor

\* Runs are numbered, and nothing is reported under the number of a run to come.
RunsInv ==
    /\ Numbered(runs, Run)
    /\ openRuns = Cardinality(OpenRuns)
    /\ DOMAIN unmapped \subseteq DOMAIN runs /\ DOMAIN reported \subseteq DOMAIN runs
    /\ \A run \in DOMAIN runs : RunExact(run)
LegacyInv ==
    /\ IsFiniteSet(DOMAIN legacy)
    /\ \A id \in DOMAIN legacy : legacy[id] \in Legacy
    /\ tracked = Cardinality(Tracked)
    /\ MappedTotal = Cardinality(DOMAIN legacy)

LegacyKept ==
    \A id \in DOMAIN legacy :
        /\ legacy'[id].payload = legacy[id].payload
        /\ legacy[id].state = "Archived" => legacy'[id].state = "Archived"
RunsKept ==
    \A run \in DOMAIN runs :
        /\ runs'[run].cursor >= runs[run].cursor
        /\ runs[run].sealed => runs'[run] = runs[run]
MigrationStands == [LegacyKept /\ RunsKept]_(G!migrationVars)

LEMMA MigrationInitial == G!Init => RunsInv /\ LegacyInv
<1>1. ASSUME G!Init PROVE RunsInv /\ LegacyInv
  <2> DEFINE none == [k \in {} |-> {}]
  <2>1. /\ runs = none /\ unmapped = none /\ reported = none /\ legacy = none
        /\ openRuns = 0 /\ tracked = 0
    BY <1>1 DEF G!Init, G!Empty
  <2>2. Numbered(none, Run) /\ DOMAIN none = {}
    BY NumberedInitial
  <2>3. IsFiniteSet({}) /\ Cardinality({}) = 0
    BY FS_EmptySet
  <2> HIDE DEF none
  <2>4. OpenRuns = {} /\ Tracked = {}
    BY <2>1, <2>2 DEF OpenRuns, Tracked
  <2>5. MappedTotal = 0
    BY <2>1, <2>2, <2>3, SumZero DEF MappedTotal
  <2>6. QED BY <2>1, <2>2, <2>3, <2>4, <2>5 DEF RunsInv, LegacyInv
<1>2. QED BY <1>1

\* The total over the numbered runs, and how one rewritten run changes it.
LEMMA RunRewritten ==
  ASSUME RunsInv, NEW run \in DOMAIN runs, NEW r \in Run, runs' = [runs EXCEPT ![run] = r],
         ~runs[run].sealed, r.cursor >= runs[run].cursor
  PROVE  /\ Numbered(runs', Run) /\ DOMAIN runs' = DOMAIN runs /\ runs'[run] = r
         /\ \A x \in DOMAIN runs \ {run} : runs'[x] = runs[x]
         /\ MappedTotal' = MappedTotal + r.mapped - runs[run].mapped
         /\ OpenRuns' = IF r.sealed THEN OpenRuns \ {run} ELSE OpenRuns
         /\ RunsKept
<1>1. Numbered(runs, Run)
  BY DEF RunsInv
<1>2. /\ Numbered(runs', Run) /\ DOMAIN runs' = DOMAIN runs /\ runs'[run] = r
      /\ \A x \in DOMAIN runs \ {run} : runs'[x] = runs[x]
  BY <1>1, NumberedUpdate
<1>3. OpenRuns' = IF r.sealed THEN OpenRuns \ {run} ELSE OpenRuns
  BY <1>2 DEF OpenRuns
<1>4. RunsKept
  <2>1. \A x \in DOMAIN runs : runs[x] \in Run
    BY <1>1, NumberedMember
  <2>2. QED BY <1>2, <2>1 DEF RunsKept, Run
<1>5. MappedTotal' = MappedTotal + r.mapped - runs[run].mapped
  <2>1. PICK n \in Nat : runs \in [1..n -> Run]
    BY <1>1 DEF Numbered
  <2>2. DOMAIN runs = 1..n /\ Cardinality(1..n) = n
    BY <2>1, FS_Interval
  <2> DEFINE f == MappedBy
             g == MappedBy'
  <2>3. /\ \A i \in 1..n : f[i] \in Int /\ g[i] \in Int
        /\ f[run] = runs[run].mapped /\ g[run] = r.mapped
        /\ \A i \in 1..n : i # run => f[i] = g[i]
    BY <1>2, <2>1, <2>2 DEF MappedBy, Run
  <2>4. MappedTotal = Sum(f, n) /\ MappedTotal' = Sum(g, n)
    BY <1>2, <2>2 DEF MappedTotal
  <2> HIDE DEF f, g
  <2>5. Sum(g, n) = Sum(f, n) + g[run] - f[run]
    BY <2>2, <2>3, SumUpdate
  <2>6. QED BY <2>3, <2>4, <2>5
<1>6. QED BY <1>2, <1>3, <1>4, <1>5

LEMMA MappedTotalType == ASSUME RunsInv PROVE MappedTotal \in Int
<1>1. PICK n \in Nat : runs \in [1..n -> Run]
  BY DEF RunsInv, Numbered
<1>2. DOMAIN runs = 1..n /\ Cardinality(1..n) = n
  BY <1>1, FS_Interval
<1>3. \A i \in 1..n : MappedBy[i] \in Int
  BY <1>1, <1>2 DEF MappedBy, Run
<1>4. QED BY <1>2, <1>3, SumType DEF MappedTotal

\* A step that leaves the records alone.
LEMMA LegacySame ==
  ASSUME RunsInv, LegacyInv, UNCHANGED <<legacy, tracked>>, MappedTotal' = MappedTotal
  PROVE  LegacyInv' /\ LegacyKept
<1>1. Tracked' = Tracked
  BY DEF Tracked
<1>2. QED BY <1>1 DEF LegacyInv, LegacyKept

LEMMA GBeginRun ==
  ASSUME RunsInv, LegacyInv, NEW operator, NEW system \in Systems, NEW dry \in BOOLEAN,
         G!BeginRun(operator, system, dry)
  PROVE  RunsInv' /\ LegacyInv' /\ LegacyKept /\ RunsKept
<1> DEFINE k == Cardinality(DOMAIN runs) + 1
           r == [system |-> system, dry |-> dry, cursor |-> 0, mapped |-> 0, sealed |-> FALSE]
<1>1. /\ runs' = G!Set(runs, k, r) /\ openRuns' = openRuns + 1
      /\ UNCHANGED <<legacy, tracked, unmapped, reported>>
  <2>1. \A U : Cardinality(U) = G!Cardinality(U)
    BY Zenon DEF Cardinality, G!Cardinality
  <2>2. QED BY <2>1 DEF G!BeginRun
<1>2. PICK n \in Nat : runs \in [1..n -> Run]
  BY DEF RunsInv, Numbered
<1>3. DOMAIN runs = 1..n /\ Cardinality(DOMAIN runs) = n /\ k = n + 1 /\ IsFiniteSet(DOMAIN runs)
  <2>1. DOMAIN runs = 1..n
    BY <1>2
  <2>2. Cardinality(1..n) = n /\ IsFiniteSet(1..n)
    BY FS_Interval
  <2>3. QED BY <2>1, <2>2
<1>4. r \in Run /\ r.mapped = 0 /\ r.cursor = 0 /\ ~r.sealed
  BY DEF Run
<1> HIDE DEF k, r
<1>5. /\ k \notin DOMAIN runs /\ DOMAIN runs' = DOMAIN runs \cup {k} /\ runs'[k] = r
      /\ \A x \in DOMAIN runs : runs'[x] = runs[x]
  BY <1>1, <1>3 DEF G!Set
<1>6. Numbered(runs', Run) /\ DOMAIN runs' = 1..(n + 1)
  <2>1. 1..(n + 1) = 1..n \cup {n + 1}
    OBVIOUS
  <2>2. DOMAIN runs' = 1..(n + 1)
    BY <1>3, <1>5, <2>1
  <2>3. \A x \in DOMAIN runs' : runs'[x] \in Run
    BY <1>2, <1>3, <1>4, <1>5
  <2>4. runs' \in [1..(n + 1) -> Run]
    BY <1>1, <2>2, <2>3 DEF G!Set
  <2>5. QED BY <2>2, <2>4 DEF Numbered
<1>7. openRuns' = Cardinality(OpenRuns')
  <2>1. OpenRuns' = OpenRuns \cup {k} /\ k \notin OpenRuns
    BY <1>4, <1>5 DEF OpenRuns
  <2>2. OpenRuns \subseteq DOMAIN runs
    BY DEF OpenRuns
  <2>3. IsFiniteSet(OpenRuns)
    BY <1>3, <2>2, FS_Subset
  <2>4. Cardinality(OpenRuns') = Cardinality(OpenRuns) + 1
    BY <2>1, <2>3, FS_AddElement
  <2>5. QED BY <1>1, <2>4 DEF RunsInv
<1>8. MappedTotal' = MappedTotal
  <2>1. Cardinality(DOMAIN runs') = n + 1
    BY <1>6, FS_Interval
  <2> DEFINE f == MappedBy
             g == MappedBy'
  <2>2. /\ \A i \in 1..n : f[i] = g[i] /\ f[i] \in Int
        /\ g[n + 1] = 0
    <3>1. ASSUME NEW i \in 1..n PROVE f[i] = g[i] /\ f[i] \in Int
      <4>1. i \in DOMAIN runs /\ i \in DOMAIN runs' /\ runs'[i] = runs[i]
        BY <1>3, <1>5
      <4>2. runs[i].mapped \in Int
        BY <1>2 DEF Run
      <4>3. QED BY <4>1, <4>2 DEF MappedBy
    <3>2. g[n + 1] = 0
      BY <1>3, <1>4, <1>5 DEF MappedBy
    <3>3. QED BY <3>1, <3>2
  <2>3. MappedTotal = Sum(f, n) /\ MappedTotal' = Sum(g, n + 1)
    BY <1>3, <2>1 DEF MappedTotal
  <2> HIDE DEF f, g
  <2>4. Sum(g, n + 1) = Sum(g, n) + g[n + 1]
    BY SumSucc
  <2>5. Sum(g, n) = Sum(f, n) /\ Sum(f, n) \in Int
    BY <2>2, SumExt, SumType
  <2>6. QED BY <2>2, <2>3, <2>4, <2>5
<1>9. ASSUME NEW x \in DOMAIN runs' PROVE RunExact(x)'
  <2>1. Total(x)' = Total(x) /\ Kept(x)' = Kept(x)
    BY <1>1 DEF Total, Kept
  <2>2. CASE x = k
    <3>1. Total(x) = 0 /\ Kept(x) = <<>>
      BY <1>5, <2>2 DEF RunsInv, Total, Kept, G!Get
    <3>2. Least(0) = 0 /\ Len(<<>>) = 0 /\ <<>> \in Seq(LegacyIds)
      BY PlatformConstants DEF Least
    <3>3. QED BY <1>4, <1>5, <2>1, <2>2, <3>1, <3>2 DEF RunExact
  <2>3. CASE x # k
    <3>1. RunExact(x) /\ runs'[x] = runs[x]
      BY <1>5, <2>3 DEF RunsInv
    <3>2. QED BY <2>1, <3>1 DEF RunExact
  <2>4. QED BY <2>2, <2>3
<1>10. RunsInv'
  BY <1>1, <1>5, <1>6, <1>7, <1>9 DEF RunsInv
<1>11. RunsKept
  BY <1>2, <1>3, <1>5 DEF RunsKept, Run
<1>12. QED BY <1>1, <1>8, <1>10, <1>11, LegacySame

\* A run's position, or the end of it, is written, and nothing else of it.
LEMMA RunMoved ==
  ASSUME RunsInv, NEW run \in DOMAIN runs, NEW r \in Run, runs' = [runs EXCEPT ![run] = r],
         ~runs[run].sealed, r.cursor >= runs[run].cursor,
         r.mapped = runs[run].mapped, r.dry = runs[run].dry,
         openRuns' = IF r.sealed THEN openRuns - 1 ELSE openRuns,
         UNCHANGED <<unmapped, reported>>
  PROVE  RunsInv' /\ RunsKept /\ MappedTotal' = MappedTotal
<1>1. /\ Numbered(runs', Run) /\ DOMAIN runs' = DOMAIN runs /\ runs'[run] = r
      /\ \A x \in DOMAIN runs \ {run} : runs'[x] = runs[x]
      /\ MappedTotal' = MappedTotal + r.mapped - runs[run].mapped
      /\ OpenRuns' = IF r.sealed THEN OpenRuns \ {run} ELSE OpenRuns
      /\ RunsKept
  BY RunRewritten
<1>2. runs[run] \in Run /\ MappedTotal \in Int
  BY NumberedMember, MappedTotalType DEF RunsInv
<1>3. MappedTotal' = MappedTotal
  BY <1>1, <1>2 DEF Run
<1>4. openRuns' = Cardinality(OpenRuns')
  <2>1. OpenRuns \subseteq DOMAIN runs /\ run \in OpenRuns
    BY DEF OpenRuns
  <2>2. IsFiniteSet(DOMAIN runs)
    BY NumberedFinite DEF RunsInv
  <2>3. IsFiniteSet(OpenRuns)
    BY <2>1, <2>2, FS_Subset
  <2>4. Cardinality(OpenRuns \ {run}) = Cardinality(OpenRuns) - 1
    BY <2>1, <2>3, FS_RemoveElement
  <2>5. QED BY <1>1, <2>4 DEF RunsInv
<1>5. ASSUME NEW x \in DOMAIN runs PROVE RunExact(x)'
  <2>1. Total(x)' = Total(x) /\ Kept(x)' = Kept(x) /\ RunExact(x)
    BY DEF Total, Kept, RunsInv
  <2>2. CASE x = run
    BY <1>1, <1>2, <2>1, <2>2 DEF RunExact, Run
  <2>3. CASE x # run
    BY <1>1, <2>1, <2>3 DEF RunExact
  <2>4. QED BY <2>2, <2>3
<1>6. RunsInv'
  BY <1>1, <1>4, <1>5 DEF RunsInv
<1>7. QED BY <1>1, <1>3, <1>6

LEMMA GSealRun ==
  ASSUME RunsInv, LegacyInv, NEW operator, NEW run, G!SealRun(operator, run)
  PROVE  RunsInv' /\ LegacyInv' /\ LegacyKept /\ RunsKept
<1> DEFINE r == [runs[run] EXCEPT !.sealed = TRUE]
<1>1. /\ run \in DOMAIN runs /\ ~runs[run].sealed /\ runs' = [runs EXCEPT ![run] = r]
      /\ openRuns' = IF openRuns > 0 THEN openRuns - 1 ELSE 0
      /\ UNCHANGED <<legacy, tracked, unmapped, reported>>
  BY DEF G!SealRun, G!Has
<1>2. runs[run] \in Run
  BY <1>1, NumberedMember DEF RunsInv
<1>3. /\ r \in Run /\ r.sealed /\ r.cursor >= runs[run].cursor
      /\ r.mapped = runs[run].mapped /\ r.dry = runs[run].dry
  <2>1. r \in Run
    BY <1>2 DEF Run
  <2>2. r.sealed /\ r.cursor = runs[run].cursor
    BY <1>2 DEF Run
  <2>3. r.mapped = runs[run].mapped /\ r.dry = runs[run].dry /\ runs[run].cursor \in Nat
    BY <1>2 DEF Run
  <2>4. r.cursor >= runs[run].cursor
    BY <2>2, <2>3
  <2>5. QED BY <2>1, <2>2, <2>3, <2>4
<1> HIDE DEF r
<1>4. openRuns' = openRuns - 1
  <2>1. OpenRuns \subseteq DOMAIN runs /\ run \in OpenRuns
    BY <1>1 DEF OpenRuns
  <2>2. IsFiniteSet(OpenRuns)
    BY <2>1, NumberedFinite, FS_Subset DEF RunsInv
  <2>3. Cardinality(OpenRuns) \in Nat /\ Cardinality(OpenRuns) # 0
    BY <2>1, <2>2, FS_CardinalityType, FS_EmptySet
  <2>4. QED BY <1>1, <2>3 DEF RunsInv
<1>5. RunsInv' /\ RunsKept /\ MappedTotal' = MappedTotal
  BY <1>1, <1>3, <1>4, RunMoved
<1>6. QED BY <1>1, <1>5, LegacySame

LEMMA GMapRecord ==
  ASSUME RunsInv, LegacyInv, NEW operator, NEW run, NEW id, NEW system,
         NEW payload \in Payloads, NEW cursor \in Nat,
         G!MapRecord(operator, run, id, system, payload, cursor)
  PROVE  RunsInv' /\ LegacyInv' /\ LegacyKept /\ RunsKept
<1>1. /\ run \in DOMAIN runs /\ ~runs[run].sealed /\ cursor > runs[run].cursor
      /\ UNCHANGED <<openRuns, unmapped, reported>>
  BY DEF G!MapRecord, G!Accepts, G!Has
<1>2. runs[run] \in Run /\ MappedTotal \in Int
  BY <1>1, NumberedMember, MappedTotalType DEF RunsInv
<1>3. CASE runs' = [runs EXCEPT ![run].cursor = cursor] /\ UNCHANGED <<legacy, tracked>>
  <2> DEFINE r == [runs[run] EXCEPT !.cursor = cursor]
  <2>1. runs' = [runs EXCEPT ![run] = r]
    BY <1>3
  <2>2. /\ r \in Run /\ ~r.sealed /\ r.cursor >= runs[run].cursor
        /\ r.mapped = runs[run].mapped /\ r.dry = runs[run].dry
    BY <1>1, <1>2 DEF Run
  <2> HIDE DEF r
  <2>3. RunsInv' /\ RunsKept /\ MappedTotal' = MappedTotal
    BY <1>1, <2>1, <2>2, RunMoved
  <2>4. QED BY <1>3, <2>3, LegacySame
<1>4. CASE /\ id \notin DOMAIN legacy /\ ~runs[run].dry
           /\ runs' = [runs EXCEPT ![run].cursor = cursor, ![run].mapped = @ + 1]
           /\ legacy' = G!Set(legacy, id, [payload |-> payload, state |-> "Mapped"])
           /\ tracked' = tracked + 1
  <2> DEFINE r == [runs[run] EXCEPT !.cursor = cursor, !.mapped = runs[run].mapped + 1]
             e == [payload |-> payload, state |-> "Mapped"]
  <2>1. runs' = [runs EXCEPT ![run] = r] /\ legacy' = G!Set(legacy, id, e)
    BY <1>1, <1>4
  <2>2. /\ r \in Run /\ ~r.sealed /\ r.cursor = cursor
        /\ r.mapped = runs[run].mapped + 1 /\ ~r.dry
    BY <1>1, <1>2, <1>4 DEF Run
  <2>3. e \in Legacy /\ e.state = "Mapped"
    BY DEF Legacy
  <2> HIDE DEF r, e
  <2>4. r.cursor >= runs[run].cursor
    BY <1>1, <1>2, <2>2 DEF Run
  <2>5. /\ Numbered(runs', Run) /\ DOMAIN runs' = DOMAIN runs /\ runs'[run] = r
        /\ \A x \in DOMAIN runs \ {run} : runs'[x] = runs[x]
        /\ MappedTotal' = MappedTotal + r.mapped - runs[run].mapped
        /\ OpenRuns' = IF r.sealed THEN OpenRuns \ {run} ELSE OpenRuns
        /\ RunsKept
    BY <1>1, <2>1, <2>2, <2>4, RunRewritten
  <2>6. MappedTotal' = MappedTotal + 1
    BY <1>2, <2>2, <2>5 DEF Run
  <2>7. ASSUME NEW x \in DOMAIN runs PROVE RunExact(x)'
    <3>1. Total(x)' = Total(x) /\ Kept(x)' = Kept(x) /\ RunExact(x)
      BY <1>1 DEF Total, Kept, RunsInv
    <3>2. CASE x = run
      BY <1>1, <1>2, <2>2, <2>5, <3>1, <3>2 DEF RunExact, Run
    <3>3. CASE x # run
      BY <2>5, <3>1, <3>3 DEF RunExact
    <3>4. QED BY <3>2, <3>3
  <2>8. OpenRuns' = OpenRuns
    BY <2>2, <2>5
  <2>9. RunsInv'
    BY <1>1, <2>5, <2>7, <2>8 DEF RunsInv
  <2>10. /\ DOMAIN legacy' = DOMAIN legacy \cup {id} /\ legacy'[id] = e
         /\ \A x \in DOMAIN legacy : legacy'[x] = legacy[x]
    BY <1>4, <2>1 DEF G!Set
  <2>11. LegacyKept /\ \A x \in DOMAIN legacy' : legacy'[x] \in Legacy
    BY <2>3, <2>10 DEF LegacyKept, LegacyInv
  <2>12. /\ IsFiniteSet(DOMAIN legacy')
         /\ Cardinality(DOMAIN legacy') = Cardinality(DOMAIN legacy) + 1
    BY <1>4, <2>10, FS_AddElement DEF LegacyInv
  <2>13. tracked' = Cardinality(Tracked')
    <3>1. Tracked' = Tracked \cup {id} /\ id \notin Tracked
      BY <1>4, <2>3, <2>10 DEF Tracked
    <3>2. Tracked \subseteq DOMAIN legacy
      BY DEF Tracked
    <3>3. IsFiniteSet(Tracked)
      BY <3>2, FS_Subset DEF LegacyInv
    <3>4. Cardinality(Tracked') = Cardinality(Tracked) + 1
      BY <3>1, <3>3, FS_AddElement
    <3>5. QED BY <1>4, <3>4 DEF LegacyInv
  <2>14. LegacyInv'
    BY <2>6, <2>11, <2>12, <2>13 DEF LegacyInv
  <2>15. QED BY <2>5, <2>9, <2>11, <2>14
<1>5. QED BY <1>3, <1>4, Zenon DEF G!MapRecord, G!IsTracked, G!Has

LEMMA GReportUnmapped ==
  ASSUME RunsInv, LegacyInv, NEW operator, NEW run, NEW id \in LegacyIds, NEW cursor \in Nat,
         G!ReportUnmapped(operator, run, id, cursor)
  PROVE  RunsInv' /\ LegacyInv' /\ LegacyKept /\ RunsKept
<1> DEFINE r == [runs[run] EXCEPT !.cursor = cursor]
           total == Total(run)
           kept == Kept(run)
           longer == Append(kept, id)
<1>1. /\ run \in DOMAIN runs /\ ~runs[run].sealed /\ cursor > runs[run].cursor
      /\ unmapped' = G!Set(unmapped, run, total + 1)
      /\ reported' = IF Len(kept) < MAX_REPORTED_PER_RUN THEN G!Set(reported, run, longer)
                     ELSE reported
      /\ runs' = [runs EXCEPT ![run] = r]
      /\ UNCHANGED <<openRuns, legacy, tracked>>
  BY DEF G!ReportUnmapped, G!Accepts, G!Has, Total, Kept
<1>2. runs[run] \in Run /\ MappedTotal \in Int /\ RunExact(run)
  BY <1>1, NumberedMember, MappedTotalType DEF RunsInv
<1>3. /\ r \in Run /\ ~r.sealed /\ r.cursor = cursor /\ r.cursor >= runs[run].cursor
      /\ r.mapped = runs[run].mapped /\ r.dry = runs[run].dry
  BY <1>1, <1>2 DEF Run
<1>4. /\ total \in Nat /\ kept \in Seq(LegacyIds) /\ Len(kept) = Least(total) /\ Len(kept) \in Nat
      /\ runs[run].mapped + total <= runs[run].cursor
  BY <1>2 DEF RunExact
<1>5. longer \in Seq(LegacyIds) /\ Len(longer) = Len(kept) + 1
  BY <1>4
<1> HIDE DEF r, total, kept, longer
<1>6. /\ Numbered(runs', Run) /\ DOMAIN runs' = DOMAIN runs /\ runs'[run] = r
      /\ \A x \in DOMAIN runs \ {run} : runs'[x] = runs[x]
      /\ MappedTotal' = MappedTotal + r.mapped - runs[run].mapped
      /\ OpenRuns' = IF r.sealed THEN OpenRuns \ {run} ELSE OpenRuns
      /\ RunsKept
  BY <1>1, <1>3, RunRewritten
<1>7. MappedTotal' = MappedTotal /\ OpenRuns' = OpenRuns
  BY <1>2, <1>3, <1>6 DEF Run
<1>8. Total(run)' = total + 1
  BY <1>1 DEF Total, G!Get, G!Set
<1>9. /\ Kept(run)' \in Seq(LegacyIds)
      /\ Len(Kept(run)') = IF Len(kept) < MAX_REPORTED_PER_RUN THEN Len(kept) + 1 ELSE Len(kept)
  <2>1. CASE Len(kept) < MAX_REPORTED_PER_RUN
    <3>1. Kept(run)' = longer
      BY <1>1, <2>1 DEF Kept, G!Get, G!Set
    <3>2. QED BY <1>5, <2>1, <3>1
  <2>2. CASE ~(Len(kept) < MAX_REPORTED_PER_RUN)
    <3>1. Kept(run)' = kept
      BY <1>1, <2>2 DEF Kept, kept
    <3>2. QED BY <1>4, <2>2, <3>1
  <2>3. QED BY <2>1, <2>2
<1>10. Len(Kept(run)') = Least(Total(run)')
  BY <1>4, <1>8, <1>9, PlatformConstants DEF Least
<1>11. ASSUME NEW x \in DOMAIN runs PROVE RunExact(x)'
  <2>1. CASE x = run
    <3>1. r.mapped + (total + 1) <= r.cursor
      BY <1>1, <1>2, <1>3, <1>4 DEF Run
    <3>2. r.dry => r.mapped = 0
      BY <1>2, <1>3 DEF RunExact
    <3>3. QED BY <1>4, <1>6, <1>8, <1>9, <1>10, <2>1, <3>1, <3>2 DEF RunExact
  <2>2. CASE x # run
    <3>1. Total(x)' = Total(x) /\ Kept(x)' = Kept(x)
      BY <1>1, <2>2 DEF Total, Kept, G!Get, G!Set
    <3>2. RunExact(x) /\ runs'[x] = runs[x]
      BY <1>6, <2>2 DEF RunsInv
    <3>3. QED BY <3>1, <3>2 DEF RunExact
  <2>3. QED BY <2>1, <2>2
<1>12. DOMAIN unmapped' \subseteq DOMAIN runs' /\ DOMAIN reported' \subseteq DOMAIN runs'
  BY <1>1, <1>6 DEF RunsInv, G!Set
<1>13. RunsInv'
  BY <1>1, <1>6, <1>7, <1>11, <1>12 DEF RunsInv
<1>14. QED BY <1>1, <1>6, <1>7, <1>13, LegacySame

LEMMA GArchiveRecord ==
  ASSUME RunsInv, LegacyInv, NEW operator, NEW id, G!ArchiveRecord(operator, id)
  PROVE  RunsInv' /\ LegacyInv' /\ LegacyKept /\ RunsKept
<1> DEFINE e == [legacy[id] EXCEPT !.state = "Archived"]
<1>1. /\ id \in DOMAIN legacy /\ legacy[id].state = "Mapped"
      /\ legacy' = [legacy EXCEPT ![id] = e]
      /\ tracked' = IF tracked > 0 THEN tracked - 1 ELSE 0
      /\ UNCHANGED <<runs, openRuns, unmapped, reported>>
  BY DEF G!ArchiveRecord, G!Has
<1>2. legacy[id] \in Legacy
  BY <1>1 DEF LegacyInv
<1>3. e \in Legacy /\ e.state = "Archived" /\ e.payload = legacy[id].payload
  BY <1>2 DEF Legacy
<1> HIDE DEF e
<1>4. /\ DOMAIN legacy' = DOMAIN legacy /\ legacy'[id] = e
      /\ \A x \in DOMAIN legacy \ {id} : legacy'[x] = legacy[x]
  BY <1>1
<1>5. tracked' = Cardinality(Tracked')
  <2>1. Tracked' = Tracked \ {id} /\ id \in Tracked /\ Tracked \subseteq DOMAIN legacy
    BY <1>1, <1>3, <1>4 DEF Tracked
  <2>2. IsFiniteSet(Tracked)
    BY <2>1, FS_Subset DEF LegacyInv
  <2>3. Cardinality(Tracked) \in Nat /\ Cardinality(Tracked) # 0
    BY <2>1, <2>2, FS_CardinalityType, FS_EmptySet
  <2>4. Cardinality(Tracked') = Cardinality(Tracked) - 1
    BY <2>1, <2>2, FS_RemoveElement
  <2>5. QED BY <1>1, <2>3, <2>4 DEF LegacyInv
<1>6. MappedTotal' = MappedTotal
  BY <1>1 DEF MappedTotal, MappedBy
<1>7. LegacyInv'
  BY <1>3, <1>4, <1>5, <1>6 DEF LegacyInv
<1>8. RunsInv'
  <2>1. \A x : RunExact(x)' <=> RunExact(x)
    BY <1>1 DEF RunExact, Total, Kept
  <2>2. OpenRuns' = OpenRuns
    BY <1>1 DEF OpenRuns
  <2>3. QED BY <1>1, <2>1, <2>2 DEF RunsInv
<1>9. LegacyKept
  BY <1>1, <1>3, <1>4 DEF LegacyKept
<1>10. RunsKept
  <2>1. \A x \in DOMAIN runs : runs[x] \in Run
    BY NumberedMember DEF RunsInv
  <2>2. QED BY <1>1, <2>1 DEF RunsKept, Run
<1>11. QED BY <1>7, <1>8, <1>9, <1>10

LEMMA MigrationStep ==
  ASSUME RunsInv, LegacyInv, G!MigrationNext
  PROVE  RunsInv' /\ LegacyInv' /\ MigrationStands
<1>1. \A cursor \in 1..MaxCursor : cursor \in Nat
  OBVIOUS
<1>2. QED BY <1>1, GBeginRun, GMapRecord, GReportUnmapped, GSealRun, GArchiveRecord, Zenon
          DEF G!MigrationNext, MigrationStands

LEMMA MigrationCounted == RunsInv /\ LegacyInv => G!MigrationExact
<1>1. ASSUME RunsInv, LegacyInv PROVE G!MigrationExact
  <2>1. \A U : Cardinality(U) = G!Cardinality(U)
    BY Zenon DEF Cardinality, G!Cardinality
  <2>2. \A f, n : Sum(f, n) = G!Sum(f, n)
    BY DEF Sum, G!Sum
  <2>3. G!Sum([run \in DOMAIN runs |-> runs[run].mapped], G!Cardinality(DOMAIN runs))
          = G!Cardinality(DOMAIN legacy)
    BY <1>1, <2>1, <2>2 DEF LegacyInv, MappedTotal, MappedBy
  <2>4. openRuns = G!Cardinality({run \in DOMAIN runs : ~runs[run].sealed})
    BY <1>1, <2>1 DEF RunsInv, OpenRuns
  <2>5. tracked = G!Cardinality({id \in DOMAIN legacy : legacy[id].state = "Mapped"})
    BY <1>1, <2>1 DEF LegacyInv, Tracked
  <2>6. ASSUME NEW total \in Nat PROVE G!Min({total, MAX_REPORTED_PER_RUN}) = Least(total)
    BY PlatformConstants DEF G!Min, Least
  <2>7. ASSUME NEW run \in DOMAIN runs
        PROVE  /\ runs[run].dry => runs[run].mapped = 0
               /\ Len(Kept(run)) = G!Min({Total(run), MAX_REPORTED_PER_RUN})
               /\ runs[run].mapped + Total(run) <= runs[run].cursor
    BY <1>1, <2>6 DEF RunsInv, RunExact
  <2>8. QED BY <2>3, <2>4, <2>5, <2>7, Zenon DEF G!MigrationExact, Total, Kept
<1>2. QED BY <1>1

-----------------------------------------------------------------------------
(* Deposits held for a threshold of approvers *)

VaultRecord == [depositor : Depositors, recipient : Depositors, amount : Int,
                approvers : SUBSET Approvers, approvals : Nat, threshold : Nat,
                status : {"Pending", "Released", "Cancelled"}]
VaultAmounts == [id \in DOMAIN vaults |-> vaults[id].amount]
PendingVaults == {id \in DOMAIN vaults : vaults[id].status = "Pending"}
Votes(id) == {v \in voted : v[1] = id}
VaultTallied(id) ==
    /\ vaults[id].approvals = Cardinality(Votes(id))
    /\ vaults[id].status = "Released" => Cardinality(Votes(id)) >= vaults[id].threshold

\* Only vaults that exist have votes, so that a new one starts without.
VaultsInv ==
    /\ vaults \in Seq(VaultRecord)
    /\ IsFiniteSet(voted) /\ voted \subseteq (DOMAIN vaults) \X Approvers
    /\ vaultTokens = SumFunctionOnSet(VaultAmounts, PendingVaults)
    /\ \A id \in DOMAIN vaults : VaultTallied(id)

LEMMA VaultsInitial == T!Init => VaultsInv
<1>1. ASSUME T!Init PROVE VaultsInv
  <2>1. vaults = <<>> /\ voted = {} /\ vaultTokens = 0
    BY <1>1 DEF T!Init
  <2>2. DOMAIN vaults = {} /\ PendingVaults = {}
    BY <2>1 DEF PendingVaults
  <2>3. QED BY <2>1, <2>2, SetSumEmpty, FS_EmptySet DEF VaultsInv
<1>2. QED BY <1>1

LEMMA VaultTypes ==
  ASSUME VaultsInv
  PROVE  /\ IsFiniteSet(PendingVaults) /\ \A x \in PendingVaults : VaultAmounts[x] \in Int
         /\ \A x \in DOMAIN vaults : vaults[x] \in VaultRecord
         /\ vaultTokens \in Int
<1>1. IsFiniteSet(PendingVaults)
  <2>1. DOMAIN vaults = 1..Len(vaults) /\ Len(vaults) \in Nat
    BY DEF VaultsInv
  <2>2. IsFiniteSet(1..Len(vaults)) /\ PendingVaults \subseteq DOMAIN vaults
    BY <2>1, FS_Interval DEF PendingVaults
  <2>3. QED BY <2>1, <2>2, FS_Subset
<1>2. \A x \in DOMAIN vaults : vaults[x] \in VaultRecord
  BY DEF VaultsInv
<1>3. \A x \in PendingVaults : VaultAmounts[x] \in Int
  BY <1>2 DEF PendingVaults, VaultAmounts, VaultRecord
<1>4. SumFunctionOnSet(VaultAmounts, PendingVaults) \in Int
  BY ONLY <1>1, <1>3, SetSumInt
<1>5. QED BY <1>1, <1>2, <1>3, <1>4 DEF VaultsInv

LEMMA SeqUpdate ==
  ASSUME NEW Kind, NEW s \in Seq(Kind), NEW k \in DOMAIN s, NEW r \in Kind
  PROVE  /\ [s EXCEPT ![k] = r] \in Seq(Kind) /\ DOMAIN [s EXCEPT ![k] = r] = DOMAIN s
         /\ [s EXCEPT ![k] = r][k] = r /\ Len([s EXCEPT ![k] = r]) = Len(s)
         /\ \A x \in DOMAIN s \ {k} : [s EXCEPT ![k] = r][x] = s[x]
OBVIOUS

\* One vault is written: the tokens move by what becomes or stops being pending.
LEMMA VaultWritten ==
  ASSUME VaultsInv, NEW k, vaults' \in Seq(VaultRecord),
         DOMAIN vaults' = DOMAIN vaults \cup {k},
         \A id \in DOMAIN vaults \ {k} : vaults'[id] = vaults[id],
         vaultTokens' = vaultTokens
             - (IF k \in PendingVaults THEN vaults[k].amount ELSE 0)
             + (IF k \in PendingVaults' THEN vaults'[k].amount ELSE 0)
  PROVE  vaultTokens' = SumFunctionOnSet(VaultAmounts, PendingVaults)'
<1>1. IsFiniteSet(PendingVaults)
  BY VaultTypes
<1>2. \A id \in DOMAIN vaults : vaults[id] \in VaultRecord
  BY VaultTypes
<1>3. \A id \in PendingVaults : VaultAmounts[id] \in Int /\ VaultAmounts[id] = vaults[id].amount
  BY <1>2 DEF PendingVaults, VaultAmounts, VaultRecord
<1>4. k \in DOMAIN vaults' /\ vaults'[k] \in VaultRecord
  <2>1. k \in DOMAIN vaults'
    OBVIOUS
  <2>2. \A s \in Seq(VaultRecord) : \A x \in DOMAIN s : s[x] \in VaultRecord
    OBVIOUS
  <2>3. QED BY <2>1, <2>2
<1>5. VaultAmounts'[k] = vaults'[k].amount /\ vaults'[k].amount \in Int
  BY <1>4 DEF VaultAmounts, VaultRecord
<1>6. PendingVaults' \ {k} = PendingVaults \ {k}
  BY DEF PendingVaults
<1>7. \A x \in PendingVaults \ {k} : VaultAmounts'[x] = VaultAmounts[x]
  BY DEF PendingVaults, VaultAmounts
<1>8. SumFunctionOnSet(VaultAmounts', PendingVaults') = SumFunctionOnSet(VaultAmounts, PendingVaults)
          - (IF k \in PendingVaults THEN VaultAmounts[k] ELSE 0)
          + (IF k \in PendingVaults' THEN VaultAmounts'[k] ELSE 0)
  <2>1. OneChange(VaultAmounts, PendingVaults, VaultAmounts', PendingVaults', k)
    BY <1>1, <1>3, <1>5, <1>6, <1>7 DEF OneChange, Summable
  <2>2. QED BY ONLY <2>1, SetSumChange
<1>9. QED BY <1>3, <1>5, <1>8 DEF VaultsInv

LEMMA TCreateVault ==
  ASSUME VaultsInv, NEW depositor \in Depositors, NEW recipient \in Depositors,
         NEW amount \in TransferAmounts, NEW approvers \in SUBSET Approvers,
         NEW threshold \in Nat, T!CreateVault(depositor, recipient, amount, approvers, threshold)
  PROVE  VaultsInv'
<1> DEFINE r == [depositor |-> depositor, recipient |-> recipient, amount |-> amount,
                 approvers |-> approvers, approvals |-> 0, threshold |-> threshold,
                 status |-> "Pending"]
<1>0. PICK k : k = Len(vaults) + 1
  OBVIOUS
<1>1. vaults' = Append(vaults, r) /\ vaultTokens' = vaultTokens + amount /\ voted' = voted
  BY DEF T!CreateVault
<1>a. amount \in Int
  BY PlatformConstants
<1>2. r \in VaultRecord
  BY <1>a DEF VaultRecord
<1>3. vaults \in Seq(VaultRecord)
  BY DEF VaultsInv
<1>4. r.amount = amount /\ r.status = "Pending" /\ r.approvals = 0
  OBVIOUS
<1> HIDE DEF r
<1>5. /\ vaults' \in Seq(VaultRecord) /\ DOMAIN vaults' = DOMAIN vaults \cup {k}
      /\ \A id \in DOMAIN vaults \ {k} : vaults'[id] = vaults[id]
      /\ k \notin DOMAIN vaults /\ vaults'[k] = r
  BY <1>0, <1>1, <1>2, <1>3
<1>6. k \notin PendingVaults /\ k \in PendingVaults' /\ vaults'[k].amount = amount
  BY <1>4, <1>5 DEF PendingVaults
<1>7. amount \in Int /\ vaultTokens \in Int
  <2>1. amount \in Int
    BY PlatformConstants
  <2>2. QED BY <2>1, VaultTypes
<1>8. vaultTokens' = SumFunctionOnSet(VaultAmounts, PendingVaults)'
  BY <1>1, <1>5, <1>6, <1>7, VaultWritten
<1>9. /\ IsFiniteSet(voted') /\ voted' \subseteq (DOMAIN vaults') \X Approvers
      /\ \A id \in DOMAIN vaults' : VaultTallied(id)'
  <2>1. Cardinality(Votes(k)') = 0
    <3>1. \A v \in voted : v[1] \in DOMAIN vaults
      BY DEF VaultsInv
    <3>2. Votes(k)' = {}
      BY <1>1, <1>5, <3>1 DEF Votes
    <3>3. QED BY <3>2, FS_EmptySet
  <2>2. VaultTallied(k)'
    BY <1>4, <1>5, <2>1 DEF VaultTallied
  <2>3. ASSUME NEW id \in DOMAIN vaults PROVE VaultTallied(id)'
    <3>1. Votes(id)' = Votes(id) /\ vaults'[id] = vaults[id]
      BY <1>1, <1>5 DEF Votes
    <3>2. QED BY <3>1 DEF VaultsInv, VaultTallied
  <2>4. QED BY <1>1, <1>5, <2>2, <2>3 DEF VaultsInv
<1>10. QED BY <1>5, <1>8, <1>9 DEF VaultsInv

LEMMA VotesFinite ==
  ASSUME VaultsInv, NEW id PROVE IsFiniteSet(Votes(id)) /\ Cardinality(Votes(id)) \in Nat
<1>1. IsFiniteSet(voted) /\ Votes(id) \subseteq voted
  BY DEF VaultsInv, Votes
<1>2. QED BY <1>1, FS_Subset, FS_CardinalityType

\* A step on a pending vault that changes only its counter, its status and its votes.
LEMMA VaultStepped ==
  ASSUME VaultsInv, NEW id \in DOMAIN vaults, vaults[id].status = "Pending",
         NEW n \in Nat, NEW status \in {"Pending", "Released", "Cancelled"},
         vaults' = [vaults EXCEPT ![id].approvals = n, ![id].status = status],
         vaultTokens' = IF status = "Pending" THEN vaultTokens ELSE vaultTokens - vaults[id].amount,
         IsFiniteSet(voted'), voted' \subseteq (DOMAIN vaults) \X Approvers,
         \A other \in DOMAIN vaults \ {id} : Votes(other)' = Votes(other),
         n = Cardinality(Votes(id)'), status = "Released" => n >= vaults[id].threshold
  PROVE  VaultsInv'
<1> DEFINE r == [vaults[id] EXCEPT !.approvals = n, !.status = status]
<1>1. vaults[id] \in VaultRecord /\ vaults \in Seq(VaultRecord)
  BY DEF VaultsInv
<1>2. r \in VaultRecord /\ r.approvals = n /\ r.status = status
      /\ r.amount = vaults[id].amount /\ r.threshold = vaults[id].threshold
  BY <1>1 DEF VaultRecord
<1>3. vaults' = [vaults EXCEPT ![id] = r]
  OBVIOUS
<1> HIDE DEF r
<1>4. /\ vaults' \in Seq(VaultRecord) /\ DOMAIN vaults' = DOMAIN vaults
      /\ \A x \in DOMAIN vaults \ {id} : vaults'[x] = vaults[x]
      /\ vaults'[id] = r
  BY ONLY <1>1, <1>2, <1>3, SeqUpdate, id \in DOMAIN vaults
<1>5. id \in PendingVaults /\ (id \in PendingVaults' <=> status = "Pending")
  BY <1>2, <1>4 DEF PendingVaults
<1>6. vaultTokens' = SumFunctionOnSet(VaultAmounts, PendingVaults)'
  <2>1. vaultTokens \in Int
    BY VaultTypes
  <2>2. vaults[id].amount \in Int
    BY <1>1 DEF VaultRecord
  <2>3. vaultTokens' = vaultTokens
             - (IF id \in PendingVaults THEN vaults[id].amount ELSE 0)
             + (IF id \in PendingVaults' THEN vaults'[id].amount ELSE 0)
    BY <1>2, <1>4, <1>5, <2>1, <2>2
  <2>4. DOMAIN vaults' = DOMAIN vaults \cup {id}
    BY <1>4
  <2>5. QED BY <1>4, <2>3, <2>4, VaultWritten
<1>7. \A x \in DOMAIN vaults' : VaultTallied(x)'
  <2>1. VaultTallied(id)'
    BY <1>2, <1>4 DEF VaultTallied
  <2>2. ASSUME NEW x \in DOMAIN vaults \ {id} PROVE VaultTallied(x)'
    BY <1>4 DEF VaultTallied, VaultsInv
  <2>3. QED BY <1>4, <2>1, <2>2
<1>8. QED BY <1>4, <1>6, <1>7 DEF VaultsInv

LEMMA TApproveVault ==
  ASSUME VaultsInv, NEW id \in DOMAIN vaults, NEW caller \in Approvers, T!ApproveVault(id, caller)
  PROVE  VaultsInv'
<1>1. PICK n : n = vaults[id].approvals + 1
  OBVIOUS
<1>2. PICK status : status = IF n >= vaults[id].threshold THEN "Released" ELSE "Pending"
  OBVIOUS
<1>3. /\ vaults[id].status = "Pending" /\ <<id, caller>> \notin voted
      /\ voted' = voted \cup {<<id, caller>>}
      /\ vaults' = [vaults EXCEPT ![id].approvals = n, ![id].status = status]
      /\ vaultTokens' = IF status = "Pending" THEN vaultTokens ELSE vaultTokens - vaults[id].amount
  BY <1>1, <1>2 DEF T!ApproveVault, T!Pending
<1>4. n \in Nat /\ status \in {"Pending", "Released", "Cancelled"}
      /\ (status = "Released" => n >= vaults[id].threshold)
  BY <1>1, <1>2, VaultTypes DEF VaultRecord
<1>5. IsFiniteSet(voted') /\ voted' \subseteq (DOMAIN vaults) \X Approvers
  <2>1. IsFiniteSet(voted')
    BY <1>3, FS_AddElement DEF VaultsInv
  <2>2. <<id, caller>> \in (DOMAIN vaults) \X Approvers
    OBVIOUS
  <2>3. QED BY <1>3, <2>1, <2>2 DEF VaultsInv
<1>6. \A other \in DOMAIN vaults \ {id} : Votes(other)' = Votes(other)
  BY <1>3 DEF Votes
<1>7. n = Cardinality(Votes(id)')
  <2>1. Votes(id)' = Votes(id) \cup {<<id, caller>>} /\ <<id, caller>> \notin Votes(id)
    BY <1>3 DEF Votes
  <2>2. Cardinality(Votes(id) \cup {<<id, caller>>}) = Cardinality(Votes(id)) + 1
    BY <2>1, VotesFinite, FS_AddElement
  <2>3. QED BY <1>1, <2>1, <2>2 DEF VaultsInv, VaultTallied
<1>8. QED BY <1>3, <1>4, <1>5, <1>6, <1>7, VaultStepped

LEMMA TRevokeApproval ==
  ASSUME VaultsInv, NEW id \in DOMAIN vaults, NEW caller \in Approvers, T!RevokeApproval(id, caller)
  PROVE  VaultsInv'
<1>0. PICK n : n = vaults[id].approvals - 1
  OBVIOUS
<1>1. /\ vaults[id].status = "Pending" /\ <<id, caller>> \in voted
      /\ voted' = voted \ {<<id, caller>>}
      /\ vaults' = [vaults EXCEPT ![id].approvals = IF @ > 0 THEN @ - 1 ELSE 0]
      /\ vaultTokens' = vaultTokens
  BY DEF T!RevokeApproval, T!Pending, T!DropVote
<1>2. vaults[id] \in VaultRecord
  BY DEF VaultsInv
<1>3. Votes(id)' = Votes(id) \ {<<id, caller>>} /\ <<id, caller>> \in Votes(id)
  BY <1>1 DEF Votes
<1>4. /\ Cardinality(Votes(id) \ {<<id, caller>>}) = Cardinality(Votes(id)) - 1
      /\ Cardinality(Votes(id) \ {<<id, caller>>}) \in Nat
  BY <1>3, VotesFinite, FS_RemoveElement, FS_Subset, FS_CardinalityType
<1>5. n \in Nat /\ n = Cardinality(Votes(id)') /\ vaults[id].approvals > 0
  BY <1>0, <1>2, <1>3, <1>4, VotesFinite DEF VaultsInv, VaultTallied, VaultRecord
<1>6. vaults' = [vaults EXCEPT ![id].approvals = n, ![id].status = "Pending"]
  <2>1. vaults' = [vaults EXCEPT ![id].approvals = n]
    BY <1>0, <1>1, <1>5
  <2>2. [vaults[id] EXCEPT !.approvals = n]
           = [vaults[id] EXCEPT !.approvals = n, !.status = "Pending"]
    BY <1>1, <1>2 DEF VaultRecord
  <2>3. QED BY <2>1, <2>2
<1>7. IsFiniteSet(voted') /\ voted' \subseteq (DOMAIN vaults) \X Approvers
  BY <1>1, FS_Subset DEF VaultsInv
<1>8. \A other \in DOMAIN vaults \ {id} : Votes(other)' = Votes(other)
  BY <1>1 DEF Votes
<1>9. QED BY <1>1, <1>5, <1>6, <1>7, <1>8, VaultStepped

LEMMA TEmergencyCancel ==
  ASSUME VaultsInv, NEW id \in DOMAIN vaults, T!EmergencyCancel(id) PROVE VaultsInv'
<1>0. PICK n : n = vaults[id].approvals
  OBVIOUS
<1>1. /\ vaults[id].status = "Pending" /\ voted' = voted
      /\ vaults' = [vaults EXCEPT ![id].status = "Cancelled"]
      /\ vaultTokens' = vaultTokens - vaults[id].amount
  BY DEF T!EmergencyCancel, T!Pending
<1>2. vaults[id] \in VaultRecord
  BY DEF VaultsInv
<1>3. vaults' = [vaults EXCEPT ![id].approvals = n, ![id].status = "Cancelled"]
  <2>1. [vaults[id] EXCEPT !.status = "Cancelled"]
           = [vaults[id] EXCEPT !.approvals = n, !.status = "Cancelled"]
    BY <1>0, <1>2 DEF VaultRecord
  <2>2. QED BY <1>1, <2>1
<1>4. n \in Nat /\ n = Cardinality(Votes(id)')
  BY <1>0, <1>1, <1>2 DEF VaultsInv, VaultTallied, VaultRecord, Votes
<1>5. \A other \in DOMAIN vaults \ {id} : Votes(other)' = Votes(other)
  BY <1>1 DEF Votes
<1>6. IsFiniteSet(voted') /\ voted' \subseteq (DOMAIN vaults) \X Approvers
  BY <1>1 DEF VaultsInv
<1>7. QED BY <1>1, <1>3, <1>4, <1>5, <1>6, VaultStepped

LEMMA VaultsElsewhere ==
  ASSUME VaultsInv, UNCHANGED <<vaults, voted, vaultTokens>> PROVE VaultsInv'
<1>1. \A id : Votes(id)' = Votes(id)
  BY DEF Votes
<1>2. \A id : VaultTallied(id)' <=> VaultTallied(id)
  BY <1>1 DEF VaultTallied
<1>3. VaultAmounts' = VaultAmounts /\ PendingVaults' = PendingVaults
  BY DEF VaultAmounts, PendingVaults
<1>4. QED BY <1>2, <1>3 DEF VaultsInv

LEMMA VaultsStep == ASSUME VaultsInv, T!VaultNext PROVE VaultsInv'
<1>1. ASSUME NEW d \in Depositors, NEW r \in Depositors, NEW n \in TransferAmounts,
             NEW who \in SUBSET Approvers, NEW t \in 0..T!Cardinality(Approvers),
             T!CreateVault(d, r, n, who, t)
      PROVE  VaultsInv'
  BY <1>1, TCreateVault
<1>2. QED
  BY <1>1, TApproveVault, TRevokeApproval, TEmergencyCancel, Zenon DEF T!VaultNext

LEMMA VaultsGood == VaultsInv => T!VaultsBacked
<1>1. ASSUME VaultsInv PROVE T!VaultsBacked
  <2>1. vaultTokens = SumFunctionOnSet(VaultAmounts, PendingVaults)
    BY <1>1 DEF VaultsInv
  <2>2. \A f, s : T!SumFunctionOnSet(f, s) = SumFunctionOnSet(f, s)
    BY DEF T!SumFunctionOnSet, T!FoldFunctionOnSet, T!MapThenFoldSet, SumFunctionOnSet,
       FoldFunctionOnSet, MapThenFoldSet
  <2>3. \A s : T!Cardinality(s) = Cardinality(s)
    BY DEF T!Cardinality, Cardinality
  <2>4. vaultTokens = T!SumFunctionOnSet([id \in DOMAIN vaults |-> vaults[id].amount],
                                         {id \in DOMAIN vaults : T!Pending(id)})
    BY <2>1, <2>2 DEF VaultAmounts, PendingVaults, T!Pending
  <2>5. \A id \in DOMAIN vaults : VaultTallied(id)
    BY <1>1 DEF VaultsInv
  <2>6. QED BY <2>3, <2>4, <2>5, Zenon DEF T!VaultsBacked, VaultTallied, Votes
<1>2. QED BY <1>1

-----------------------------------------------------------------------------
(* Stores whose values are summed *)

\* The store with one value set has the old sum, less the old value, plus the new one.
LEMMA SetInStore ==
  ASSUME NEW f, NEW k, NEW v \in Int, Summable(f, DOMAIN f)
  PROVE  /\ DOMAIN Set(f, k, v) = DOMAIN f \cup {k}
         /\ Set(f, k, v)[k] = v /\ \A x \in DOMAIN f \ {k} : Set(f, k, v)[x] = f[x]
         /\ Summable(Set(f, k, v), DOMAIN Set(f, k, v))
         /\ SumFunction(Set(f, k, v)) = SumFunction(f) - Get(f, k, 0) + v
         /\ SumFunction(f) \in Int /\ Get(f, k, 0) \in Int
<1> DEFINE g == Set(f, k, v)
<1>1. /\ DOMAIN g = DOMAIN f \cup {k} /\ g[k] = v /\ \A x \in DOMAIN f \ {k} : g[x] = f[x]
  BY DEF Set
<1>2. Get(f, k, 0) = (IF k \in DOMAIN f THEN f[k] ELSE 0) /\ Get(f, k, 0) \in Int
  BY DEF Get, Summable
<1> HIDE DEF g
<1>3. OneChange(f, DOMAIN f, g, DOMAIN g, k)
  BY <1>1 DEF OneChange
<1>4. /\ Summable(g, DOMAIN g)
      /\ SumFunctionOnSet(g, DOMAIN g) = SumFunctionOnSet(f, DOMAIN f)
             - (IF k \in DOMAIN f THEN f[k] ELSE 0) + (IF k \in DOMAIN g THEN g[k] ELSE 0)
  BY ONLY <1>3, SetSumChange
<1>5. SumFunctionOnSet(f, DOMAIN f) \in Int
  BY SetSumInt DEF Summable
<1>6. QED BY <1>1, <1>2, <1>4, <1>5 DEF g, SumFunction

LEMMA EmptyStore == Summable(Empty, DOMAIN Empty) /\ SumFunction(Empty) = 0
<1>1. DOMAIN Empty = {}
  BY DEF Empty
<1>2. QED BY <1>1, SetSumEmpty, FS_EmptySet DEF Summable, SumFunction

-----------------------------------------------------------------------------
(* Course payments *)

\* Every enrollment has its payment, and amounts are numbers.
EarningsInv ==
    /\ \A k \in DOMAIN payments : payments[k].amount \in Int /\ payments[k].share \in Int
    /\ enrolledIn \subseteq DOMAIN payments
    /\ feePercent \in Int /\ courseTokens \in Int
    /\ accrued \in [payments : Int, fees : Int, refundedShares : Int]
    /\ Summable(earnings, DOMAIN earnings)
    /\ courseTokens + accrued.refundedShares = SumFunction(earnings) + accrued.fees

LEMMA EarningsInitial == T!Init => EarningsInv
<1>1. ASSUME T!Init PROVE EarningsInv
  <2>1. /\ feePercent = InitialFee /\ enrolledIn = {} /\ payments = Empty /\ earnings = Empty
        /\ courseTokens = 0 /\ accrued = [payments |-> 0, fees |-> 0, refundedShares |-> 0]
    BY <1>1 DEF T!Init, T!Empty, Empty
  <2>2. DOMAIN payments = {}
    BY <2>1 DEF Empty
  <2>3. InitialFee \in Int
    BY PlatformConstants
  <2>4. QED BY <2>1, <2>2, <2>3, EmptyStore DEF EarningsInv
<1>2. QED BY <1>1

LEMMA TPayForCourse ==
  ASSUME EarningsInv, NEW student, NEW course, NEW instructor, NEW amount \in TransferAmounts,
         T!PayForCourse(student, course, instructor, amount)
  PROVE  EarningsInv'
<1>1. PICK fee : fee = T!CalculateFee(amount)
  OBVIOUS
<1>2. PICK k : k = <<student, course>>
  OBVIOUS
<1>3. /\ courseTokens' = courseTokens + amount
      /\ enrolledIn' = enrolledIn \cup {k}
      /\ payments' = Set(payments, k, [amount |-> amount, paid_at |-> now, share |-> amount - fee])
      /\ earnings' = Set(earnings, instructor, Get(earnings, instructor, 0) + (amount - fee))
      /\ accrued' = [accrued EXCEPT !.payments = @ + 1, !.fees = @ + fee]
      /\ feePercent' = feePercent
  BY <1>1, <1>2 DEF T!PayForCourse, T!InstructorAmount, T!Set, Set, T!Get, Get
<1>4. amount \in Int
  BY PlatformConstants
<1>5. fee \in Int
  BY <1>1, <1>4 DEF T!CalculateFee, EarningsInv
<1>6. Summable(earnings, DOMAIN earnings)
  BY DEF EarningsInv
<1>7. Get(earnings, instructor, 0) \in Int
  BY <1>6 DEF Get, Summable
<1>8. PICK v : v = Get(earnings, instructor, 0) + (amount - fee)
  OBVIOUS
<1>9. /\ Summable(earnings', DOMAIN earnings')
      /\ SumFunction(earnings') = SumFunction(earnings) + (amount - fee)
      /\ SumFunction(earnings) \in Int
  <2>1. v \in Int /\ earnings' = Set(earnings, instructor, v)
    BY <1>3, <1>4, <1>5, <1>7, <1>8
  <2>2. /\ Summable(earnings', DOMAIN earnings') /\ SumFunction(earnings) \in Int
        /\ SumFunction(earnings') = SumFunction(earnings) - Get(earnings, instructor, 0) + v
    BY <1>6, <2>1, SetInStore
  <2>3. QED BY <1>4, <1>5, <1>7, <1>8, <2>2
<1>10. /\ \A x \in DOMAIN payments' : payments'[x].amount \in Int /\ payments'[x].share \in Int
       /\ enrolledIn' \subseteq DOMAIN payments'
  <2>1. DOMAIN payments' = DOMAIN payments \cup {k}
    BY <1>3 DEF Set
  <2>2. payments'[k].amount \in Int /\ payments'[k].share \in Int
    BY <1>3, <1>4, <1>5 DEF Set
  <2>3. \A x \in DOMAIN payments \ {k} : payments'[x] = payments[x]
    BY <1>3 DEF Set
  <2>4. QED BY <1>3, <2>1, <2>2, <2>3 DEF EarningsInv
<1>11. /\ accrued' \in [payments : Int, fees : Int, refundedShares : Int]
       /\ accrued'.fees = accrued.fees + fee /\ accrued'.refundedShares = accrued.refundedShares
       /\ accrued.fees \in Int /\ accrued.refundedShares \in Int
  <2>1. accrued \in [payments : Int, fees : Int, refundedShares : Int]
    BY DEF EarningsInv
  <2>2. /\ accrued.payments + 1 \in Int /\ accrued.fees + fee \in Int
        /\ accrued.fees \in Int /\ accrued.refundedShares \in Int
    BY <1>5, <2>1
  <2>3. QED BY <1>3, <2>1, <2>2
<1>12. courseTokens \in Int /\ feePercent \in Int
       /\ courseTokens + accrued.refundedShares = SumFunction(earnings) + accrued.fees
  BY DEF EarningsInv
<1>13. courseTokens' + accrued'.refundedShares = SumFunction(earnings') + accrued'.fees
  BY ONLY <1>3, <1>4, <1>5, <1>9, <1>11, <1>12
<1>14. QED BY <1>3, <1>4, <1>9, <1>10, <1>11, <1>12, <1>13 DEF EarningsInv

LEMMA TRefund ==
  ASSUME EarningsInv, NEW student, NEW course, T!Refund(student, course)
  PROVE  EarningsInv'
<1>1. PICK k : k = <<student, course>>
  OBVIOUS
<1>2. /\ k \in enrolledIn /\ enrolledIn' = enrolledIn \ {k}
      /\ courseTokens' = courseTokens - payments[k].amount
      /\ accrued' = [accrued EXCEPT !.refundedShares = @ + payments[k].share,
                                    !.fees = @ - (payments[k].amount - payments[k].share)]
      /\ UNCHANGED <<feePercent, payments, earnings>>
  BY <1>1 DEF T!Refund
<1>3. payments[k].amount \in Int /\ payments[k].share \in Int
  BY <1>2 DEF EarningsInv
<1>4. SumFunction(earnings) \in Int
  BY SetSumInt DEF EarningsInv, Summable, SumFunction
<1>5. /\ accrued \in [payments : Int, fees : Int, refundedShares : Int] /\ courseTokens \in Int
      /\ courseTokens + accrued.refundedShares = SumFunction(earnings) + accrued.fees
  BY DEF EarningsInv
<1>6. PICK fees \in Int, shares \in Int :
          /\ fees = accrued.fees - (payments[k].amount - payments[k].share)
          /\ shares = accrued.refundedShares + payments[k].share
  <2>1. accrued.fees \in Int /\ accrued.refundedShares \in Int
    BY <1>5
  <2>2. QED BY ONLY <2>1, <1>3
<1>7. accrued' = [accrued EXCEPT !.refundedShares = shares, !.fees = fees]
  BY <1>2, <1>6
<1>8. /\ accrued' \in [payments : Int, fees : Int, refundedShares : Int]
      /\ accrued'.fees = fees /\ accrued'.refundedShares = shares
  BY <1>5, <1>7
<1>9. courseTokens' \in Int /\ courseTokens' + shares = SumFunction(earnings) + fees
  <2>1. accrued.fees \in Int /\ accrued.refundedShares \in Int
    BY <1>5
  <2>2. courseTokens' = courseTokens - payments[k].amount
    BY <1>2
  <2>3. courseTokens \in Int
        /\ courseTokens + accrued.refundedShares = SumFunction(earnings) + accrued.fees
    BY <1>5
  <2>4. QED BY ONLY <1>3, <1>4, <1>6, <2>1, <2>2, <2>3
<1>10. QED BY <1>2, <1>8, <1>9 DEF EarningsInv

LEMMA TWithdrawEarnings ==
  ASSUME EarningsInv, NEW instructor, T!WithdrawEarnings(instructor)
  PROVE  EarningsInv'
<1>1. /\ Get(earnings, instructor, 0) > 0 /\ earnings' = Set(earnings, instructor, 0)
      /\ courseTokens' = courseTokens - earnings[instructor]
      /\ UNCHANGED <<feePercent, enrolledIn, payments, accrued>>
  BY DEF T!WithdrawEarnings, T!Set, Set, T!Get, Get
<1>2. Get(earnings, instructor, 0) = earnings[instructor]
  BY <1>1 DEF Get
<1>3. Summable(earnings, DOMAIN earnings)
  BY DEF EarningsInv
<1>4. /\ Summable(earnings', DOMAIN earnings') /\ SumFunction(earnings) \in Int
      /\ SumFunction(earnings') = SumFunction(earnings) - Get(earnings, instructor, 0) + 0
      /\ Get(earnings, instructor, 0) \in Int
  <2>1. PICK z \in Int : z = 0
    OBVIOUS
  <2>2. earnings' = Set(earnings, instructor, z)
    BY <1>1, <2>1
  <2>3. QED BY <1>3, <2>1, <2>2, SetInStore
<1>5. QED BY <1>1, <1>2, <1>4 DEF EarningsInv

LEMMA EarningsStep == ASSUME EarningsInv, T!PaymentNext PROVE EarningsInv'
<1>1. ASSUME NEW f \in FeePercents, T!SetFee(f) PROVE EarningsInv'
  <2>1. feePercent' = f /\ UNCHANGED <<enrolledIn, payments, earnings, courseTokens, accrued>>
    BY <1>1 DEF T!SetFee
  <2>2. f \in Int
    BY PlatformConstants
  <2>3. QED BY <2>1, <2>2 DEF EarningsInv
<1>2. QED
  BY <1>1, TPayForCourse, TRefund, TWithdrawEarnings, Zenon DEF T!PaymentNext

LEMMA EarningsGood == EarningsInv => T!EarningsCovered
<1>1. \A f : T!SumFunction(f) = SumFunction(f)
  BY DEF T!SumFunction, T!SumFunctionOnSet, T!FoldFunctionOnSet, T!MapThenFoldSet,
     SumFunction, SumFunctionOnSet, FoldFunctionOnSet, MapThenFoldSet
<1>2. QED BY <1>1 DEF EarningsInv, T!EarningsCovered

LEMMA EarningsElsewhere == ASSUME EarningsInv, UNCHANGED T!paymentVars PROVE EarningsInv'
BY DEF T!paymentVars, EarningsInv

-----------------------------------------------------------------------------
(* Royalties *)

SharesIn(asset) == {k \in DOMAIN shareOf : k[2] = asset}
NoTotals == [distributed |-> 0, withdrawn |-> 0]

\* Stored manifests were validated, and a share belongs to an asset that has totals.
RoyaltyInv ==
    /\ \A id \in manifests : id \in DOMAIN Manifests /\ T!ValidManifest(Manifests[id])
    /\ Summable(shareOf, DOMAIN shareOf)
    /\ \A k \in DOMAIN shareOf : k[2] \in DOMAIN assetLedger
    /\ \A asset \in DOMAIN assetLedger :
           /\ assetLedger[asset] \in [distributed : Int, withdrawn : Int]
           /\ SumFunctionOnSet(shareOf, SharesIn(asset)) =
                  assetLedger[asset].distributed - assetLedger[asset].withdrawn

LEMMA RoyaltyInitial == T!Init => RoyaltyInv
<1>1. ASSUME T!Init PROVE RoyaltyInv
  <2>1. manifests = {} /\ shareOf = Empty /\ assetLedger = Empty
    BY <1>1 DEF T!Init, T!Empty, Empty
  <2>2. DOMAIN assetLedger = {} /\ DOMAIN shareOf = {}
    BY <2>1 DEF Empty
  <2>3. QED BY <2>1, <2>2, EmptyStore DEF RoyaltyInv
<1>2. QED BY <1>1

\* Sums in the instance are the sums the lemmas are about.
LEMMA TreasurySums ==
  /\ \A f, s : T!SumFunctionOnSet(f, s) = SumFunctionOnSet(f, s)
  /\ \A f : T!SumFunction(f) = SumFunction(f)
BY DEF T!SumFunction, T!SumFunctionOnSet, T!FoldFunctionOnSet, T!MapThenFoldSet,
     SumFunction, SumFunctionOnSet, FoldFunctionOnSet, MapThenFoldSet

\* The shares of a distribution, rounded down but the last, are the amount.
LEMMA SharesWhole ==
  ASSUME NEW id \in DOMAIN Manifests, T!ValidManifest(Manifests[id]), NEW amount \in Int,
         NEW f, f = [i \in DOMAIN Manifests[id].recipients |-> T!ShareAt(Manifests[id], i, amount)]
  PROVE  Summable(f, DOMAIN f) /\ SumFunction(f) = amount
<1> PICK m : m = Manifests[id]
  OBVIOUS
<1>1. m.recipients \in Seq(Depositors) /\ m.bps \in Seq(Nat) /\ TOTAL_BPS \in Nat \ {0}
  BY PlatformConstants
<1> PICK n : n = Len(m.recipients)
  OBVIOUS
<1>2. n \in Nat /\ n >= 1 /\ DOMAIN m.recipients = 1..n /\ DOMAIN m.bps = 1..n
  BY <1>1 DEF T!ValidManifest
<1> PICK r : r = [j \in 1..n |-> (amount * m.bps[j]) \div TOTAL_BPS]
  OBVIOUS
<1>3. \A j \in 1..n : r[j] \in Int
  <2>1. ASSUME NEW j \in 1..n PROVE (amount * m.bps[j]) \div TOTAL_BPS \in Int
    <3>1. m.bps[j] \in Int
      BY <1>1, <1>2
    <3>2. amount * m.bps[j] \in Int
      BY <3>1
    <3>3. PICK q \in Int : q = amount * m.bps[j]
      BY <3>2
    <3>4. q \div TOTAL_BPS \in Int
      BY <1>1
    <3>5. QED BY <3>3, <3>4
  <2>2. QED BY <2>1
<1> PICK rest : rest = SumFunctionOnSet(r, 1..(n - 1))
  OBVIOUS
<1>4. f = [i \in 1..n |-> IF i = n THEN amount - rest ELSE r[i]]
  <2>1. \A i \in 1..n : T!ShareAt(m, i, amount) = IF i = n THEN amount - rest ELSE r[i]
    BY <1>2, TreasurySums, Zenon DEF T!ShareAt
  <2>2. QED BY <1>2, <2>1
<1>5. IsFiniteSet(1..n) /\ IsFiniteSet(1..(n - 1)) /\ 1..(n - 1) = 1..n \ {n} /\ n \in 1..n
  <2>1. n \in Int /\ n - 1 \in Int
    BY <1>2
  <2>2. IsFiniteSet(1..n) /\ IsFiniteSet(1..(n - 1))
    BY ONLY <2>1, FS_Interval
  <2>3. n \in 1..n /\ 1..(n - 1) = 1..n \ {n}
    BY ONLY <1>2
  <2>4. QED BY <2>2, <2>3
<1>6. rest \in Int
  BY <1>3, <1>5, SetSumInt
<1>7. Summable(f, 1..n)
  <2>1. amount - rest \in Int
    BY <1>6
  <2>2. \A i \in 1..n : f[i] \in Int
    BY ONLY <1>3, <1>4, <2>1
  <2>3. QED BY <1>5, <2>2 DEF Summable
<1>8. SumFunctionOnSet(f, 1..n) = f[n] + SumFunctionOnSet(f, 1..n \ {n})
  <2>1. IsFiniteSet(1..n) /\ \A i \in 1..n : f[i] \in Int
    BY <1>7 DEF Summable
  <2>2. QED BY ONLY <1>5, <2>1, SetSumSplit
<1>9. SumFunctionOnSet(f, 1..(n - 1)) = rest
  <2>1. \A i \in 1..(n - 1) : f[i] = r[i]
    BY ONLY <1>2, <1>4
  <2>2. SumFunctionOnSet(f, 1..(n - 1)) = SumFunctionOnSet(r, 1..(n - 1))
    BY ONLY <1>5, <2>1, SetSumExt
  <2>3. QED BY <2>2
<1>10. f[n] = amount - rest
  BY <1>4, <1>5
<1>11. SumFunctionOnSet(f, 1..n) = amount
  <2>1. SumFunctionOnSet(f, 1..n \ {n}) = rest
    BY <1>5, <1>9
  <2>2. QED BY ONLY <1>6, <1>8, <1>10, <2>1, amount \in Int
<1>12. QED BY <1>4, <1>7, <1>11 DEF SumFunction

PaidShares(id, asset) ==
    {<<Manifests[id].recipients[i], asset>> : i \in DOMAIN Manifests[id].recipients}

\* Nor is anything lost when a recipient has several shares of it.
LEMMA CreditsWhole ==
  ASSUME NEW id \in DOMAIN Manifests, NEW amount \in Int, NEW asset, NEW paid, NEW g,
         T!ValidManifest(Manifests[id]), paid = PaidShares(id, asset),
         \A k \in paid : g[k] = T!Credited(Manifests[id], k[1], amount)
  PROVE  Summable(g, paid) /\ SumFunctionOnSet(g, paid) = amount
<1> PICK m : m = Manifests[id]
  OBVIOUS
<1> PICK f : f = [i \in DOMAIN m.recipients |-> T!ShareAt(m, i, amount)]
  OBVIOUS
<1> PICK key : key = [i \in DOMAIN m.recipients |-> <<m.recipients[i], asset>>]
  OBVIOUS
<1>1. Summable(f, DOMAIN f) /\ SumFunctionOnSet(f, DOMAIN f) = amount
  BY SharesWhole DEF SumFunction
<1>2. paid = {key[i] : i \in DOMAIN f}
  BY DEF PaidShares
<1>3. IsFiniteSet(paid) /\ \A i \in DOMAIN f : key[i] \in paid
  <2>1. IsFiniteSet(DOMAIN f)
    BY <1>1 DEF Summable
  <2>2. key \in Surjection(DOMAIN f, paid)
    BY <1>2 DEF Surjection
  <2>3. IsFiniteSet(paid)
    BY ONLY <2>1, <2>2, FS_Surjection
  <2>4. QED BY <1>2, <2>3
<1>4. ASSUME NEW k \in paid
      PROVE  g[k] = SumFunctionOnSet(f, {i \in DOMAIN f : key[i] = k})
  <2>1. {i \in DOMAIN m.recipients : m.recipients[i] = k[1]} = {i \in DOMAIN f : key[i] = k}
    <3>1. PICK r : k = <<r, asset>>
      BY DEF PaidShares
    <3>2. k[1] = r
      BY <3>1
    <3>3. \A i \in DOMAIN f : key[i] = k <=> m.recipients[i] = r
      BY <3>1
    <3>4. DOMAIN f = DOMAIN m.recipients
      OBVIOUS
    <3>5. QED BY ONLY <3>2, <3>3, <3>4
  <2>2. T!Credited(m, k[1], amount) =
            SumFunctionOnSet(f, {i \in DOMAIN m.recipients : m.recipients[i] = k[1]})
    BY TreasurySums, Zenon DEF T!Credited
  <2>3. QED BY <2>1, <2>2
<1>5. /\ Summable(g, paid)
      /\ SumFunctionOnSet(g, paid) = SumFunctionOnSet(f, DOMAIN f)
  BY ONLY <1>1, <1>3, <1>4, SetSumGroup
<1>6. QED BY <1>1, <1>5

LEMMA TDistribute ==
  ASSUME RoyaltyInv, NEW id \in DOMAIN Manifests, NEW asset, NEW amount \in TransferAmounts,
         T!Distribute(id, asset, amount)
  PROVE  RoyaltyInv'
<1> PICK m : m = Manifests[id]
  OBVIOUS
<1> PICK paid : paid = {<<m.recipients[i], asset>> : i \in DOMAIN m.recipients}
  OBVIOUS
<1> PICK c : c = [k \in DOMAIN shareOf \cup paid |->
                      IF k \in paid THEN T!Credited(m, k[1], amount) ELSE 0]
  OBVIOUS
<1> PICK e : e = [k \in DOMAIN shareOf \cup paid |-> Get(shareOf, k, 0)]
  OBVIOUS
<1> PICK totals : totals = Get(assetLedger, asset, NoTotals)
  OBVIOUS
<1>1. /\ id \in manifests /\ manifests' = manifests
      /\ shareOf' = [k \in DOMAIN shareOf \cup paid |-> e[k] + c[k]]
      /\ assetLedger' = Set(assetLedger, asset, [totals EXCEPT !.distributed = @ + amount])
  BY DEF T!Distribute, T!Get, Get, T!Set, Set, NoTotals
<1>2. T!ValidManifest(m) /\ amount \in Int
  BY <1>1, PlatformConstants DEF RoyaltyInv
<1>3. Summable(c, paid) /\ SumFunctionOnSet(c, paid) = amount
  <2>1. ASSUME NEW k \in paid PROVE c[k] = T!Credited(Manifests[id], k[1], amount)
    OBVIOUS
  <2>2. /\ T!ValidManifest(Manifests[id]) /\ amount \in Int
        /\ paid = PaidShares(id, asset)
    BY <1>2 DEF PaidShares
  <2>3. id \in DOMAIN Manifests
    OBVIOUS
  <2>4. QED BY ONLY <2>1, <2>2, <2>3, CreditsWhole
<1>4. Summable(shareOf, DOMAIN shareOf)
  BY DEF RoyaltyInv
<1>5. IsFiniteSet(DOMAIN shareOf \cup paid)
  BY <1>3, <1>4, FS_Union DEF Summable
<1>6. \A k \in DOMAIN shareOf : e[k] = shareOf[k]
  BY DEF Get
<1>7. \A k \in paid \ DOMAIN shareOf : e[k] = 0
  BY DEF Get
<1>8. \A k \in DOMAIN shareOf \ paid : c[k] = 0
  OBVIOUS
<1>9. Summable(e, DOMAIN shareOf \cup paid) /\ Summable(c, DOMAIN shareOf \cup paid)
  <2>1. ASSUME NEW k \in DOMAIN shareOf \cup paid PROVE e[k] \in Int /\ c[k] \in Int
    <3>1. e[k] \in Int
      BY ONLY <1>4, <1>6, <1>7, k \in DOMAIN shareOf \cup paid DEF Summable
    <3>2. c[k] \in Int
      BY ONLY <1>3, <1>8, k \in DOMAIN shareOf \cup paid DEF Summable
    <3>3. QED BY <3>1, <3>2
  <2>2. QED BY <1>5, <2>1 DEF Summable
<1>10. DOMAIN shareOf' = DOMAIN shareOf \cup paid
       /\ \A k \in DOMAIN shareOf' : shareOf'[k] = e[k] + c[k]
  BY <1>1
<1>11. Summable(shareOf', DOMAIN shareOf')
  BY <1>9, <1>10 DEF Summable
<1>12. \A k \in paid : k[2] = asset
  OBVIOUS
<1>13. ASSUME NEW a
       PROVE  SumFunctionOnSet(shareOf', SharesIn(a)') = SumFunctionOnSet(shareOf, SharesIn(a))
                  + (IF a = asset THEN amount ELSE 0)
              /\ SumFunctionOnSet(shareOf, SharesIn(a)) \in Int
  <2> PICK new : new = SharesIn(a)'
    OBVIOUS
  <2> PICK old : old = SharesIn(a)
    OBVIOUS
  <2>1. new = {k \in DOMAIN shareOf \cup paid : k[2] = a} /\ old = {k \in DOMAIN shareOf : k[2] = a}
    BY <1>10 DEF SharesIn
  <2>2. Summable(e, new) /\ Summable(c, new) /\ \A k \in new : shareOf'[k] = e[k] + c[k]
    BY <1>5, <1>9, <1>10, <2>1, FS_Subset DEF Summable
  <2>3. SumFunctionOnSet(shareOf', new) = SumFunctionOnSet(e, new) + SumFunctionOnSet(c, new)
    BY ONLY <2>2, SetSumAdd
  <2>4. SumFunctionOnSet(e, new) = SumFunctionOnSet(e, old)
    <3>1. old \subseteq new /\ \A k \in new \ old : e[k] = 0
      BY <1>7, <2>1
    <3>2. QED BY <2>2, <3>1, SetSumExtend
  <2>5. SumFunctionOnSet(e, old) = SumFunctionOnSet(shareOf, old)
        /\ SumFunctionOnSet(shareOf, old) \in Int
    <3>1. IsFiniteSet(old) /\ \A k \in old : shareOf[k] \in Int /\ e[k] = shareOf[k]
      BY <1>4, <1>6, <2>1, FS_Subset DEF Summable
    <3>2. SumFunctionOnSet(e, old) = SumFunctionOnSet(shareOf, old)
      BY ONLY <3>1, SetSumExt
    <3>3. SumFunctionOnSet(shareOf, old) \in Int
      BY ONLY <3>1, SetSumInt
    <3>4. QED BY ONLY <3>2, <3>3
  <2>6. SumFunctionOnSet(c, new) = IF a = asset THEN amount ELSE 0
    <3>1. CASE a = asset
      <4>1. paid \subseteq new /\ \A k \in new \ paid : c[k] = 0
        BY <1>8, <1>12, <2>1, <3>1
      <4>2. SumFunctionOnSet(c, new) = SumFunctionOnSet(c, paid)
        BY ONLY <2>2, <4>1, SetSumExtend
      <4>3. QED BY ONLY <1>3, <3>1, <4>2
    <3>2. CASE a # asset
      <4>1. {} \subseteq new /\ \A k \in new \ {} : c[k] = 0
        BY <1>8, <1>12, <2>1, <3>2
      <4>2. SumFunctionOnSet(c, new) = SumFunctionOnSet(c, {})
        BY <2>2, <4>1, SetSumExtend
      <4>3. QED BY <3>2, <4>2, SetSumEmpty
    <3>3. QED BY <3>1, <3>2
  <2>7. QED BY <2>3, <2>4, <2>5, <2>6
<1>14. totals \in [distributed : Int, withdrawn : Int]
       /\ SumFunctionOnSet(shareOf, SharesIn(asset)) = totals.distributed - totals.withdrawn
  <2>1. CASE asset \in DOMAIN assetLedger
    BY <2>1 DEF RoyaltyInv, Get
  <2>2. CASE asset \notin DOMAIN assetLedger
    <3>1. SharesIn(asset) = {}
      BY <2>2 DEF RoyaltyInv, SharesIn
    <3>2. SumFunctionOnSet(shareOf, SharesIn(asset)) = 0
      BY <3>1, SetSumEmpty
    <3>3. totals = NoTotals
      BY <2>2 DEF Get
    <3>4. QED BY <3>2, <3>3 DEF NoTotals
  <2>3. QED BY <2>1, <2>2
<1>15. /\ DOMAIN assetLedger' = DOMAIN assetLedger \cup {asset}
       /\ assetLedger'[asset] = [totals EXCEPT !.distributed = @ + amount]
       /\ \A a \in DOMAIN assetLedger \ {asset} : assetLedger'[a] = assetLedger[a]
  BY <1>1 DEF Set
<1>16. ASSUME NEW a \in DOMAIN assetLedger'
       PROVE  /\ assetLedger'[a] \in [distributed : Int, withdrawn : Int]
              /\ SumFunctionOnSet(shareOf', SharesIn(a)') =
                     assetLedger'[a].distributed - assetLedger'[a].withdrawn
  <2>1. CASE a = asset
    <3>1. totals.distributed \in Int /\ totals.withdrawn \in Int
      BY <1>14
    <3>2. /\ assetLedger'[a] \in [distributed : Int, withdrawn : Int]
          /\ assetLedger'[a].distributed = totals.distributed + amount
          /\ assetLedger'[a].withdrawn = totals.withdrawn
      BY <1>2, <1>14, <1>15, <2>1, <3>1
    <3>3. SumFunctionOnSet(shareOf', SharesIn(a)')
              = (totals.distributed - totals.withdrawn) + amount
      BY <1>13, <1>14, <2>1
    <3>4. QED BY <1>2, <3>1, <3>2, <3>3
  <2>2. CASE a # asset
    <3>1. a \in DOMAIN assetLedger /\ assetLedger'[a] = assetLedger[a]
      BY <1>15, <2>2
    <3>2. SumFunctionOnSet(shareOf', SharesIn(a)') = SumFunctionOnSet(shareOf, SharesIn(a))
      BY <1>13, <2>2
    <3>3. QED BY <3>1, <3>2 DEF RoyaltyInv
  <2>3. QED BY <2>1, <2>2
<1>17. \A k \in DOMAIN shareOf' : k[2] \in DOMAIN assetLedger'
  BY <1>10, <1>12, <1>15 DEF RoyaltyInv
<1>18. QED BY <1>1, <1>11, <1>16, <1>17 DEF RoyaltyInv

LEMMA TWithdraw ==
  ASSUME RoyaltyInv, NEW who, NEW asset, T!Withdraw(who, asset)
  PROVE  RoyaltyInv'
<1> PICK k : k = <<who, asset>>
  OBVIOUS
<1>0. PICK z \in Int : z = 0
  OBVIOUS
<1>1. /\ k \in DOMAIN shareOf /\ shareOf' = Set(shareOf, k, z) /\ manifests' = manifests
      /\ assetLedger' = [assetLedger EXCEPT ![asset].withdrawn = @ + shareOf[k]]
  BY <1>0 DEF T!Withdraw, T!Set, Set, T!Get
<1>2. asset \in DOMAIN assetLedger /\ k[2] = asset
  BY <1>1 DEF RoyaltyInv
<1>3. Summable(shareOf, DOMAIN shareOf) /\ shareOf[k] \in Int
  BY <1>1 DEF RoyaltyInv, Summable
<1>4. /\ DOMAIN shareOf' = DOMAIN shareOf /\ shareOf'[k] = z
      /\ \A x \in DOMAIN shareOf \ {k} : shareOf'[x] = shareOf[x]
      /\ Summable(shareOf', DOMAIN shareOf')
  <2>1. shareOf' = Set(shareOf, k, z)
    BY <1>1
  <2>2. /\ DOMAIN shareOf' = DOMAIN shareOf \cup {k} /\ shareOf'[k] = z
        /\ \A x \in DOMAIN shareOf \ {k} : shareOf'[x] = shareOf[x]
        /\ Summable(shareOf', DOMAIN shareOf')
    BY <1>0, <1>3, <2>1, SetInStore DEF Set
  <2>3. QED BY <1>1, <2>2
<1>5. \A a : SharesIn(a)' = SharesIn(a)
  BY <1>4 DEF SharesIn
<1>6. ASSUME NEW a \in DOMAIN assetLedger
      PROVE  /\ assetLedger'[a] \in [distributed : Int, withdrawn : Int]
             /\ SumFunctionOnSet(shareOf', SharesIn(a)') =
                    assetLedger'[a].distributed - assetLedger'[a].withdrawn
  <2>1. /\ assetLedger[a] \in [distributed : Int, withdrawn : Int]
        /\ SumFunctionOnSet(shareOf, SharesIn(a)) =
               assetLedger[a].distributed - assetLedger[a].withdrawn
    BY DEF RoyaltyInv
  <2>2. Summable(shareOf, SharesIn(a))
    BY <1>3, FS_Subset DEF Summable, SharesIn
  <2>3. CASE a = asset
    <3>1. k \in SharesIn(a)
      BY <1>1, <1>2, <2>3 DEF SharesIn
    <3>2. OneChange(shareOf, SharesIn(a), shareOf', SharesIn(a), k)
      BY <1>4, <2>2 DEF OneChange, SharesIn
    <3>3. SumFunctionOnSet(shareOf', SharesIn(a)) = SumFunctionOnSet(shareOf, SharesIn(a)) - shareOf[k] + z
      BY <1>4, <3>1, <3>2, SetSumChange
    <3>4. assetLedger[a].distributed \in Int /\ assetLedger[a].withdrawn \in Int
      BY <2>1
    <3>5. assetLedger'[a] = [assetLedger[a] EXCEPT !.withdrawn = @ + shareOf[k]]
      BY <1>1, <2>3
    <3>6. /\ assetLedger'[a] \in [distributed : Int, withdrawn : Int]
          /\ assetLedger'[a].distributed = assetLedger[a].distributed
          /\ assetLedger'[a].withdrawn = assetLedger[a].withdrawn + shareOf[k]
      BY <1>3, <2>1, <3>4, <3>5
    <3>7. SumFunctionOnSet(shareOf', SharesIn(a)')
              = (assetLedger[a].distributed - assetLedger[a].withdrawn) - shareOf[k] + z
      BY <1>5, <2>1, <3>3
    <3>8. QED BY <1>0, <1>3, <3>4, <3>6, <3>7
  <2>4. CASE a # asset
    <3>1. assetLedger'[a] = assetLedger[a]
      BY <1>1, <2>4
    <3>2. \A x \in SharesIn(a) : shareOf'[x] = shareOf[x]
      BY <1>2, <1>4, <2>4 DEF SharesIn
    <3>3. SumFunctionOnSet(shareOf', SharesIn(a)) = SumFunctionOnSet(shareOf, SharesIn(a))
      BY <2>2, <3>2, SetSumExt DEF Summable
    <3>4. QED BY <1>5, <2>1, <3>1, <3>3
  <2>5. QED BY <2>3, <2>4
<1>7. DOMAIN assetLedger' = DOMAIN assetLedger
  BY <1>1
<1>8. QED BY <1>1, <1>4, <1>6, <1>7 DEF RoyaltyInv

LEMMA RoyaltyElsewhere ==
  ASSUME RoyaltyInv, UNCHANGED <<manifests, shareOf, assetLedger>> PROVE RoyaltyInv'
<1>1. \A a : SharesIn(a)' = SharesIn(a)
  BY DEF SharesIn
<1>2. QED BY <1>1 DEF RoyaltyInv

LEMMA RoyaltyStep == ASSUME RoyaltyInv, T!RoyaltyNext PROVE RoyaltyInv'
<1>1. ASSUME NEW id \in DOMAIN Manifests, T!CreateManifest(id) PROVE RoyaltyInv'
  <2>1. /\ manifests' = manifests \cup {id} /\ T!ValidManifest(Manifests[id])
        /\ UNCHANGED <<shareOf, assetLedger>>
    BY <1>1 DEF T!CreateManifest
  <2>2. \A a : SharesIn(a)' = SharesIn(a)
    BY <2>1 DEF SharesIn
  <2>3. QED BY <2>1, <2>2 DEF RoyaltyInv
<1>2. QED
  BY <1>1, TDistribute, TWithdraw, Zenon DEF T!RoyaltyNext

LEMMA RoyaltyGood == RoyaltyInv => T!RoyaltiesAddUp
BY TreasurySums DEF RoyaltyInv, T!RoyaltiesAddUp, SharesIn

-----------------------------------------------------------------------------
(* Fines and deposits add up *)

LEMMA AccountSums ==
  /\ \A f, s : P!SumFunctionOnSet(f, s) = SumFunctionOnSet(f, s)
  /\ \A f : P!SumFunction(f) = SumFunction(f)
BY DEF P!SumFunction, P!SumFunctionOnSet, P!FoldFunctionOnSet, P!MapThenFoldSet,
     SumFunction, SumFunctionOnSet, FoldFunctionOnSet, MapThenFoldSet

FineValues == [id \in DOMAIN fines |-> fines[id].amount]
FinesOf(loan) == {id \in DOMAIN fines : fines[id].loan = loan}
DebtsInv == \A loan \in Loans : P!DebtOf(loan) = SumFunctionOnSet(FineValues, FinesOf(loan))

LEMMA FinesSummable ==
  ASSUME AccountsInv, NEW loan PROVE Summable(FineValues, FinesOf(loan))
<1>1. IsFiniteSet(DOMAIN fines)
  BY NumberedFinite DEF AccountsInv
<1>2. \A id \in DOMAIN fines : fines[id] \in Fine
  BY NumberedMember DEF AccountsInv
<1>3. IsFiniteSet(FinesOf(loan))
  BY <1>1, FS_Subset DEF FinesOf
<1>4. QED BY <1>2, <1>3 DEF Summable, FineValues, FinesOf, Fine

LEMMA DebtsInitial == P!Init => DebtsInv
<1>1. ASSUME P!Init, NEW loan \in Loans
      PROVE  P!DebtOf(loan) = SumFunctionOnSet(FineValues, FinesOf(loan))
  <2>1. DOMAIN fines = {} /\ DOMAIN loanDebt = {}
    BY <1>1 DEF P!Init, P!Empty
  <2>2. FinesOf(loan) = {} /\ P!DebtOf(loan) = 0
    BY <2>1 DEF FinesOf, P!DebtOf, P!Get
  <2>3. QED BY <2>2, SetSumEmpty
<1>2. QED BY <1>1 DEF DebtsInv

\* One fine is assessed or lowered, and the debt of its loan moves with it.
LEMMA FineWritten ==
  ASSUME AccountsInv, DebtsInv, NEW k, NEW r \in Fine, NEW old \in Int,
         DOMAIN fines' = DOMAIN fines \cup {k}, fines'[k] = r,
         \A x \in DOMAIN fines \ {k} : fines'[x] = fines[x],
         k \in DOMAIN fines => fines[k].loan = r.loan /\ old = fines[k].amount,
         k \notin DOMAIN fines => old = 0,
         loanDebt' = P!Set(loanDebt, r.loan, P!DebtOf(r.loan) - old + r.amount)
  PROVE  DebtsInv'
<1>1. ASSUME NEW loan \in Loans
      PROVE  P!DebtOf(loan)' = SumFunctionOnSet(FineValues', FinesOf(loan)')
  <2>1. Summable(FineValues, FinesOf(loan))
    BY <1>1, FinesSummable
  <2>2. P!DebtOf(loan) = SumFunctionOnSet(FineValues, FinesOf(loan))
        /\ SumFunctionOnSet(FineValues, FinesOf(loan)) \in Int
    BY <2>1, SetSumInt DEF DebtsInv, Summable
  <2>3. FineValues'[k] = r.amount /\ r.amount \in Int
        /\ \A x \in DOMAIN fines \ {k} : FineValues'[x] = FineValues[x]
    BY DEF FineValues, Fine
  <2>4. CASE loan = r.loan
    <3>1. k \in FinesOf(loan)' /\ FinesOf(loan)' \ {k} = FinesOf(loan) \ {k}
      BY <2>4 DEF FinesOf
    <3>2. OneChange(FineValues, FinesOf(loan), FineValues', FinesOf(loan)', k)
      BY <2>1, <2>3, <3>1 DEF OneChange, FinesOf
    <3>3. SumFunctionOnSet(FineValues', FinesOf(loan)') = SumFunctionOnSet(FineValues, FinesOf(loan))
              - (IF k \in FinesOf(loan) THEN FineValues[k] ELSE 0) + FineValues'[k]
      BY <3>1, <3>2, SetSumChange
    <3>4. old = IF k \in FinesOf(loan) THEN FineValues[k] ELSE 0
      BY <2>4 DEF FinesOf, FineValues
    <3>5. P!DebtOf(loan)' = P!DebtOf(loan) - old + r.amount
      BY <2>4 DEF P!DebtOf, P!Get, P!Set
    <3>6. QED BY <2>2, <2>3, <3>3, <3>4, <3>5
  <2>5. CASE loan # r.loan
    <3>1. FinesOf(loan)' = FinesOf(loan) /\ k \notin FinesOf(loan)
      BY <2>5 DEF FinesOf
    <3>2. \A x \in FinesOf(loan) : FineValues[x] = FineValues'[x]
      BY <2>3, <3>1 DEF FinesOf
    <3>3. SumFunctionOnSet(FineValues, FinesOf(loan)) = SumFunctionOnSet(FineValues', FinesOf(loan))
      BY <2>1, <3>2, SetSumExt DEF Summable
    <3>4. P!DebtOf(loan)' = P!DebtOf(loan)
      BY <2>5 DEF P!DebtOf, P!Get, P!Set
    <3>5. QED BY <2>2, <3>1, <3>3, <3>4
  <2>6. QED BY <2>4, <2>5
<1>2. QED BY <1>1 DEF DebtsInv

LEMMA DebtsElsewhere ==
  ASSUME DebtsInv, UNCHANGED <<fines, loanDebt>> PROVE DebtsInv'
<1>1. FineValues' = FineValues /\ \A loan : FinesOf(loan)' = FinesOf(loan)
                                          /\ P!DebtOf(loan)' = P!DebtOf(loan)
  BY DEF FineValues, FinesOf, P!DebtOf, P!Get
<1>2. QED BY <1>1 DEF DebtsInv

LEMMA DebtAssessed ==
  ASSUME AccountsInv, DebtsInv, NEW loan \in Loans, NEW amount \in FineAmounts, NEW start,
         NEW nonce, NEW expiry, P!AssessFine(loan, amount, start, nonce, expiry)
  PROVE  DebtsInv'
<1>1. PICK r : r = [loan |-> loan, amount |-> amount, waived |-> FALSE]
  OBVIOUS
<1>2. PICK k : k = P!NextKey(fines)
  OBVIOUS
<1>3. /\ fines' = [x \in DOMAIN fines \cup {k} |-> IF x = k THEN r ELSE fines[x]]
      /\ loanDebt' = P!Set(loanDebt, loan, P!DebtOf(loan) + amount)
  BY <1>1, <1>2 DEF P!AssessFine, P!Set
<1>4. amount \in Int /\ P!DebtOf(loan) \in Int
  BY PlatformConstants DEF AccountsInv, P!DebtOf, P!Get
<1>5. r \in Fine /\ r.loan = loan /\ r.amount = amount
  BY <1>1, <1>4 DEF Fine
<1>6. k \notin DOMAIN fines
  <2>1. k = Cardinality(DOMAIN fines) + 1
    BY <1>2, Zenon DEF P!NextKey, P!Cardinality, Cardinality
  <2>2. Numbered(fines, Fine)
    BY DEF AccountsInv
  <2>3. QED BY ONLY <1>3, <1>5, <2>1, <2>2, NumberedNext
<1>7. PICK old \in Int : old = 0
  OBVIOUS
<1>8. DOMAIN fines' = DOMAIN fines \cup {k} /\ fines'[k] = r
      /\ \A x \in DOMAIN fines \ {k} : fines'[x] = fines[x]
  BY <1>3
<1>9. loanDebt' = P!Set(loanDebt, r.loan, P!DebtOf(r.loan) - old + r.amount)
  <2>1. P!DebtOf(loan) - old + amount = P!DebtOf(loan) + amount
    BY <1>4, <1>7
  <2>2. QED BY <1>3, <1>5, <2>1
<1>10. QED BY <1>5, <1>6, <1>7, <1>8, <1>9, FineWritten

LEMMA DebtWaived ==
  ASSUME AccountsInv, DebtsInv, NEW id \in DOMAIN fines, NEW amount \in FineAmounts,
         P!WaiveFine(id, amount)
  PROVE  DebtsInv'
<1>1. fines[id] \in Fine /\ fines[id].amount \in Int
  <2>1. fines[id] \in Fine
    BY NumberedMember DEF AccountsInv
  <2>2. QED BY <2>1 DEF Fine
<1>2. PICK w \in BOOLEAN : w = (fines[id].waived \/ fines[id].amount = amount)
  BY Zenon
<1>3. PICK r : r = [fines[id] EXCEPT !.amount = fines[id].amount - amount, !.waived = w]
  OBVIOUS
<1>4. /\ fines' = [fines EXCEPT ![id] = r]
      /\ loanDebt' = P!Set(loanDebt, fines[id].loan, P!DebtOf(fines[id].loan) - amount)
  BY <1>2, <1>3, Zenon DEF P!WaiveFine
<1>5. amount \in Int /\ P!DebtOf(fines[id].loan) \in Int
  BY PlatformConstants DEF AccountsInv, P!DebtOf, P!Get
<1>6. r \in Fine /\ r.loan = fines[id].loan /\ r.amount = fines[id].amount - amount
  <2>1. PICK f : f = [fines[id] EXCEPT !.amount = fines[id].amount - amount]
    OBVIOUS
  <2>2. f \in Fine /\ f.loan = fines[id].loan /\ f.amount = fines[id].amount - amount
    BY <1>1, <1>5, <2>1 DEF Fine
  <2>3. r = [f EXCEPT !.waived = w]
    BY <1>3, <2>1, Zenon
  <2>4. QED BY ONLY <1>2, <2>2, <2>3 DEF Fine
<1>7. PICK old \in Int : old = fines[id].amount
  BY <1>1
<1>8. DOMAIN fines' = DOMAIN fines \cup {id} /\ fines'[id] = r
      /\ \A x \in DOMAIN fines \ {id} : fines'[x] = fines[x]
  BY <1>4
<1>9. loanDebt' = P!Set(loanDebt, r.loan, P!DebtOf(r.loan) - old + r.amount)
  <2>1. P!DebtOf(fines[id].loan) - old + r.amount = P!DebtOf(fines[id].loan) - amount
    BY <1>5, <1>6, <1>7
  <2>2. QED BY <1>4, <1>6, <2>1
<1>10. QED BY <1>6, <1>7, <1>8, <1>9, FineWritten

LEMMA DebtsStep ==
  ASSUME AccountsInv, DebtsInv, P!FineNext
  PROVE  DebtsInv'
<1>1. ASSUME NEW policy, P!SetPolicy(policy) PROVE DebtsInv'
  BY <1>1, DebtsElsewhere DEF P!SetPolicy
<1>2. QED BY <1>1, DebtAssessed, DebtWaived, Zenon DEF P!FineNext

LEMMA DebtsGood == DebtsInv => P!DebtIsFines
BY AccountSums DEF DebtsInv, P!DebtIsFines, FineValues, FinesOf

Deposit == [patron : Patrons, remaining : Int, status : {"Locked", "Released", "Charged"}]
Remaining == [d \in DOMAIN deposits |-> deposits[d].remaining]
HeldInv ==
    /\ Numbered(deposits, Deposit)
    /\ vault = SumFunction(Remaining)
    /\ \A d \in DOMAIN deposits : deposits[d].status # "Locked" => deposits[d].remaining = 0

LEMMA HeldInitial == P!Init => HeldInv
<1>1. ASSUME P!Init PROVE HeldInv
  <2>1. deposits = [k \in {} |-> {}] /\ vault = 0
    BY <1>1 DEF P!Init, P!Empty
  <2>2. DOMAIN deposits = {} /\ DOMAIN Remaining = {}
    BY <2>1 DEF Remaining
  <2>3. SumFunction(Remaining) = 0
    BY <2>2, SetSumEmpty DEF SumFunction
  <2>4. QED BY <2>1, <2>2, <2>3, NumberedInitial DEF HeldInv
<1>2. QED BY <1>1

LEMMA HeldTypes ==
  ASSUME HeldInv
  PROVE  /\ \A d \in DOMAIN deposits : deposits[d] \in Deposit /\ deposits[d].remaining \in Int
         /\ IsFiniteSet(DOMAIN deposits) /\ Summable(Remaining, DOMAIN Remaining) /\ vault \in Int
<1>1. Numbered(deposits, Deposit)
  BY DEF HeldInv
<1>2. IsFiniteSet(DOMAIN deposits) /\ \A d \in DOMAIN deposits : deposits[d] \in Deposit
  BY <1>1, NumberedFinite, NumberedMember
<1>3. \A d \in DOMAIN deposits : deposits[d].remaining \in Int
  BY <1>2 DEF Deposit
<1>4. Summable(Remaining, DOMAIN Remaining)
  BY <1>2, <1>3 DEF Summable, Remaining
<1>5. SumFunctionOnSet(Remaining, DOMAIN Remaining) \in Int
  BY <1>4, SetSumInt DEF Summable
<1>6. QED BY <1>2, <1>3, <1>4, <1>5 DEF HeldInv, SumFunction

LEMMA HeldWritten ==
  ASSUME HeldInv, NEW k, NEW r \in Deposit, Numbered(deposits', Deposit),
         DOMAIN deposits' = DOMAIN deposits \cup {k}, deposits'[k] = r,
         \A x \in DOMAIN deposits \ {k} : deposits'[x] = deposits[x],
         r.status # "Locked" => r.remaining = 0,
         vault' = vault - (IF k \in DOMAIN deposits THEN deposits[k].remaining ELSE 0) + r.remaining
  PROVE  HeldInv'
<1>1. IsFiniteSet(DOMAIN deposits) /\ \A d \in DOMAIN deposits : deposits[d] \in Deposit
  BY HeldTypes
<1>2. r.remaining \in Int /\ \A d \in DOMAIN deposits : deposits[d].remaining \in Int
  BY <1>1 DEF Deposit
<1>3. OneChange(Remaining, DOMAIN Remaining, Remaining', DOMAIN Remaining', k)
  BY <1>1, <1>2 DEF OneChange, Summable, Remaining
<1>4. SumFunctionOnSet(Remaining', DOMAIN Remaining') = SumFunctionOnSet(Remaining, DOMAIN Remaining)
          - (IF k \in DOMAIN Remaining THEN Remaining[k] ELSE 0)
          + (IF k \in DOMAIN Remaining' THEN Remaining'[k] ELSE 0)
  BY ONLY <1>3, SetSumChange
<1>5. vault = SumFunctionOnSet(Remaining, DOMAIN Remaining)
  BY DEF HeldInv, SumFunction
<1>6. /\ DOMAIN Remaining = DOMAIN deposits /\ DOMAIN Remaining' = DOMAIN deposits'
      /\ k \in DOMAIN deposits => Remaining[k] = deposits[k].remaining
      /\ Remaining'[k] = r.remaining
  BY DEF Remaining
<1>7. vault' = SumFunction(Remaining)'
  BY <1>4, <1>5, <1>6 DEF SumFunction
<1>8. \A d \in DOMAIN deposits' : deposits'[d].status # "Locked" => deposits'[d].remaining = 0
  BY DEF HeldInv
<1>9. QED BY <1>7, <1>8 DEF HeldInv

LEMMA PLockDeposit ==
  ASSUME HeldInv, NEW patron \in Patrons, NEW loan, NEW amount \in FineAmounts,
         P!LockDeposit(patron, loan, amount)
  PROVE  HeldInv'
<1>1. PICK r : r = [patron |-> patron, remaining |-> amount, status |-> "Locked"]
  OBVIOUS
<1>2. PICK k : k = P!NextKey(deposits)
  OBVIOUS
<1>3. /\ deposits' = [x \in DOMAIN deposits \cup {k} |-> IF x = k THEN r ELSE deposits[x]]
      /\ vault' = vault + amount
  BY <1>1, <1>2 DEF P!LockDeposit, P!Set
<1>4. amount \in Int
  BY PlatformConstants
<1>5. r \in Deposit /\ r.remaining = amount /\ r.status = "Locked"
  BY <1>1, <1>4 DEF Deposit
<1>6. /\ k \notin DOMAIN deposits /\ DOMAIN deposits' = DOMAIN deposits \cup {k}
      /\ deposits'[k] = r /\ \A x \in DOMAIN deposits : deposits'[x] = deposits[x]
      /\ Numbered(deposits', Deposit)
  <2>1. k = Cardinality(DOMAIN deposits) + 1
    BY <1>2, Zenon DEF P!NextKey, P!Cardinality, Cardinality
  <2>2. Numbered(deposits, Deposit)
    BY DEF HeldInv
  <2>3. QED BY ONLY <1>3, <1>5, <2>1, <2>2, NumberedNext
<1>7. vault \in Int
  BY HeldTypes
<1>8. vault' = vault - (IF k \in DOMAIN deposits THEN deposits[k].remaining ELSE 0) + r.remaining
  BY <1>3, <1>4, <1>5, <1>6, <1>7
<1>9. QED BY <1>5, <1>6, <1>8, HeldWritten

LEMMA PPayOut ==
  ASSUME HeldInv, NEW d \in DOMAIN deposits, NEW amount \in Int,
         NEW status \in {"Locked", "Released", "Charged"}, P!PayOut(d, amount, status),
         status # "Locked" => amount = deposits[d].remaining
  PROVE  HeldInv'
<1>1. deposits[d] \in Deposit
  BY NumberedMember DEF HeldInv
<1>2. deposits[d].remaining \in Int
  BY <1>1 DEF Deposit
<1>3. PICK left \in Int : left = deposits[d].remaining - amount
  BY <1>2
<1>4. PICK r : r = [deposits[d] EXCEPT !.remaining = left, !.status = status]
  OBVIOUS
<1>5. deposits' = [deposits EXCEPT ![d] = r] /\ vault' = vault - amount
  BY <1>3, <1>4 DEF P!PayOut
<1>6. r \in Deposit /\ r.remaining = left /\ r.status = status
  BY <1>1, <1>3, <1>4 DEF Deposit
<1>7. /\ DOMAIN deposits' = DOMAIN deposits \cup {d} /\ deposits'[d] = r
      /\ \A x \in DOMAIN deposits \ {d} : deposits'[x] = deposits[x]
      /\ Numbered(deposits', Deposit)
  <2>1. Numbered(deposits, Deposit)
    BY DEF HeldInv
  <2>2. /\ DOMAIN [deposits EXCEPT ![d] = r] = DOMAIN deposits
        /\ [deposits EXCEPT ![d] = r][d] = r
        /\ \A x \in DOMAIN deposits \ {d} : [deposits EXCEPT ![d] = r][x] = deposits[x]
        /\ Numbered([deposits EXCEPT ![d] = r], Deposit)
    BY <1>6, <2>1, NumberedUpdate
  <2>3. QED BY <1>5, <2>2
<1>8. vault \in Int
  BY HeldTypes
<1>9. vault' = vault - (IF d \in DOMAIN deposits THEN deposits[d].remaining ELSE 0) + r.remaining
  BY <1>2, <1>3, <1>5, <1>6, <1>8
<1>10. r.status # "Locked" => r.remaining = 0
  BY <1>2, <1>3, <1>6
<1>11. QED BY <1>6, <1>7, <1>9, <1>10, HeldWritten

LEMMA HeldStep == ASSUME HeldInv, P!DepositNext PROVE HeldInv'
<1>1. ASSUME NEW d \in DOMAIN deposits,
             \/ \E caller \in Patrons \cup {Admin} : P!ReleaseDeposit(caller, d)
             \/ \E amount \in FineAmounts : P!PartialCharge(d, amount)
             \/ P!FullCharge(d)
      PROVE  HeldInv'
  <2>1. deposits[d].remaining \in Int
    BY HeldTypes
  <2>2. PICK amount \in Int, status \in {"Locked", "Released", "Charged"} :
            P!PayOut(d, amount, status) /\ (status # "Locked" => amount = deposits[d].remaining)
    <3>1. ASSUME NEW amount \in FineAmounts PROVE amount \in Int
      BY PlatformConstants
    <3>2. QED BY <1>1, <2>1, <3>1 DEF P!ReleaseDeposit, P!PartialCharge, P!FullCharge
  <2>3. QED BY <2>2, PPayOut
<1>2. QED BY <1>1, PLockDeposit, Zenon DEF P!DepositNext

LEMMA HeldElsewhere == ASSUME HeldInv, UNCHANGED <<deposits, vault>> PROVE HeldInv'
<1>1. Remaining' = Remaining
  BY DEF Remaining
<1>2. QED BY <1>1 DEF HeldInv

LEMMA HeldGood == HeldInv => P!DepositsCovered
BY AccountSums DEF HeldInv, P!DepositsCovered, Remaining

-----------------------------------------------------------------------------
(* The fine ledger *)

Kinds == {"Assessment", "Waiver", "Payment", "Refund", "Reversal"}
Entry == [ref : Refs, kind : Kinds, delta : Int]
States == {"Pending", "Confirmed", "Failed", "Refunded", "Reversed"}
Paid == {"Confirmed", "Refunded", "Reversed"}
Undone == {"Refunded", "Reversed"}
Settlement == [patron : Patrons, amount : Nat, state : States]

Deltas(p) == [i \in DOMAIN entries[p] |-> entries[p][i].delta]
OfKind(p, kinds) == {i \in DOMAIN entries[p] : entries[p][i].kind \in kinds}
PostedAs(p, kinds) == SumFunctionOnSet(Deltas(p), OfKind(p, kinds))
SettledAmounts == [id \in DOMAIN settled |-> settled[id].amount]
InStates(p, states) == {id \in DOMAIN settled : settled[id].patron = p /\ settled[id].state \in states}
TotalIn(p, states) == SumFunctionOnSet(SettledAmounts, InStates(p, states))

PatronExact(p) ==
    /\ balances[p] >= 0
    /\ balances[p] = PostedAs(p, Kinds)
    /\ PostedAs(p, {"Payment"}) = -TotalIn(p, Paid)
    /\ PostedAs(p, {"Refund", "Reversal"}) = TotalIn(p, Undone)
SettledOnce ==
    IsFiniteSet(DOMAIN settled) /\ \A id \in DOMAIN settled : settled[id] \in Settlement
RefsOnce ==
    /\ entries \in [Patrons -> Seq(Entry)]
    /\ \A p \in Patrons : \A i \in DOMAIN entries[p] : entries[p][i].ref \in refs
    /\ \A p, q \in Patrons : \A i \in DOMAIN entries[p], j \in DOMAIN entries[q] :
           entries[p][i].ref = entries[q][j].ref => p = q /\ i = j

\* The references of all entries are remembered, so that a new one is free.
LedgerInv ==
    /\ balances \in [Patrons -> Int]
    /\ SettledOnce /\ RefsOnce
    /\ \A p \in Patrons : PatronExact(p)

LEMMA LedgerInitial == P!Init => LedgerInv
<1>1. ASSUME P!Init PROVE LedgerInv
  <2>1. /\ balances = [p \in Patrons |-> 0] /\ entries = [p \in Patrons |-> <<>>]
        /\ refs = {} /\ settled = [k \in {} |-> {}]
    BY <1>1 DEF P!Init, P!Empty
  <2>2. DOMAIN settled = {} /\ \A p \in Patrons : entries[p] = <<>> /\ DOMAIN entries[p] = {}
    BY <2>1
  <2>3. ASSUME NEW p \in Patrons PROVE PatronExact(p)
    <3>1. (\A kinds : OfKind(p, kinds) = {}) /\ \A states : InStates(p, states) = {}
      BY <2>2 DEF OfKind, InStates
    <3>2. (\A kinds : PostedAs(p, kinds) = 0) /\ \A states : TotalIn(p, states) = 0
      BY <3>1, SetSumEmpty DEF PostedAs, TotalIn
    <3>3. QED BY <2>1, <3>2 DEF PatronExact
  <2>4. SettledOnce
    BY <2>2, FS_EmptySet DEF SettledOnce
  <2>5. RefsOnce
    BY <2>1, <2>2 DEF RefsOnce
  <2>6. QED BY <2>1, <2>3, <2>4, <2>5 DEF LedgerInv
<1>2. QED BY <1>1

LEMMA PostedSummable ==
  ASSUME RefsOnce, NEW p \in Patrons, NEW kinds
  PROVE  /\ Summable(Deltas(p), OfKind(p, kinds)) /\ PostedAs(p, kinds) \in Int
         /\ entries[p] \in Seq(Entry)
<1>1. entries[p] \in Seq(Entry)
  BY DEF RefsOnce
<1>2. DOMAIN entries[p] = 1..Len(entries[p]) /\ Len(entries[p]) \in Nat
      /\ \A i \in DOMAIN entries[p] : entries[p][i] \in Entry
  BY <1>1
<1>3. IsFiniteSet(OfKind(p, kinds))
  <2>1. IsFiniteSet(1..Len(entries[p]))
    BY <1>2, FS_Interval
  <2>2. OfKind(p, kinds) \subseteq 1..Len(entries[p])
    BY <1>2 DEF OfKind
  <2>3. QED BY <2>1, <2>2, FS_Subset
<1>4. \A i \in OfKind(p, kinds) : Deltas(p)[i] \in Int
  BY <1>2 DEF OfKind, Deltas, Entry
<1>5. QED BY <1>1, <1>3, <1>4, SetSumInt DEF Summable, PostedAs

LEMMA TotalSummable ==
  ASSUME SettledOnce, NEW p, NEW states
  PROVE  Summable(SettledAmounts, InStates(p, states)) /\ TotalIn(p, states) \in Int
<1>1. IsFiniteSet(InStates(p, states))
  BY FS_Subset DEF SettledOnce, InStates
<1>2. \A id \in InStates(p, states) : SettledAmounts[id] \in Int
  BY DEF SettledOnce, InStates, SettledAmounts, Settlement
<1>3. QED BY <1>1, <1>2, SetSumInt DEF Summable, TotalIn

\* A new entry under a reference not used before adds its amount to the totals of its kind.
LEMMA EntryAppended ==
  ASSUME RefsOnce, NEW patron \in Patrons, NEW ref \in Refs, NEW kind \in Kinds, NEW delta \in Int,
         ref \notin refs, P!AppendEntry(patron, ref, kind, delta)
  PROVE  /\ RefsOnce'
         /\ \A p \in Patrons : \A kinds : PostedAs(p, kinds)' =
                PostedAs(p, kinds) + (IF p = patron /\ kind \in kinds THEN delta ELSE 0)
<1>1. PICK e : e = [ref |-> ref, kind |-> kind, delta |-> delta]
  OBVIOUS
<1>2. PICK k : k = Len(entries[patron]) + 1
  OBVIOUS
<1>3. entries' = [entries EXCEPT ![patron] = Append(@, e)] /\ refs' = refs \cup {ref}
  BY <1>1 DEF P!AppendEntry
<1>4. e \in Entry /\ e.ref = ref /\ e.kind = kind /\ e.delta = delta
  BY <1>1 DEF Entry
<1>5. entries[patron] \in Seq(Entry) /\ entries \in [Patrons -> Seq(Entry)]
  BY DEF RefsOnce
<1>6. \A p \in Patrons \ {patron} : entries'[p] = entries[p]
  BY <1>3, <1>5
<1>7. /\ entries'[patron] \in Seq(Entry) /\ DOMAIN entries'[patron] = DOMAIN entries[patron] \cup {k}
      /\ k \notin DOMAIN entries[patron] /\ entries'[patron][k] = e
      /\ \A i \in DOMAIN entries[patron] : entries'[patron][i] = entries[patron][i]
  <2>1. entries'[patron] = Append(entries[patron], e)
    BY <1>3, <1>5
  <2>2. QED BY ONLY <1>2, <1>4, <1>5, <2>1
<1>8. RefsOnce'
  <2>1. entries' \in [Patrons -> Seq(Entry)]
    BY <1>3, <1>5, <1>7
  <2>2. ASSUME NEW p \in Patrons, NEW i \in DOMAIN entries'[p]
        PROVE  \/ i \in DOMAIN entries[p] /\ entries'[p][i] = entries[p][i]
                  /\ entries'[p][i].ref \in refs
               \/ p = patron /\ i = k /\ entries'[p][i].ref = ref
    BY <1>4, <1>6, <1>7 DEF RefsOnce
  <2>3. \A p \in Patrons : \A i \in DOMAIN entries'[p] : entries'[p][i].ref \in refs'
    BY <1>3, <2>2
  <2>4. ASSUME NEW p \in Patrons, NEW q \in Patrons, NEW i \in DOMAIN entries'[p],
               NEW j \in DOMAIN entries'[q], entries'[p][i].ref = entries'[q][j].ref
        PROVE  p = q /\ i = j
    BY <2>2, <2>4 DEF RefsOnce
  <2>5. QED BY <2>1, <2>3, <2>4 DEF RefsOnce
<1>9. ASSUME NEW p \in Patrons, NEW kinds
      PROVE  PostedAs(p, kinds)' = PostedAs(p, kinds) + (IF p = patron /\ kind \in kinds THEN delta ELSE 0)
  <2>1. Summable(Deltas(p), OfKind(p, kinds)) /\ PostedAs(p, kinds) \in Int
    BY PostedSummable
  <2>2. CASE p # patron
    <3>1. Deltas(p)' = Deltas(p) /\ OfKind(p, kinds)' = OfKind(p, kinds)
      BY <1>6, <2>2 DEF Deltas, OfKind
    <3>2. QED BY <2>1, <2>2, <3>1 DEF PostedAs
  <2>3. CASE p = patron
    <3>1. /\ OfKind(p, kinds)' \ {k} = OfKind(p, kinds) \ {k} /\ k \notin OfKind(p, kinds)
          /\ (k \in OfKind(p, kinds)' <=> kind \in kinds)
      BY <1>4, <1>7, <2>3 DEF OfKind
    <3>2. Deltas(p)'[k] = delta /\ \A i \in OfKind(p, kinds) : Deltas(p)'[i] = Deltas(p)[i]
      BY <1>4, <1>7, <2>3 DEF OfKind, Deltas
    <3>3. OneChange(Deltas(p), OfKind(p, kinds), Deltas(p)', OfKind(p, kinds)', k)
      BY <2>1, <3>1, <3>2 DEF OneChange
    <3>4. PostedAs(p, kinds)' = PostedAs(p, kinds)
              - (IF k \in OfKind(p, kinds) THEN Deltas(p)[k] ELSE 0)
              + (IF k \in OfKind(p, kinds)' THEN Deltas(p)'[k] ELSE 0)
      BY <3>3, SetSumChange DEF PostedAs
    <3>5. QED BY <2>1, <2>3, <3>1, <3>2, <3>4
  <2>4. QED BY <2>2, <2>3
<1>10. QED BY <1>8, <1>9

\* A settlement is stored with a state; the totals see it leave its old one.
LEMMA SettlementWritten ==
  ASSUME SettledOnce, NEW id, NEW s \in Settlement,
         DOMAIN settled' = DOMAIN settled \cup {id}, settled'[id] = s,
         \A x \in DOMAIN settled \ {id} : settled'[x] = settled[x],
         id \in DOMAIN settled => s.patron = settled[id].patron /\ s.amount = settled[id].amount
  PROVE  /\ SettledOnce'
         /\ \A p, states : TotalIn(p, states)' = TotalIn(p, states)
                - (IF id \in InStates(p, states) THEN s.amount ELSE 0)
                + (IF p = s.patron /\ s.state \in states THEN s.amount ELSE 0)
<1>1. s.amount \in Int
  BY DEF Settlement
<1>2. SettledOnce'
  BY FS_AddElement DEF SettledOnce
<1>3. ASSUME NEW p, NEW states
      PROVE  TotalIn(p, states)' = TotalIn(p, states)
                - (IF id \in InStates(p, states) THEN s.amount ELSE 0)
                + (IF p = s.patron /\ s.state \in states THEN s.amount ELSE 0)
  <2>1. Summable(SettledAmounts, InStates(p, states))
    BY TotalSummable
  <2>2. /\ InStates(p, states)' \ {id} = InStates(p, states) \ {id}
        /\ (id \in InStates(p, states)' <=> p = s.patron /\ s.state \in states)
    BY DEF InStates
  <2>3. /\ SettledAmounts'[id] = s.amount
        /\ id \in InStates(p, states) => SettledAmounts[id] = s.amount
        /\ \A x \in InStates(p, states) \ {id} : SettledAmounts'[x] = SettledAmounts[x]
    BY DEF InStates, SettledAmounts
  <2>4. OneChange(SettledAmounts, InStates(p, states), SettledAmounts', InStates(p, states)', id)
    BY <1>1, <2>1, <2>2, <2>3 DEF OneChange
  <2>5. TotalIn(p, states)' = TotalIn(p, states)
            - (IF id \in InStates(p, states) THEN SettledAmounts[id] ELSE 0)
            + (IF id \in InStates(p, states)' THEN SettledAmounts'[id] ELSE 0)
    BY <2>4, SetSumChange DEF TotalIn
  <2>6. QED BY <2>2, <2>3, <2>5
<1>4. QED BY <1>2, <1>3

LEMMA SettlementsSame ==
  ASSUME SettledOnce, UNCHANGED settled
  PROVE  SettledOnce' /\ \A p, states : TotalIn(p, states)' = TotalIn(p, states)
<1>1. SettledAmounts' = SettledAmounts /\ \A p, states : InStates(p, states)' = InStates(p, states)
  BY DEF SettledAmounts, InStates
<1>2. QED BY <1>1 DEF SettledOnce, TotalIn

LEMMA EntriesSame ==
  ASSUME RefsOnce, UNCHANGED <<entries, refs>>
  PROVE  RefsOnce' /\ \A p, kinds : PostedAs(p, kinds)' = PostedAs(p, kinds)
<1>1. \A p, kinds : Deltas(p)' = Deltas(p) /\ OfKind(p, kinds)' = OfKind(p, kinds)
  BY DEF Deltas, OfKind
<1>2. QED BY <1>1 DEF RefsOnce, PostedAs

\* One entry and one settlement move together.
LEMMA LedgerPosted ==
  ASSUME LedgerInv, NEW patron \in Patrons, NEW ref \in Refs, NEW kind \in Kinds, NEW delta \in Int,
         ref \notin refs, P!AppendEntry(patron, ref, kind, delta), SettledOnce',
         NEW paid \in Int, NEW undone \in Int,
         \A p \in Patrons :
             /\ TotalIn(p, Paid)' = TotalIn(p, Paid) + (IF p = patron THEN paid ELSE 0)
             /\ TotalIn(p, Undone)' = TotalIn(p, Undone) + (IF p = patron THEN undone ELSE 0),
         balances[patron] + delta >= 0,
         paid = IF kind = "Payment" THEN -delta ELSE 0,
         undone = IF kind \in {"Refund", "Reversal"} THEN delta ELSE 0
  PROVE  LedgerInv'
<1>1. RefsOnce /\ SettledOnce /\ balances \in [Patrons -> Int] /\ \A p \in Patrons : PatronExact(p)
  BY DEF LedgerInv
<1>2. RefsOnce' /\ \A p \in Patrons : \A kinds : PostedAs(p, kinds)' =
          PostedAs(p, kinds) + (IF p = patron /\ kind \in kinds THEN delta ELSE 0)
  BY <1>1, EntryAppended
<1>3. balances' = [balances EXCEPT ![patron] = @ + delta]
  BY DEF P!AppendEntry
<1>4. balances' \in [Patrons -> Int]
      /\ \A p \in Patrons : balances'[p] = balances[p] + (IF p = patron THEN delta ELSE 0)
  BY <1>1, <1>3
<1>5. ASSUME NEW p \in Patrons PROVE PatronExact(p)'
  <2>1. /\ PostedAs(p, Kinds)' = PostedAs(p, Kinds) + (IF p = patron THEN delta ELSE 0)
        /\ PostedAs(p, {"Payment"})' = PostedAs(p, {"Payment"})
               + (IF p = patron /\ kind = "Payment" THEN delta ELSE 0)
        /\ PostedAs(p, {"Refund", "Reversal"})' = PostedAs(p, {"Refund", "Reversal"})
               + (IF p = patron /\ kind \in {"Refund", "Reversal"} THEN delta ELSE 0)
    <3>1. kind \in {"Payment"} <=> kind = "Payment"
      OBVIOUS
    <3>2. QED BY <1>2, <3>1
  <2>2. /\ balances[p] \in Int /\ balances[p] >= 0 /\ balances[p] = PostedAs(p, Kinds)
        /\ PostedAs(p, {"Payment"}) = -TotalIn(p, Paid)
        /\ PostedAs(p, {"Refund", "Reversal"}) = TotalIn(p, Undone)
    BY <1>1 DEF PatronExact
  <2>3. TotalIn(p, Paid) \in Int /\ TotalIn(p, Undone) \in Int
    BY <1>1, TotalSummable
  <2>4. balances'[p] = balances[p] + (IF p = patron THEN delta ELSE 0)
    BY <1>4
  <2>5. /\ TotalIn(p, Paid)' = TotalIn(p, Paid) + (IF p = patron THEN paid ELSE 0)
        /\ TotalIn(p, Undone)' = TotalIn(p, Undone) + (IF p = patron THEN undone ELSE 0)
    OBVIOUS
  <2>6. balances'[p] >= 0 /\ balances'[p] = PostedAs(p, Kinds)'
    BY <2>1, <2>2, <2>4
  <2>7. PostedAs(p, {"Payment"})' = -(TotalIn(p, Paid)')
    BY <2>1, <2>2, <2>3, <2>5
  <2>8. PostedAs(p, {"Refund", "Reversal"})' = TotalIn(p, Undone)'
    BY <2>1, <2>2, <2>3, <2>5
  <2>9. QED BY <2>6, <2>7, <2>8 DEF PatronExact
<1>6. QED BY <1>2, <1>4, <1>5 DEF LedgerInv

\* A settlement that is not paid yet moves nothing.
LEMMA LedgerPending ==
  ASSUME LedgerInv, UNCHANGED <<balances, entries, refs>>, SettledOnce',
         \A p : TotalIn(p, Paid)' = TotalIn(p, Paid) /\ TotalIn(p, Undone)' = TotalIn(p, Undone)
  PROVE  LedgerInv'
<1>1. RefsOnce' /\ \A p, kinds : PostedAs(p, kinds)' = PostedAs(p, kinds)
  BY EntriesSame DEF LedgerInv
<1>2. ASSUME NEW p \in Patrons PROVE PatronExact(p)'
  BY <1>1 DEF LedgerInv, PatronExact
<1>3. QED BY <1>1, <1>2 DEF LedgerInv

LEMMA LedgerElsewhere ==
  ASSUME LedgerInv, UNCHANGED <<balances, entries, refs, settled>> PROVE LedgerInv'
<1>1. SettledOnce' /\ \A p, states : TotalIn(p, states)' = TotalIn(p, states)
  BY SettlementsSame DEF LedgerInv
<1>2. QED BY <1>1, LedgerPending

\* The steps of a settlement that exists.
LEMMA SettlementStep ==
  ASSUME SettledOnce, NEW id \in DOMAIN settled, NEW state \in States,
         settled' = [settled EXCEPT ![id].state = state]
  PROVE  /\ SettledOnce'
         /\ \A p, states : TotalIn(p, states)' = TotalIn(p, states)
                - (IF p = settled[id].patron /\ settled[id].state \in states
                   THEN settled[id].amount ELSE 0)
                + (IF p = settled[id].patron /\ state \in states THEN settled[id].amount ELSE 0)
<1>1. settled[id] \in Settlement
  BY DEF SettledOnce
<1>2. PICK s : s = [settled[id] EXCEPT !.state = state]
  OBVIOUS
<1>3. s \in Settlement /\ s.patron = settled[id].patron /\ s.amount = settled[id].amount
      /\ s.state = state
  BY <1>1, <1>2 DEF Settlement
<1>4. /\ DOMAIN settled' = DOMAIN settled \cup {id} /\ settled'[id] = s
      /\ \A x \in DOMAIN settled \ {id} : settled'[x] = settled[x]
  BY <1>2
<1>5. SettledOnce' /\ \A p, states : TotalIn(p, states)' = TotalIn(p, states)
          - (IF id \in InStates(p, states) THEN s.amount ELSE 0)
          + (IF p = s.patron /\ s.state \in states THEN s.amount ELSE 0)
  BY <1>3, <1>4, SettlementWritten
<1>6. \A p, states : id \in InStates(p, states) <=> p = settled[id].patron
                                                    /\ settled[id].state \in states
  BY DEF InStates
<1>7. QED BY <1>3, <1>5, <1>6

LEMMA PInitiatePayment ==
  ASSUME LedgerInv, NEW patron \in Patrons, NEW id, NEW asset, NEW amount \in FineAmounts,
         P!InitiatePayment(patron, id, asset, amount)
  PROVE  LedgerInv'
<1>1. PICK s : s = [patron |-> patron, amount |-> amount, state |-> "Pending"]
  OBVIOUS
<1>2. /\ id \notin DOMAIN settled /\ amount > 0
      /\ settled' = [x \in DOMAIN settled \cup {id} |-> IF x = id THEN s ELSE settled[x]]
      /\ UNCHANGED <<balances, entries, refs>>
  BY <1>1 DEF P!InitiatePayment, P!Has, P!Set
<1>3. amount \in Nat
  BY <1>2, PlatformConstants
<1>4. s \in Settlement /\ s.state = "Pending"
  BY <1>1, <1>3 DEF Settlement, States
<1>5. SettledOnce
  BY DEF LedgerInv
<1>6. SettledOnce' /\ \A p, states : TotalIn(p, states)' = TotalIn(p, states)
          - (IF id \in InStates(p, states) THEN s.amount ELSE 0)
          + (IF p = s.patron /\ s.state \in states THEN s.amount ELSE 0)
  BY <1>2, <1>4, <1>5, SettlementWritten
<1>7. ASSUME NEW p
      PROVE  TotalIn(p, Paid)' = TotalIn(p, Paid) /\ TotalIn(p, Undone)' = TotalIn(p, Undone)
  <2>1. id \notin InStates(p, Paid) /\ id \notin InStates(p, Undone)
    BY <1>2 DEF InStates
  <2>2. s.state \notin Paid /\ s.state \notin Undone
    BY <1>4 DEF Paid, Undone
  <2>3. TotalIn(p, Paid) \in Int /\ TotalIn(p, Undone) \in Int
    BY <1>5, TotalSummable
  <2>4. QED BY <1>6, <2>1, <2>2, <2>3
<1>8. QED BY <1>2, <1>6, <1>7, LedgerPending

LEMMA PFailPayment ==
  ASSUME LedgerInv, NEW id \in DOMAIN settled, P!FailPayment(id) PROVE LedgerInv'
<1>1. /\ settled[id].state = "Pending" /\ settled' = [settled EXCEPT ![id].state = "Failed"]
      /\ UNCHANGED <<balances, entries, refs>>
  BY DEF P!FailPayment, P!In
<1>2. SettledOnce /\ "Failed" \in States
  BY DEF LedgerInv, States
<1>3. SettledOnce' /\ \A p, states : TotalIn(p, states)' = TotalIn(p, states)
          - (IF p = settled[id].patron /\ settled[id].state \in states THEN settled[id].amount ELSE 0)
          + (IF p = settled[id].patron /\ "Failed" \in states THEN settled[id].amount ELSE 0)
  BY <1>1, <1>2, SettlementStep
<1>4. ASSUME NEW p
      PROVE  TotalIn(p, Paid)' = TotalIn(p, Paid) /\ TotalIn(p, Undone)' = TotalIn(p, Undone)
  <2>1. {"Failed", "Pending"} \cap Paid = {} /\ {"Failed", "Pending"} \cap Undone = {}
    BY DEF Paid, Undone
  <2>2. TotalIn(p, Paid) \in Int /\ TotalIn(p, Undone) \in Int
    BY <1>2, TotalSummable
  <2>3. QED BY <1>1, <1>3, <2>1, <2>2
<1>5. QED BY <1>1, <1>3, <1>4, LedgerPending

LEMMA PAssessOrWaive ==
  ASSUME LedgerInv, NEW patron \in Patrons, NEW ref \in Refs, NEW amount \in FineAmounts,
         P!Assess(patron, ref, amount) \/ P!Waive(patron, ref, amount)
  PROVE  LedgerInv'
<1>1. amount \in Int /\ amount > 0 /\ ref \notin refs /\ settled' = settled
  BY PlatformConstants DEF P!Assess, P!Waive
<1>2. balances[patron] \in Int /\ balances[patron] >= 0
  BY DEF LedgerInv, PatronExact
<1>3. PICK kind \in {"Assessment", "Waiver"}, delta \in Int :
          P!AppendEntry(patron, ref, kind, delta) /\ balances[patron] + delta >= 0
  <2>1. CASE P!Assess(patron, ref, amount)
    BY <1>1, <1>2, <2>1 DEF P!Assess
  <2>2. CASE P!Waive(patron, ref, amount)
    <3>1. P!AppendEntry(patron, ref, "Waiver", -amount) /\ amount <= balances[patron]
      BY <2>2 DEF P!Waive
    <3>2. -amount \in Int /\ balances[patron] + (-amount) >= 0
      BY <1>1, <1>2, <3>1
    <3>3. QED BY <3>1, <3>2
  <2>3. QED BY <2>1, <2>2
<1>4. kind \in Kinds /\ kind # "Payment" /\ kind \notin {"Refund", "Reversal"}
  BY <1>3 DEF Kinds
<1>5. SettledOnce' /\ \A p, states : TotalIn(p, states)' = TotalIn(p, states)
  BY <1>1, SettlementsSame DEF LedgerInv
<1>6. PICK z \in Int : z = 0
  OBVIOUS
<1>7. \A p \in Patrons : /\ TotalIn(p, Paid)' = TotalIn(p, Paid) + (IF p = patron THEN z ELSE 0)
                         /\ TotalIn(p, Undone)' = TotalIn(p, Undone) + (IF p = patron THEN z ELSE 0)
  <2>1. \A p, states : TotalIn(p, states) \in Int
    BY TotalSummable DEF LedgerInv
  <2>2. QED BY <1>5, <1>6, <2>1
<1>8. /\ z = IF kind = "Payment" THEN -delta ELSE 0
      /\ z = IF kind \in {"Refund", "Reversal"} THEN delta ELSE 0
  BY <1>4, <1>6
<1>9. QED BY <1>1, <1>3, <1>4, <1>5, <1>7, <1>8, LedgerPosted

LEMMA PConfirmPayment ==
  ASSUME LedgerInv, NEW id \in DOMAIN settled, NEW ref \in Refs, P!ConfirmPayment(id, ref)
  PROVE  LedgerInv'
<1>1. PICK patron : patron = settled[id].patron
  OBVIOUS
<1>2. PICK amount : amount = settled[id].amount
  OBVIOUS
<1>3. /\ settled[id].state = "Pending" /\ ref \notin refs /\ amount <= balances[patron]
      /\ P!AppendEntry(patron, ref, "Payment", -amount)
      /\ settled' = [settled EXCEPT ![id].state = "Confirmed"]
  BY <1>1, <1>2 DEF P!ConfirmPayment, P!In, P!Covers
<1>4. patron \in Patrons /\ amount \in Int /\ -amount \in Int
  BY <1>1, <1>2 DEF LedgerInv, SettledOnce, Settlement
<1>5. SettledOnce /\ "Confirmed" \in States /\ "Payment" \in Kinds
  BY DEF LedgerInv, States, Kinds
<1>6. SettledOnce' /\ \A p, states : TotalIn(p, states)' = TotalIn(p, states)
          - (IF p = patron /\ "Pending" \in states THEN amount ELSE 0)
          + (IF p = patron /\ "Confirmed" \in states THEN amount ELSE 0)
  <2>1. SettledOnce' /\ \A p, states : TotalIn(p, states)' = TotalIn(p, states)
            - (IF p = settled[id].patron /\ settled[id].state \in states
               THEN settled[id].amount ELSE 0)
            + (IF p = settled[id].patron /\ "Confirmed" \in states THEN settled[id].amount ELSE 0)
    BY <1>3, <1>5, SettlementStep
  <2>2. QED BY <1>1, <1>2, <2>1, <1>3
<1>7. PICK delta \in Int : delta = -amount
  BY <1>4
<1>8. PICK z \in Int : z = 0
  OBVIOUS
<1>9. \A p \in Patrons : /\ TotalIn(p, Paid)' = TotalIn(p, Paid) + (IF p = patron THEN amount ELSE 0)
                         /\ TotalIn(p, Undone)' = TotalIn(p, Undone) + (IF p = patron THEN z ELSE 0)
  <2>1. "Pending" \notin Paid /\ "Pending" \notin Undone /\ "Confirmed" \in Paid
        /\ "Confirmed" \notin Undone
    BY DEF Paid, Undone
  <2>2. \A p, states : TotalIn(p, states) \in Int
    BY <1>5, TotalSummable
  <2>3. QED BY <1>4, <1>6, <1>8, <2>1, <2>2
<1>10. balances[patron] + delta >= 0
  BY <1>3, <1>4, <1>7 DEF LedgerInv
<1>11. PICK kind \in Kinds : kind = "Payment"
  BY <1>5
<1>12. /\ amount = IF kind = "Payment" THEN -delta ELSE 0
       /\ z = IF kind \in {"Refund", "Reversal"} THEN delta ELSE 0
  BY <1>4, <1>7, <1>8, <1>11
<1>13. P!AppendEntry(patron, ref, kind, delta)
  BY <1>3, <1>7, <1>11
<1>14. QED BY <1>3, <1>4, <1>6, <1>9, <1>10, <1>12, <1>13, LedgerPosted

LEMMA PUndoPayment ==
  ASSUME LedgerInv, NEW id \in DOMAIN settled, NEW ref \in Refs,
         P!RefundPayment(id, ref) \/ P!ReversePayment(id, ref)
  PROVE  LedgerInv'
<1>1. PICK patron : patron = settled[id].patron
  OBVIOUS
<1>2. PICK amount : amount = settled[id].amount
  OBVIOUS
<1>3. PICK kind \in {"Refund", "Reversal"}, state \in Undone : P!UndoPayment(id, ref, kind, state)
  BY Zenon DEF P!RefundPayment, P!ReversePayment, Undone
<1>4. /\ settled[id].state = "Confirmed" /\ ref \notin refs
      /\ P!AppendEntry(patron, ref, kind, amount)
      /\ settled' = [settled EXCEPT ![id].state = state]
  BY <1>1, <1>2, <1>3 DEF P!UndoPayment, P!In
<1>5. patron \in Patrons /\ amount \in Int /\ amount >= 0
  BY <1>1, <1>2 DEF LedgerInv, SettledOnce, Settlement
<1>6. SettledOnce /\ state \in States /\ kind \in Kinds
  BY <1>3 DEF LedgerInv, States, Kinds, Undone
<1>7. SettledOnce' /\ \A p, states : TotalIn(p, states)' = TotalIn(p, states)
          - (IF p = patron /\ "Confirmed" \in states THEN amount ELSE 0)
          + (IF p = patron /\ state \in states THEN amount ELSE 0)
  <2>1. SettledOnce' /\ \A p, states : TotalIn(p, states)' = TotalIn(p, states)
            - (IF p = settled[id].patron /\ settled[id].state \in states
               THEN settled[id].amount ELSE 0)
            + (IF p = settled[id].patron /\ state \in states THEN settled[id].amount ELSE 0)
    BY <1>4, <1>6, SettlementStep
  <2>2. QED BY <1>1, <1>2, <2>1, <1>4
<1>8. PICK z \in Int : z = 0
  OBVIOUS
<1>9. \A p \in Patrons : /\ TotalIn(p, Paid)' = TotalIn(p, Paid) + (IF p = patron THEN z ELSE 0)
                         /\ TotalIn(p, Undone)' = TotalIn(p, Undone) + (IF p = patron THEN amount ELSE 0)
  <2>1. state \in Paid /\ state \in Undone /\ "Confirmed" \in Paid /\ "Confirmed" \notin Undone
    BY <1>3 DEF Paid, Undone
  <2>2. \A p, states : TotalIn(p, states) \in Int
    BY <1>6, TotalSummable
  <2>3. QED BY <1>5, <1>7, <1>8, <2>1, <2>2
<1>10. balances[patron] + amount >= 0
  <2>1. balances[patron] \in Int /\ balances[patron] >= 0
    BY <1>5 DEF LedgerInv, PatronExact
  <2>2. QED BY <1>5, <2>1
<1>11. /\ z = IF kind = "Payment" THEN -amount ELSE 0
       /\ amount = IF kind \in {"Refund", "Reversal"} THEN amount ELSE 0
  BY <1>3, <1>8
<1>12. QED BY <1>4, <1>5, <1>6, <1>7, <1>9, <1>10, <1>11, LedgerPosted

LEMMA LedgerStep == ASSUME LedgerInv, P!LedgerNext PROVE LedgerInv'
<1>1. ASSUME NEW asset, P!AddSupportedAsset(asset) PROVE LedgerInv'
  BY <1>1, LedgerElsewhere DEF P!AddSupportedAsset
<1>2. QED
  BY <1>1, PInitiatePayment, PFailPayment, PAssessOrWaive, PConfirmPayment, PUndoPayment, Zenon
  DEF P!LedgerNext

LEMMA LedgerGood == LedgerInv => P!LedgerExact
<1>1. ASSUME LedgerInv, NEW p \in Patrons
      PROVE  LET in(states) == {id \in DOMAIN settled : settled[id].patron = p
                                                        /\ settled[id].state \in states} IN
             /\ balances[p] >= 0
             /\ balances[p] = P!Posted(p, {"Assessment", "Waiver", "Payment", "Refund", "Reversal"})
             /\ P!Posted(p, {"Payment"}) = -P!Total(in({"Confirmed", "Refunded", "Reversed"}))
             /\ P!Posted(p, {"Refund", "Reversal"}) = P!Total(in({"Refunded", "Reversed"}))
  <2>1. \A kinds : P!Posted(p, kinds) = PostedAs(p, kinds)
    BY AccountSums, Zenon DEF P!Posted, PostedAs, Deltas, OfKind
  <2>2. \A set : P!Total(set) = SumFunctionOnSet(SettledAmounts, set)
    BY AccountSums, Zenon DEF P!Total, SettledAmounts
  <2>3. PatronExact(p)
    BY <1>1 DEF LedgerInv
  <2>4. QED BY <2>1, <2>2, <2>3, Zenon DEF PatronExact, TotalIn, InStates, Kinds, Paid, Undone
<1>2. QED BY <1>1, Zenon DEF P!LedgerExact, LedgerInv, RefsOnce

-----------------------------------------------------------------------------
(* The token and its vesting *)

LEMMA TokenSums == \A f : K!SumFunction(f) = SumFunction(f)
BY DEF K!SumFunction, K!SumFunctionOnSet, K!FoldFunctionOnSet, K!MapThenFoldSet,
     SumFunction, SumFunctionOnSet, FoldFunctionOnSet, MapThenFoldSet

LEMMA StoredOne ==
  ASSUME NEW f, NEW g, NEW k, NEW v \in Int, Summable(f, DOMAIN f), g = Set(f, k, v)
  PROVE  /\ Summable(g, DOMAIN g) /\ SumFunction(f) \in Int
         /\ SumFunction(g) = SumFunction(f) - Get(f, k, 0) + v
BY SetInStore

\* A royalty is a share of the amount in basis points.
SupplyInv ==
    /\ Summable(holdings, DOMAIN holdings)
    /\ SumFunction(holdings) = Supply
    /\ royalty # <<>> => royalty[2] \in Nat

LEMMA SupplyInitial == K!Init => SupplyInv
<1>1. ASSUME K!Init PROVE SupplyInv
  <2>1. PICK s \in Int : s = Supply
    BY PlatformConstants
  <2>2. holdings = Set(Empty, Admin, s) /\ royalty = <<>>
    BY <1>1, <2>1 DEF K!Init, K!Set, K!Empty, Set, Empty
  <2>3. Summable(Empty, DOMAIN Empty) /\ SumFunction(Empty) = 0
    BY EmptyStore
  <2>4. Get(Empty, Admin, 0) = 0
    BY DEF Get, Empty
  <2>5. /\ Summable(holdings, DOMAIN holdings)
        /\ SumFunction(holdings) = SumFunction(Empty) - Get(Empty, Admin, 0) + s
    BY ONLY <2>1, <2>2, <2>3, StoredOne
  <2>6. QED BY <2>1, <2>2, <2>3, <2>4, <2>5 DEF SupplyInv
<1>2. QED BY <1>1

LEMMA SupplyElsewhere == ASSUME SupplyInv, UNCHANGED <<royalty, holdings>> PROVE SupplyInv'
BY DEF SupplyInv

LEMMA RoyaltyType ==
  ASSUME SupplyInv, NEW amount \in Nat PROVE K!RoyaltyOf(amount) \in Nat
<1>1. CASE royalty = <<>>
  BY <1>1 DEF K!RoyaltyOf
<1>2. CASE royalty # <<>>
  <2>1. royalty[2] \in Nat
    BY <1>2 DEF SupplyInv
  <2>2. PICK q \in Nat : q = amount * royalty[2]
    BY <2>1
  <2>3. q \div 10000 \in Nat
    OBVIOUS
  <2>4. QED BY <1>2, <2>2, <2>3 DEF K!RoyaltyOf
<1>3. QED BY <1>1, <1>2

LEMMA KApplyTransfer ==
  ASSUME SupplyInv, NEW from, NEW to, NEW amount \in TokenAmounts,
         K!ApplyTransfer(from, to, amount)
  PROVE  SupplyInv'
<1>1. PICK fee : fee = K!RoyaltyOf(amount)
  OBVIOUS
<1>2. PICK credit : credit = IF royalty # <<>> /\ royalty[1] = to THEN amount ELSE amount - fee
  OBVIOUS
<1>3. PICK a : a = Get(holdings, from, 0) - amount
  OBVIOUS
<1>4. PICK b : b = Get(holdings, to, 0) + credit
  OBVIOUS
<1>5. PICK taken : taken = Set(holdings, from, a)
  OBVIOUS
<1>6. PICK moved : moved = Set(taken, to, b)
  OBVIOUS
<1>7. PICK c : c = Get(moved, royalty[1], 0) + fee
  OBVIOUS
<1>8. /\ amount > 0 /\ from # to /\ royalty' = royalty
      /\ holdings' = IF fee > 0 /\ royalty[1] # to THEN Set(moved, royalty[1], c) ELSE moved
  BY <1>1, <1>2, <1>3, <1>4, <1>5, <1>6, <1>7
  DEF K!ApplyTransfer, K!Balance, K!Credit, K!Set, Set, K!Get, Get
<1>9. amount \in Nat
  BY <1>8, PlatformConstants
<1>10. fee \in Nat
  BY <1>1, <1>9, RoyaltyType
<1>11. credit \in Int
  BY <1>2, <1>9, <1>10
<1>12. Summable(holdings, DOMAIN holdings) /\ SumFunction(holdings) = Supply
  BY DEF SupplyInv
<1>13. Get(holdings, from, 0) \in Int /\ Get(holdings, to, 0) \in Int
  BY <1>12 DEF Get, Summable
<1>14. a \in Int /\ b \in Int
  BY <1>3, <1>4, <1>9, <1>11, <1>13
<1>15. /\ Summable(taken, DOMAIN taken) /\ SumFunction(holdings) \in Int
       /\ SumFunction(taken) = SumFunction(holdings) - Get(holdings, from, 0) + a
  BY <1>5, <1>12, <1>14, StoredOne
<1>16. Get(taken, to, 0) = Get(holdings, to, 0)
  BY <1>5, <1>8 DEF Get, Set
<1>17. /\ Summable(moved, DOMAIN moved)
       /\ SumFunction(moved) = SumFunction(taken) - Get(taken, to, 0) + b
  BY <1>6, <1>14, <1>15, StoredOne
<1>18. SumFunction(moved) = SumFunction(holdings) - amount + credit
  BY ONLY <1>3, <1>4, <1>9, <1>11, <1>13, <1>15, <1>16, <1>17
<1>19. CASE fee > 0 /\ royalty[1] # to
  <2>1. Get(moved, royalty[1], 0) \in Int
    BY <1>17 DEF Get, Summable
  <2>2. c \in Int
    BY <1>7, <1>10, <2>1
  <2>3. /\ Summable(holdings', DOMAIN holdings')
        /\ SumFunction(holdings') = SumFunction(moved) - Get(moved, royalty[1], 0) + c
    <3>1. holdings' = Set(moved, royalty[1], c)
      BY <1>8, <1>19
    <3>2. Summable(moved, DOMAIN moved)
      BY <1>17
    <3>3. QED BY ONLY <2>2, <3>1, <3>2, StoredOne
  <2>4. credit = amount - fee
    BY <1>2, <1>19
  <2>5. SumFunction(holdings') = SumFunction(holdings)
    BY ONLY <1>7, <1>9, <1>10, <1>15, <1>18, <2>1, <2>3, <2>4
  <2>6. QED BY <1>8, <1>12, <2>3, <2>5 DEF SupplyInv
<1>20. CASE ~(fee > 0 /\ royalty[1] # to)
  <2>1. holdings' = moved
    BY <1>8, <1>20
  <2>2. credit = amount
    <3>1. CASE royalty = <<>>
      <4>1. fee = 0
        BY <1>1, <3>1 DEF K!RoyaltyOf
      <4>2. QED BY <1>2, <1>9, <4>1
    <3>2. CASE royalty # <<>> /\ royalty[1] = to
      BY <1>2, <3>2
    <3>3. CASE royalty # <<>> /\ royalty[1] # to
      <4>1. fee = 0
        BY <1>10, <1>20, <3>3
      <4>2. QED BY <1>2, <1>9, <3>3, <4>1
    <3>4. QED BY <3>1, <3>2, <3>3
  <2>3. SumFunction(moved) = SumFunction(holdings)
    BY ONLY <1>9, <1>15, <1>18, <2>2
  <2>4. QED BY <1>8, <1>12, <1>17, <2>1, <2>3 DEF SupplyInv
<1>21. QED BY <1>19, <1>20

LEMMA SupplyStep == ASSUME SupplyInv, K!TokenNext PROVE SupplyInv'
<1>1. ASSUME NEW caller, NEW value, K!SetPaused(caller, value) PROVE SupplyInv'
  BY <1>1, SupplyElsewhere DEF K!SetPaused
<1>2. ASSUME NEW caller, NEW who, K!ProposeAdmin(caller, who) PROVE SupplyInv'
  BY <1>2, SupplyElsewhere DEF K!ProposeAdmin
<1>3. ASSUME NEW who, K!AcceptAdmin(who) PROVE SupplyInv'
  BY <1>3, SupplyElsewhere DEF K!AcceptAdmin
<1>4. ASSUME NEW caller, NEW r \in RoyaltyInputs, K!SetRoyalty(caller, r[1], r[2]) PROVE SupplyInv'
  <2>1. royalty' = <<r[1], r[2]>> /\ holdings' = holdings
    BY <1>4 DEF K!SetRoyalty
  <2>2. r[2] \in Nat
    BY PlatformConstants
  <2>3. QED BY <2>1, <2>2 DEF SupplyInv
<1>5. ASSUME NEW from, NEW to, NEW amount \in TokenAmounts,
             K!Transfer(from, to, amount) \/ \E spender \in Spenders :
                 K!TransferFrom(spender, from, to, amount)
      PROVE  SupplyInv'
  BY <1>5, KApplyTransfer DEF K!Transfer, K!TransferFrom
<1>6. ASSUME NEW owner, NEW spender, NEW amount, NEW ends, K!Approve(owner, spender, amount, ends)
      PROVE  SupplyInv'
  BY <1>6, SupplyElsewhere DEF K!Approve
<1>7. ASSUME NEW owner, NEW spender, K!RevokeAllowance(owner, spender) PROVE SupplyInv'
  BY <1>7, SupplyElsewhere DEF K!RevokeAllowance
<1>8. QED
  BY <1>1, <1>2, <1>3, <1>4, <1>5, <1>6, <1>7, Zenon DEF K!TokenNext, K!Pause, K!Unpause

LEMMA SupplyGood == SupplyInv => K!SupplyConserved
BY TokenSums DEF SupplyInv, K!SupplyConserved

Vesting == [beneficiary : Holders, amount : Nat, start : Nat, cliff : Nat, duration : Nat,
            claimed : BOOLEAN, revoked : BOOLEAN]
PaidFor(id) == Get(vestingPaid, id, 0)
PaidOnce(id) ==
    /\ PaidFor(id) <= vestings[id].amount
    /\ vestings[id].claimed <=> PaidFor(id) > 0
    /\ ~(vestings[id].claimed /\ vestings[id].revoked)

\* Only grants that exist were paid, so that a new one starts with nothing.
VestingInv ==
    /\ Numbered(vestings, Vesting)
    /\ Summable(vestingPaid, DOMAIN vestingPaid)
    /\ \A id \in DOMAIN vestingPaid : id \in DOMAIN vestings /\ vestingPaid[id] \in Nat
    /\ \A id \in DOMAIN vestings : PaidOnce(id)
    /\ vestingTokens \in Int
    /\ vestingTokens + SumFunction(vestingPaid) = VestingFunds

LEMMA VestingInitial == K!Init => VestingInv
<1>1. ASSUME K!Init PROVE VestingInv
  <2>1. vestings = [k \in {} |-> {}] /\ vestingPaid = Empty /\ vestingTokens = VestingFunds
    BY <1>1 DEF K!Init, K!Empty, Empty
  <2>2. DOMAIN vestings = {} /\ DOMAIN vestingPaid = {} /\ VestingFunds \in Int
    BY <2>1, PlatformConstants DEF Empty
  <2>3. QED BY <2>1, <2>2, NumberedInitial, EmptyStore DEF VestingInv
<1>2. QED BY <1>1

LEMMA VestingElsewhere ==
  ASSUME VestingInv, UNCHANGED <<vestings, vestingTokens, vestingPaid>> PROVE VestingInv'
<1>1. ASSUME NEW id PROVE PaidOnce(id)' <=> PaidOnce(id)
  BY DEF PaidOnce, PaidFor, Get
<1>2. QED BY <1>1 DEF VestingInv

LEMMA KGrantVesting ==
  ASSUME VestingInv, NEW caller, NEW who \in Holders, NEW v \in VestingInputs,
         K!GrantVesting(caller, who, v[1], v[2], v[3], v[4])
  PROVE  VestingInv'
<1>1. PICK r : r = [beneficiary |-> who, amount |-> v[1], start |-> v[2], cliff |-> v[3],
                    duration |-> v[4], claimed |-> FALSE, revoked |-> FALSE]
  OBVIOUS
<1>2. PICK k : k = Cardinality(DOMAIN vestings) + 1
  OBVIOUS
<1>3. /\ vestings' = [x \in DOMAIN vestings \cup {k} |-> IF x = k THEN r ELSE vestings[x]]
      /\ UNCHANGED <<vestingTokens, vestingPaid>> /\ v[1] > 0
  BY <1>1, <1>2, Zenon DEF K!GrantVesting, K!Set, K!Cardinality, Cardinality
<1>4. v[1] \in Nat /\ v[2] \in Nat /\ v[3] \in Nat /\ v[4] \in Nat
  BY <1>3, PlatformConstants
<1>5. r \in Vesting /\ r.amount \in Nat /\ ~r.claimed /\ ~r.revoked
  BY <1>1, <1>4 DEF Vesting
<1>6. Numbered(vestings, Vesting)
  BY DEF VestingInv
<1>7. /\ k \notin DOMAIN vestings /\ DOMAIN vestings' = DOMAIN vestings \cup {k}
      /\ vestings'[k] = r /\ \A x \in DOMAIN vestings : vestings'[x] = vestings[x]
      /\ Numbered(vestings', Vesting)
  BY ONLY <1>2, <1>3, <1>5, <1>6, NumberedNext
<1>8. PaidFor(k)' = 0
  BY <1>3, <1>7 DEF VestingInv, PaidFor, Get
<1>9. PaidOnce(k)'
  BY <1>5, <1>7, <1>8 DEF PaidOnce
<1>10. ASSUME NEW id \in DOMAIN vestings PROVE PaidOnce(id)'
  BY <1>3, <1>7 DEF VestingInv, PaidOnce, PaidFor, Get
<1>11. QED BY <1>3, <1>7, <1>9, <1>10 DEF VestingInv

\* What has vested is between nothing and the whole.
LEMMA ShareOfWhole ==
  ASSUME NEW amount \in Nat, NEW part \in Nat, NEW whole \in Nat, whole > 0, part <= whole
  PROVE  (amount * part) \div whole \in 0..amount
<1>1. PICK q \in Nat : q = amount * part
  OBVIOUS
<1>2. q <= amount * whole
  <2>1. amount * part <= amount * whole
    OBVIOUS
  <2>2. QED BY <1>1, <2>1
<1>3. PICK d \in Int : d = q \div whole
  OBVIOUS
<1>4. 0 <= d /\ whole * d <= q
  BY <1>3
<1>5. d <= amount
  <2>1. SUFFICES ASSUME d >= amount + 1 PROVE FALSE
    OBVIOUS
  <2>2. whole * d >= whole * (amount + 1)
    BY <2>1
  <2>3. whole * (amount + 1) = amount * whole + whole
    OBVIOUS
  <2>4. PICK x \in Int, y \in Int : x = whole * d /\ y = amount * whole
    OBVIOUS
  <2>5. QED BY <1>2, <1>4, <2>2, <2>3, <2>4
<1>6. QED BY <1>1, <1>3, <1>4, <1>5

LEMMA VestedWithin ==
  ASSUME NEW v \in Vesting, NEW time \in Nat
  PROVE  K!CalculateVestedAmount(v, time) \in 0..v.amount
<1>1. v.amount \in Nat /\ v.start \in Nat /\ v.cliff \in Nat /\ v.duration \in Nat
  BY DEF Vesting
<1>2. CASE time < v.start + v.cliff
  BY <1>1, <1>2 DEF K!CalculateVestedAmount
<1>3. CASE ~(time < v.start + v.cliff) /\ time >= v.start + v.duration
  BY <1>1, <1>3 DEF K!CalculateVestedAmount
<1>4. CASE ~(time < v.start + v.cliff) /\ ~(time >= v.start + v.duration)
  <2>1. PICK part \in Nat : part = time - (v.start + v.cliff)
    BY <1>1, <1>4
  <2>2. PICK whole \in Nat : whole = v.duration - v.cliff
    BY <1>1, <1>4
  <2>3. whole > 0 /\ part <= whole
    BY <1>1, <1>4, <2>1, <2>2
  <2>4. K!CalculateVestedAmount(v, time) = (v.amount * part) \div whole
    BY <1>4, <2>1, <2>2 DEF K!CalculateVestedAmount
  <2>5. (v.amount * part) \div whole \in 0..v.amount
    BY <1>1, <2>3, ShareOfWhole
  <2>6. QED BY <2>4, <2>5
<1>5. QED BY <1>2, <1>3, <1>4

LEMMA KClaim ==
  ASSUME VestingInv, now \in Nat, NEW id, NEW who, K!Claim(id, who)
  PROVE  VestingInv'
<1>1. PICK vested : vested = K!CalculateVestedAmount(vestings[id], now)
  OBVIOUS
<1>2. PICK v : v = PaidFor(id) + vested
  OBVIOUS
<1>3. /\ id \in DOMAIN vestings /\ ~vestings[id].claimed /\ ~vestings[id].revoked /\ vested # 0
      /\ vestings' = [vestings EXCEPT ![id].claimed = TRUE]
      /\ vestingTokens' = vestingTokens - vested
      /\ vestingPaid' = Set(vestingPaid, id, v)
  BY <1>1, <1>2 DEF K!Claim, K!Has, K!Outstanding, K!Set, Set, K!Get, Get, PaidFor
<1>4. vestings[id] \in Vesting
  BY <1>3, NumberedMember DEF VestingInv
<1>5. vested \in Nat /\ vested > 0 /\ vested <= vestings[id].amount
  <2>1. vested \in 0..vestings[id].amount
    BY <1>1, <1>4, VestedWithin
  <2>2. vestings[id].amount \in Nat
    BY <1>4 DEF Vesting
  <2>3. QED BY <1>3, <2>1, <2>2
<1>6. PaidFor(id) = 0 /\ v = vested
  <2>1. PaidFor(id) \in Nat /\ ~(PaidFor(id) > 0)
    BY <1>3 DEF VestingInv, PaidOnce, PaidFor, Get
  <2>2. QED BY <1>2, <1>5, <2>1
<1>7. Summable(vestingPaid, DOMAIN vestingPaid) /\ v \in Int
  BY <1>5, <1>6 DEF VestingInv
<1>8. /\ Summable(vestingPaid', DOMAIN vestingPaid') /\ SumFunction(vestingPaid) \in Int
      /\ SumFunction(vestingPaid') = SumFunction(vestingPaid) - Get(vestingPaid, id, 0) + v
  <2>1. vestingPaid' = Set(vestingPaid, id, v)
    BY <1>3
  <2>2. QED BY ONLY <1>7, <2>1, StoredOne
<1>9. vestingTokens' \in Int /\ vestingTokens' + SumFunction(vestingPaid') = VestingFunds
  <2>1. vestingTokens \in Int /\ vestingTokens + SumFunction(vestingPaid) = VestingFunds
    BY DEF VestingInv
  <2>2. Get(vestingPaid, id, 0) = 0
    BY <1>6 DEF PaidFor
  <2>3. QED BY <1>3, <1>5, <1>6, <1>8, <2>1, <2>2
<1>10. PICK r : r = [vestings[id] EXCEPT !.claimed = TRUE]
  OBVIOUS
<1>11. r \in Vesting /\ r.claimed /\ r.revoked = vestings[id].revoked /\ r.amount = vestings[id].amount
  BY <1>4, <1>10 DEF Vesting
<1>12. /\ DOMAIN vestings' = DOMAIN vestings /\ vestings'[id] = r
       /\ \A x \in DOMAIN vestings \ {id} : vestings'[x] = vestings[x]
       /\ Numbered(vestings', Vesting)
  <2>1. vestings' = [vestings EXCEPT ![id] = r]
    BY <1>3, <1>10
  <2>2. Numbered(vestings, Vesting)
    BY DEF VestingInv
  <2>3. id \in DOMAIN vestings /\ r \in Vesting
    BY <1>3, <1>11
  <2>4. /\ DOMAIN [vestings EXCEPT ![id] = r] = DOMAIN vestings
        /\ [vestings EXCEPT ![id] = r][id] = r
        /\ \A x \in DOMAIN vestings \ {id} : [vestings EXCEPT ![id] = r][x] = vestings[x]
        /\ Numbered([vestings EXCEPT ![id] = r], Vesting)
    BY ONLY <2>2, <2>3, NumberedUpdate
  <2>5. QED BY ONLY <2>1, <2>4
<1>13. PaidFor(id)' = v /\ \A x : x # id => PaidFor(x)' = PaidFor(x)
  BY <1>3 DEF PaidFor, Get, Set
<1>14. PaidOnce(id)'
  BY <1>3, <1>5, <1>6, <1>11, <1>12, <1>13 DEF PaidOnce
<1>15. ASSUME NEW x \in DOMAIN vestings \ {id} PROVE PaidOnce(x)'
  BY <1>12, <1>13 DEF PaidOnce, VestingInv
<1>16. \A x \in DOMAIN vestingPaid' : x \in DOMAIN vestings' /\ vestingPaid'[x] \in Nat
  <2>1. DOMAIN vestingPaid' = DOMAIN vestingPaid \cup {id} /\ vestingPaid'[id] = v
        /\ \A x \in DOMAIN vestingPaid \ {id} : vestingPaid'[x] = vestingPaid[x]
    BY <1>3 DEF Set
  <2>2. QED BY <1>3, <1>5, <1>6, <1>12, <2>1 DEF VestingInv
<1>17. QED BY <1>8, <1>9, <1>12, <1>14, <1>15, <1>16 DEF VestingInv

LEMMA KRevoke ==
  ASSUME VestingInv, NEW id, NEW caller, NEW delay, K!Revoke(id, caller, delay)
  PROVE  VestingInv'
<1>1. /\ id \in DOMAIN vestings /\ ~vestings[id].claimed
      /\ vestings' = [vestings EXCEPT ![id].revoked = TRUE]
      /\ UNCHANGED <<vestingTokens, vestingPaid>>
  BY DEF K!Revoke, K!Has, K!Outstanding
<1>2. vestings[id] \in Vesting
  BY <1>1, NumberedMember DEF VestingInv
<1>3. PICK r : r = [vestings[id] EXCEPT !.revoked = TRUE]
  OBVIOUS
<1>4. r \in Vesting /\ r.claimed = vestings[id].claimed /\ r.amount = vestings[id].amount
  BY <1>2, <1>3 DEF Vesting
<1>5. /\ DOMAIN vestings' = DOMAIN vestings /\ vestings'[id] = r
      /\ \A x \in DOMAIN vestings \ {id} : vestings'[x] = vestings[x]
      /\ Numbered(vestings', Vesting)
  <2>1. vestings' = [vestings EXCEPT ![id] = r]
    BY <1>1, <1>3
  <2>2. Numbered(vestings, Vesting)
    BY DEF VestingInv
  <2>3. id \in DOMAIN vestings /\ r \in Vesting
    BY <1>1, <1>4
  <2>4. /\ DOMAIN [vestings EXCEPT ![id] = r] = DOMAIN vestings
        /\ [vestings EXCEPT ![id] = r][id] = r
        /\ \A x \in DOMAIN vestings \ {id} : [vestings EXCEPT ![id] = r][x] = vestings[x]
        /\ Numbered([vestings EXCEPT ![id] = r], Vesting)
    BY ONLY <2>2, <2>3, NumberedUpdate
  <2>5. QED BY ONLY <2>1, <2>4
<1>6. \A x : PaidFor(x)' = PaidFor(x)
  BY <1>1 DEF PaidFor, Get
<1>7. ASSUME NEW x \in DOMAIN vestings PROVE PaidOnce(x)'
  BY <1>1, <1>4, <1>5, <1>6 DEF PaidOnce, VestingInv
<1>8. QED BY <1>1, <1>5, <1>7 DEF VestingInv

LEMMA VestingStep == ASSUME VestingInv, now \in Nat, K!VestingNext PROVE VestingInv'
BY KGrantVesting, KClaim, KRevoke, Zenon DEF K!VestingNext

LEMMA VestingGood == VestingInv => K!VestingPaysOnce
<1>1. \A id : K!Get(vestingPaid, id, 0) = PaidFor(id)
  BY DEF K!Get, PaidFor, Get
<1>2. QED BY <1>1, TokenSums, Zenon DEF VestingInv, PaidOnce, K!VestingPaysOnce

-----------------------------------------------------------------------------
(* The scholarship ledger: the totals are the sums of the entries *)

PostKinds == {"Deposit", "Award", "Disbursement"}
Posting == [kind : PostKinds, amount : Int, after : Int, seen : Int]
BookRecord == [version : Int, entries : Seq(Posting), deposits : Int, awards : Int,
               disbursed : Int, current : Int, reserved : Int, available : Int]
PostedAmounts(l) == [i \in DOMAIN l.entries |-> l.entries[i].amount]
PostedOf(l, kind) == {i \in DOMAIN l.entries : l.entries[i].kind = kind}
PostedSum(l, kind) == SumFunctionOnSet(PostedAmounts(l), PostedOf(l, kind))
Totals(l) ==
    /\ l.current = l.deposits - l.disbursed
    /\ l.current = l.reserved + l.available
    /\ l.reserved >= 0
Balanced(l) ==
    /\ l \in BookRecord
    /\ l.deposits = PostedSum(l, "Deposit")
    /\ l.awards = PostedSum(l, "Award")
    /\ l.disbursed = PostedSum(l, "Disbursement")
    /\ Totals(l)
CarriesBalance(l) == l.entries[Len(l.entries)].after = l.current

\* Every program's ledger balances, and its last entry carries the balance.
BooksInv ==
    \A program \in DOMAIN ledgers : Balanced(ledgers[program]) /\ CarriesBalance(ledgers[program])

LEMMA BooksInitial == F!Init => BooksInv
BY DEF F!Init, F!Empty, BooksInv

LEMMA BooksElsewhere == ASSUME BooksInv, UNCHANGED ledgers PROVE BooksInv'
BY DEF BooksInv

\* r is l with its totals moved by an entry of the kind.
Moved(l, r, kind, amount) ==
    /\ r \in BookRecord /\ r.entries = l.entries /\ Totals(r)
    /\ r.deposits = l.deposits + (IF kind = "Deposit" THEN amount ELSE 0)
    /\ r.awards = l.awards + (IF kind = "Award" THEN amount ELSE 0)
    /\ r.disbursed = l.disbursed + (IF kind = "Disbursement" THEN amount ELSE 0)

\* An entry adds its amount to the sum of its kind.
LEMMA EntryAdds ==
  ASSUME NEW l \in BookRecord, NEW n \in BookRecord, NEW e \in Posting, NEW kind,
         n.entries = Append(l.entries, e)
  PROVE  /\ PostedSum(n, kind) = PostedSum(l, kind) + (IF e.kind = kind THEN e.amount ELSE 0)
         /\ PostedSum(l, kind) \in Int
<1>1. PICK last \in Nat : last = Len(l.entries) + 1
  BY DEF BookRecord
<1>2. /\ DOMAIN l.entries = 1..(last - 1) /\ DOMAIN n.entries = 1..last
      /\ n.entries[last] = e /\ \A i \in 1..(last - 1) : n.entries[i] = l.entries[i]
  BY <1>1 DEF BookRecord
<1>3. \A i \in DOMAIN l.entries : l.entries[i].amount \in Int
  <2>1. PICK s : s = l.entries
    OBVIOUS
  <2>2. s \in Seq(Posting)
    BY <2>1 DEF BookRecord
  <2>3. \A i \in DOMAIN s : s[i] \in Posting
    BY <2>2
  <2>4. QED BY <2>1, <2>3 DEF Posting
<1>4. IsFiniteSet(PostedOf(l, kind))
  <2>1. IsFiniteSet(1..(last - 1))
    BY <1>1, FS_Interval
  <2>2. PostedOf(l, kind) \subseteq 1..(last - 1)
    BY <1>2 DEF PostedOf
  <2>3. QED BY ONLY <2>1, <2>2, FS_Subset
<1>5. PICK f : f = PostedAmounts(l)
  OBVIOUS
<1>6. PICK g : g = PostedAmounts(n)
  OBVIOUS
<1>7. PICK set : set = PostedOf(l, kind)
  OBVIOUS
<1>8. PICK R : R = PostedOf(n, kind)
  OBVIOUS
<1>9. e.amount \in Int
  BY DEF Posting
<1>10. last \notin set /\ (last \in R <=> e.kind = kind) /\ R \ {last} = set \ {last}
       /\ (last \in R => g[last] = e.amount)
  BY <1>1, <1>2, <1>6, <1>7, <1>8 DEF PostedOf, PostedAmounts
<1>11. \A x \in set : g[x] = f[x] /\ f[x] \in Int
  BY <1>1, <1>2, <1>3, <1>5, <1>6, <1>7 DEF PostedOf, PostedAmounts
<1>12. OneChange(f, set, g, R, last)
  BY <1>4, <1>7, <1>9, <1>10, <1>11 DEF OneChange, Summable
<1>13. SumFunctionOnSet(g, R) = SumFunctionOnSet(f, set)
           - (IF last \in set THEN f[last] ELSE 0) + (IF last \in R THEN g[last] ELSE 0)
  BY ONLY <1>12, SetSumChange
<1>14. SumFunctionOnSet(f, set) \in Int
  <2>1. IsFiniteSet(set) /\ \A x \in set : f[x] \in Int
    BY <1>4, <1>7, <1>11
  <2>2. QED BY ONLY <2>1, SetSumInt
<1>15. SumFunctionOnSet(g, R) = SumFunctionOnSet(f, set) + (IF e.kind = kind THEN e.amount ELSE 0)
  BY ONLY <1>9, <1>10, <1>13, <1>14
<1>16. QED BY <1>5, <1>6, <1>7, <1>8, <1>14, <1>15 DEF PostedSum

LEMMA PostBalances ==
  ASSUME NEW l, Balanced(l), NEW kind \in PostKinds, NEW amount \in Int, NEW r,
         Moved(l, r, kind, amount), NEW n,
         n = [r EXCEPT !.version = @ + 1,
                       !.entries = Append(@, [kind |-> kind, amount |-> amount,
                                              after |-> r.current, seen |-> r.version])]
  PROVE  Balanced(n) /\ CarriesBalance(n)
<1>1. PICK e : e = [kind |-> kind, amount |-> amount, after |-> r.current, seen |-> r.version]
  OBVIOUS
<1>2. r \in BookRecord /\ l \in BookRecord /\ r.entries = l.entries
  BY DEF Moved, Balanced
<1>3. e \in Posting /\ e.kind = kind /\ e.amount = amount /\ e.after = r.current
  BY <1>1, <1>2 DEF Posting, BookRecord
<1>4. Append(r.entries, e) \in Seq(Posting)
  BY <1>2, <1>3 DEF BookRecord
<1>5. n = [r EXCEPT !.version = r.version + 1, !.entries = Append(r.entries, e)]
  BY <1>1
<1>6. n \in BookRecord /\ n.entries = Append(l.entries, e)
      /\ n.deposits = r.deposits /\ n.awards = r.awards /\ n.disbursed = r.disbursed
      /\ n.current = r.current /\ n.reserved = r.reserved /\ n.available = r.available
  <2>1. n = [version |-> r.version + 1, entries |-> Append(r.entries, e),
             deposits |-> r.deposits, awards |-> r.awards, disbursed |-> r.disbursed,
             current |-> r.current, reserved |-> r.reserved, available |-> r.available]
    BY <1>2, <1>5 DEF BookRecord
  <2>2. r.version \in Int /\ r.deposits \in Int /\ r.awards \in Int /\ r.disbursed \in Int
        /\ r.current \in Int /\ r.reserved \in Int /\ r.available \in Int
    BY <1>2 DEF BookRecord
  <2>3. n \in BookRecord
    BY ONLY <1>4, <2>1, <2>2 DEF BookRecord
  <2>4. QED BY ONLY <1>2, <2>1, <2>3
<1>7. \A k : /\ PostedSum(n, k) = PostedSum(l, k) + (IF kind = k THEN amount ELSE 0)
             /\ PostedSum(l, k) \in Int
  <2>1. n \in BookRecord /\ l \in BookRecord /\ e \in Posting /\ n.entries = Append(l.entries, e)
    BY <1>2, <1>3, <1>6
  <2>2. \A k : /\ PostedSum(n, k) = PostedSum(l, k) + (IF e.kind = k THEN e.amount ELSE 0)
               /\ PostedSum(l, k) \in Int
    BY ONLY <2>1, EntryAdds
  <2>3. QED BY ONLY <1>3, <2>2
<1>8. n.deposits = PostedSum(n, "Deposit") /\ n.awards = PostedSum(n, "Award")
      /\ n.disbursed = PostedSum(n, "Disbursement")
  BY <1>6, <1>7 DEF Moved, Balanced
<1>9. CarriesBalance(n)
  <2>1. n.entries[Len(n.entries)] = e
    BY <1>2, <1>3, <1>6 DEF BookRecord
  <2>2. QED BY <1>3, <1>6, <2>1 DEF CarriesBalance
<1>10. Totals(n)
  BY <1>6 DEF Moved, Totals
<1>11. QED BY <1>6, <1>8, <1>9, <1>10 DEF Balanced

LEMMA LedgerBalanced ==
  ASSUME BooksInv, NEW program PROVE Balanced(F!LedgerOf(program))
<1>1. CASE program \in DOMAIN ledgers
  BY <1>1 DEF BooksInv, F!LedgerOf, F!Get
<1>2. CASE program \notin DOMAIN ledgers
  <2>1. PICK l : l = [version |-> 0, entries |-> <<>>, deposits |-> 0, awards |-> 0,
                      disbursed |-> 0, current |-> 0, reserved |-> 0, available |-> 0]
    OBVIOUS
  <2>2. F!LedgerOf(program) = l
    BY <1>2, <2>1 DEF F!LedgerOf, F!Get, F!NewLedger
  <2>3. l \in BookRecord /\ Totals(l)
    BY <2>1 DEF BookRecord, Totals
  <2>4. \A k : PostedOf(l, k) = {}
    BY <2>1 DEF PostedOf
  <2>5. \A k : PostedSum(l, k) = 0
    BY <2>4, SetSumEmpty DEF PostedSum
  <2>6. QED BY <2>1, <2>2, <2>3, <2>5 DEF Balanced
<1>3. QED BY <1>1, <1>2

LEMMA Posted ==
  ASSUME BooksInv, NEW program, NEW kind \in PostKinds, NEW amount \in Int, NEW r,
         Moved(F!LedgerOf(program), r, kind, amount), F!Post(program, r, kind, amount)
  PROVE  BooksInv'
<1>1. PICK n : n = [r EXCEPT !.version = @ + 1,
                       !.entries = Append(@, [kind |-> kind, amount |-> amount,
                                              after |-> r.current, seen |-> r.version])]
  OBVIOUS
<1>2. Balanced(n) /\ CarriesBalance(n)
  BY <1>1, LedgerBalanced, PostBalances
<1>3. ledgers' = F!Set(ledgers, program, n)
  BY <1>1 DEF F!Post
<1>4. DOMAIN ledgers' = DOMAIN ledgers \cup {program} /\ ledgers'[program] = n
      /\ \A x \in DOMAIN ledgers \ {program} : ledgers'[x] = ledgers[x]
  BY <1>3 DEF F!Set
<1>5. QED BY <1>2, <1>4 DEF BooksInv

LEMMA FRecordDeposit ==
  ASSUME BooksInv, NEW program, NEW expected, NEW amount \in Amounts, NEW round,
         F!RecordDeposit(program, expected, amount, round)
  PROVE  BooksInv'
<1>1. amount \in Int
  BY PlatformConstants
<1>2. PICK l : l = F!LedgerOf(program)
  OBVIOUS
<1>3. PICK r : r = [l EXCEPT !.deposits = @ + amount, !.current = @ + amount,
                             !.available = @ + amount]
  OBVIOUS
<1>4. F!Post(program, r, "Deposit", amount)
  BY <1>2, <1>3 DEF F!RecordDeposit, F!UpdateLedgerOnDeposit
<1>5. Balanced(l)
  BY <1>2, LedgerBalanced
<1>6. Moved(l, r, "Deposit", amount)
  <2>1. l \in BookRecord /\ Totals(l)
    BY <1>5 DEF Balanced
  <2>2. PICK v, d, w, s, c, h, a :
            /\ v = l.version /\ d = l.deposits /\ w = l.awards /\ s = l.disbursed
            /\ c = l.current /\ h = l.reserved /\ a = l.available
    OBVIOUS
  <2>3. /\ v \in Int /\ d \in Int /\ w \in Int /\ s \in Int /\ c \in Int /\ h \in Int /\ a \in Int
        /\ l.entries \in Seq(Posting)
    BY <2>1, <2>2 DEF BookRecord
  <2>4. PICK x, y, z : x = d + amount /\ y = c + amount /\ z = a + amount
    OBVIOUS
  <2>5. r = [version |-> v, entries |-> l.entries, deposits |-> x, awards |-> w,
             disbursed |-> s, current |-> y, reserved |-> h, available |-> z]
    BY <1>3, <2>1, <2>2, <2>4 DEF BookRecord
  <2>6. x \in Int /\ y \in Int /\ z \in Int
    BY ONLY <1>1, <2>3, <2>4
  <2>7. r \in BookRecord
    BY ONLY <2>3, <2>5, <2>6 DEF BookRecord
  <2>8. c = d - s /\ c = h + a /\ h >= 0
    BY <2>1, <2>2 DEF Totals
  <2>9. y = x - s /\ y = h + z /\ h >= 0
    BY ONLY <1>1, <2>3, <2>4, <2>8
  <2>10. Totals(r)
    BY ONLY <2>5, <2>9 DEF Totals
  <2>11. QED BY ONLY <2>2, <2>3, <2>4, <2>5, <2>7, <2>10 DEF Moved
<1>7. "Deposit" \in PostKinds
  BY DEF PostKinds
<1>8. QED BY <1>1, <1>2, <1>4, <1>6, <1>7, Posted

LEMMA FRecordAward ==
  ASSUME BooksInv, NEW program, NEW expected, NEW amount \in Amounts,
         F!RecordAward(program, expected, amount)
  PROVE  BooksInv'
<1>1. amount \in Int /\ amount > 0
  BY PlatformConstants DEF F!RecordAward
<1>2. PICK l : l = F!LedgerOf(program)
  OBVIOUS
<1>3. PICK r : r = [l EXCEPT !.awards = @ + amount, !.reserved = @ + amount,
                             !.available = @ - amount]
  OBVIOUS
<1>4. F!Post(program, r, "Award", amount)
  BY <1>2, <1>3 DEF F!RecordAward, F!Reserve
<1>5. Balanced(l)
  BY <1>2, LedgerBalanced
<1>6. Moved(l, r, "Award", amount)
  <2>1. l \in BookRecord /\ Totals(l)
    BY <1>5 DEF Balanced
  <2>2. PICK v, d, w, s, c, h, a :
            /\ v = l.version /\ d = l.deposits /\ w = l.awards /\ s = l.disbursed
            /\ c = l.current /\ h = l.reserved /\ a = l.available
    OBVIOUS
  <2>3. /\ v \in Int /\ d \in Int /\ w \in Int /\ s \in Int /\ c \in Int /\ h \in Int /\ a \in Int
        /\ l.entries \in Seq(Posting)
    BY <2>1, <2>2 DEF BookRecord
  <2>4. PICK x, y, z : x = w + amount /\ y = h + amount /\ z = a - amount
    OBVIOUS
  <2>5. r = [version |-> v, entries |-> l.entries, deposits |-> d, awards |-> x,
             disbursed |-> s, current |-> c, reserved |-> y, available |-> z]
    BY <1>3, <2>1, <2>2, <2>4 DEF BookRecord
  <2>6. x \in Int /\ y \in Int /\ z \in Int
    BY ONLY <1>1, <2>3, <2>4
  <2>7. r \in BookRecord
    BY ONLY <2>3, <2>5, <2>6 DEF BookRecord
  <2>8. c = d - s /\ c = h + a /\ h >= 0
    BY <2>1, <2>2 DEF Totals
  <2>9. c = d - s /\ c = y + z /\ y >= 0
    BY ONLY <1>1, <2>3, <2>4, <2>8
  <2>10. Totals(r)
    BY ONLY <2>5, <2>9 DEF Totals
  <2>11. QED BY ONLY <2>2, <2>3, <2>4, <2>5, <2>7, <2>10 DEF Moved
<1>7. "Award" \in PostKinds
  BY DEF PostKinds
<1>8. QED BY <1>1, <1>2, <1>4, <1>6, <1>7, Posted

LEMMA FRecordDisbursement ==
  ASSUME BooksInv, NEW program, NEW expected, NEW amount \in Amounts,
         F!RecordDisbursement(program, expected, amount)
  PROVE  BooksInv'
<1>1. amount \in Int
  BY PlatformConstants
<1>2. PICK l : l = F!LedgerOf(program)
  OBVIOUS
<1>3. PICK r : r = [l EXCEPT !.disbursed = @ + amount, !.reserved = @ - amount,
                             !.current = @ - amount]
  OBVIOUS
<1>4. F!Post(program, r, "Disbursement", amount) /\ l.reserved >= amount
  BY <1>2, <1>3 DEF F!RecordDisbursement
<1>5. Balanced(l)
  BY <1>2, LedgerBalanced
<1>6. Moved(l, r, "Disbursement", amount)
  <2>1. l \in BookRecord /\ Totals(l)
    BY <1>5 DEF Balanced
  <2>2. PICK v, d, w, s, c, h, a :
            /\ v = l.version /\ d = l.deposits /\ w = l.awards /\ s = l.disbursed
            /\ c = l.current /\ h = l.reserved /\ a = l.available
    OBVIOUS
  <2>3. /\ v \in Int /\ d \in Int /\ w \in Int /\ s \in Int /\ c \in Int /\ h \in Int /\ a \in Int
        /\ l.entries \in Seq(Posting)
    BY <2>1, <2>2 DEF BookRecord
  <2>4. PICK x, y, z : x = s + amount /\ y = c - amount /\ z = h - amount
    OBVIOUS
  <2>5. r = [version |-> v, entries |-> l.entries, deposits |-> d, awards |-> w,
             disbursed |-> x, current |-> y, reserved |-> z, available |-> a]
    BY <1>3, <2>1, <2>2, <2>4 DEF BookRecord
  <2>6. x \in Int /\ y \in Int /\ z \in Int
    BY ONLY <1>1, <2>3, <2>4
  <2>7. r \in BookRecord
    BY ONLY <2>3, <2>5, <2>6 DEF BookRecord
  <2>8. c = d - s /\ c = h + a /\ h >= 0
    BY <2>1, <2>2 DEF Totals
  <2>9. h >= amount
    BY <1>4, <2>2
  <2>10. y = d - x /\ y = z + a /\ z >= 0
    BY ONLY <1>1, <2>3, <2>4, <2>8, <2>9
  <2>11. Totals(r)
    BY ONLY <2>5, <2>10 DEF Totals
  <2>12. QED BY ONLY <2>2, <2>3, <2>4, <2>5, <2>7, <2>11 DEF Moved
<1>7. "Disbursement" \in PostKinds
  BY DEF PostKinds
<1>8. QED BY <1>1, <1>2, <1>4, <1>6, <1>7, Posted

LEMMA BooksStep == ASSUME BooksInv, F!LedgerNext \/ F!ReturnNext PROVE BooksInv'
<1>1. CASE F!LedgerNext
  <2>1. ASSUME NEW program \in FundPrograms, NEW expected \in 0..MAX_LEDGER_ENTRIES,
               NEW amount \in Amounts,
               \/ \E round \in 0..MaxRounds : F!RecordDeposit(program, expected, amount, round)
               \/ F!RecordAward(program, expected, amount)
               \/ F!RecordDisbursement(program, expected, amount)
        PROVE  BooksInv'
    BY <2>1, FRecordDeposit, FRecordAward, FRecordDisbursement
  <2>2. ASSUME NEW amount \in Amounts, NEW round \in 0..MaxRounds,
               F!RecordUnrestrictedDeposit(amount, round)
        PROVE  BooksInv'
    BY <2>2, BooksElsewhere DEF F!RecordUnrestrictedDeposit
  <2>3. ASSUME NEW start \in RoundTimes, NEW end \in RoundTimes, F!CreateFundingRound(start, end)
        PROVE  BooksInv'
    BY <2>3, BooksElsewhere DEF F!CreateFundingRound
  <2>4. QED BY <1>1, <2>1, <2>2, <2>3, Zenon DEF F!LedgerNext
<1>2. CASE F!ReturnNext
  <2>1. UNCHANGED ledgers
    BY <1>2, Zenon DEF F!ReturnNext, F!ConfigureFees, F!InitiateRefund, F!InitiateRecovery,
       F!CompleteRefund, F!CompleteRecovery, F!CompleteReturn
  <2>2. QED BY <2>1, BooksElsewhere
<1>3. QED BY <1>1, <1>2

LEMMA BooksGood == BooksInv => F!BooksBalance
<1>1. \A l, k : F!Posted(l, k) = PostedSum(l, k)
  BY DEF F!Posted, PostedSum, PostedAmounts, PostedOf, F!SumFunctionOnSet, F!FoldFunctionOnSet,
     F!MapThenFoldSet, SumFunctionOnSet, FoldFunctionOnSet, MapThenFoldSet
<1>2. QED BY <1>1 DEF BooksInv, Balanced, Totals, CarriesBalance, F!BooksBalance

-----------------------------------------------------------------------------
(* Refunds: no more of a fee than its share, and financials that add up *)

FeeSet(paid) == {F!PlatformFee(b, paid) + n :
                     b \in {x \in FeeBases : F!ValidBasis(x)}, n \in NetworkFees}

\* A finite set of integers has a greatest one, which Max chooses.
LEMMA FiniteMax ==
  ASSUME NEW set, IsFiniteSet(set), set \subseteq Int, NEW x \in set
  PROVE  F!Max(set) \in set /\ x <= F!Max(set)
<1> DEFINE Q == {s \in SUBSET set : s # {} => \E m \in s : \A y \in s : m >= y}
<1>1. {} \in Q
  OBVIOUS
<1>2. ASSUME NEW s \in SUBSET set, NEW z \in set \ s, s \in Q PROVE s \cup {z} \in Q
  <2>1. CASE s = {}
    BY <2>1
  <2>2. CASE s # {}
    <3>1. PICK m \in s : \A y \in s : m >= y
      BY <1>2, <2>2
    <3>2. CASE m >= z
      BY <3>1, <3>2
    <3>3. CASE ~(m >= z)
      BY <3>1, <3>3
    <3>4. QED BY <3>2, <3>3
  <2>3. QED BY <2>1, <2>2
<1>3. set \in Q
  <2> HIDE DEF Q
  <2>1. QED BY <1>1, <1>2, SubsetInduction
<1>4. \E m \in set : \A y \in set : m >= y
  BY <1>3
<1>5. F!Max(set) \in set /\ \A y \in set : F!Max(set) >= y
  BY <1>4 DEF F!Max
<1>6. QED BY <1>5

LEMMA FeeType ==
  ASSUME NEW b \in FeeBases, F!ValidBasis(b), NEW paid \in Int
  PROVE  F!PlatformFee(b, paid) \in Int /\ (paid > 0 => F!PlatformFee(b, paid) >= 0)
<1>1. b.bps \in Nat /\ b.fixed \in Int /\ b.cap \in Int
  BY PlatformConstants
<1>2. PICK gross \in Int : gross = paid * b.bps
  BY <1>1
<1>3. paid > 0 => gross >= 0
  BY ONLY <1>1, <1>2, paid \in Int
<1>4. PICK share \in Int : share = gross \div 10000
  BY <1>2
<1>5. paid > 0 => share >= 0
  BY <1>2, <1>3, <1>4
<1>6. CASE b.kind = "Percentage"
  <2>1. F!PlatformFee(b, paid) = share
    BY <1>2, <1>4, <1>6 DEF F!PlatformFee
  <2>2. QED BY <1>4, <1>5, <2>1
<1>7. CASE b.kind = "Fixed"
  <2>1. F!PlatformFee(b, paid) = b.fixed /\ b.fixed >= 0
    BY <1>7 DEF F!PlatformFee, F!ValidBasis
  <2>2. QED BY <1>1, <2>1
<1>8. CASE b.kind = "PercentageWithCap"
  <2>1. F!PlatformFee(b, paid) = (IF share > b.cap THEN b.cap ELSE share) /\ b.cap >= 0
    BY <1>2, <1>4, <1>8 DEF F!PlatformFee, F!ValidBasis
  <2>2. QED BY <1>1, <1>4, <1>5, <2>1
<1>9. QED BY <1>6, <1>7, <1>8 DEF F!ValidBasis

LEMMA FeeAtMost ==
  ASSUME NEW b \in FeeBases, F!ValidBasis(b), NEW n \in NetworkFees, NEW paid \in Int
  PROVE  F!Max(FeeSet(paid)) \in Int /\ F!PlatformFee(b, paid) + n <= F!Max(FeeSet(paid))
<1> DEFINE V == {x \in FeeBases : F!ValidBasis(x)}
<1>1. PICK f : f = [p \in V \X NetworkFees |-> F!PlatformFee(p[1], paid) + p[2]]
  OBVIOUS
<1>2. PICK set : set = FeeSet(paid)
  OBVIOUS
<1>3. \A y \in set : \E x \in V, m \in NetworkFees : y = F!PlatformFee(x, paid) + m
  BY <1>2 DEF FeeSet
<1>4. \A x \in V, m \in NetworkFees : F!PlatformFee(x, paid) + m \in set
  BY <1>2 DEF FeeSet
<1>5. f \in Surjection(V \X NetworkFees, set)
  <2> HIDE DEF V
  <2>1. f \in [V \X NetworkFees -> set]
    BY <1>1, <1>4
  <2>2. ASSUME NEW y \in set PROVE \E p \in V \X NetworkFees : f[p] = y
    <3>1. PICK x \in V, m \in NetworkFees : y = F!PlatformFee(x, paid) + m
      BY <1>3
    <3>2. <<x, m>> \in V \X NetworkFees /\ f[<<x, m>>] = y
      BY <1>1, <3>1
    <3>3. QED BY <3>2
  <2>3. QED BY <2>1, <2>2 DEF Surjection
<1>6. IsFiniteSet(V \X NetworkFees)
  <2>1. V \subseteq FeeBases /\ IsFiniteSet(FeeBases) /\ IsFiniteSet(NetworkFees)
    BY PlatformConstants
  <2> HIDE DEF V
  <2>2. IsFiniteSet(V)
    BY ONLY <2>1, FS_Subset
  <2>3. QED BY ONLY <2>1, <2>2, FS_Product
<1>7. IsFiniteSet(set)
  <2> HIDE DEF V
  <2>1. QED BY ONLY <1>5, <1>6, FS_Surjection
<1>8. set \subseteq Int
  BY <1>3, FeeType, PlatformConstants
<1>9. F!PlatformFee(b, paid) + n \in set
  BY <1>4
<1>10. F!Max(set) \in set /\ F!PlatformFee(b, paid) + n <= F!Max(set)
  BY ONLY <1>7, <1>8, <1>9, FiniteMax
<1>11. QED BY <1>2, <1>8, <1>10

\* The share of a fee that is given back with part of what was paid.
LEMMA FeeShare ==
  ASSUME NEW fee \in Nat, NEW paid \in Nat, NEW amount \in Nat, amount > 0, amount <= paid,
         NEW most \in Int, fee <= most
  PROVE  /\ F!FeeRefunded(fee, paid, amount) \in Int
         /\ F!FeeRefunded(fee, paid, amount) * paid <= amount * most
<1>1. amount * fee <= amount * most
  OBVIOUS
<1>2. CASE amount >= paid
  <2>1. F!FeeRefunded(fee, paid, amount) = fee /\ paid = amount
    BY <1>2 DEF F!FeeRefunded
  <2>2. fee * amount = amount * fee
    OBVIOUS
  <2>3. QED BY <1>1, <2>1, <2>2
<1>3. CASE ~(amount >= paid)
  <2>1. PICK parts \in Nat : parts = amount * 10000
    OBVIOUS
  <2>2. PICK q \in Int : q = parts \div paid
    BY <2>1
  <2>3. 0 <= q /\ paid * q <= parts
    BY <2>1, <2>2
  <2>4. PICK whole \in Int : whole = fee * q
    BY <2>2
  <2>5. PICK back \in Int : back = whole \div 10000
    BY <2>4
  <2>6. 10000 * back <= whole
    BY <2>5
  <2>7. F!FeeRefunded(fee, paid, amount) = back
    BY <1>3, <2>1, <2>2, <2>4, <2>5 DEF F!FeeRefunded
  <2>8. paid * (10000 * back) <= paid * whole
    BY ONLY <2>4, <2>5, <2>6, paid \in Nat
  <2>9. fee * (paid * q) <= fee * parts
    BY ONLY <2>1, <2>2, <2>3, paid \in Nat, fee \in Nat
  <2>10. paid * whole = fee * (paid * q)
    BY ONLY <2>2, <2>4, paid \in Nat, fee \in Nat
  <2>11. fee * parts = 10000 * (amount * fee)
    BY ONLY <2>1, fee \in Nat, amount \in Nat
  <2>12. paid * (10000 * back) = 10000 * (back * paid)
    BY ONLY <2>5, paid \in Nat
  <2>13. PICK a \in Int, c \in Int : a = back * paid /\ c = amount * fee
    BY <2>5
  <2>14. 10000 * a <= 10000 * c
    <3>1. PICK u \in Int, v \in Int, w \in Int : u = paid * (10000 * back) /\ v = paid * whole
                                                  /\ w = fee * parts
      BY <2>1, <2>4, <2>5
    <3>2. u <= v /\ v <= w
      BY ONLY <2>8, <2>9, <2>10, <3>1
    <3>3. u = 10000 * a /\ w = 10000 * c
      BY ONLY <2>11, <2>12, <2>13, <3>1
    <3>4. u <= w
      BY <3>2
    <3>5. QED BY ONLY <3>3, <3>4
  <2>15. a <= c
    BY ONLY <2>13, <2>14
  <2>16. QED BY ONLY <1>1, <2>5, <2>7, <2>13, <2>15, amount \in Nat, most \in Int
<1>4. QED BY <1>2, <1>3

ReturnKinds == {"Refund", "Recovery"}
ReturnRecord == [kind : ReturnKinds, intent : DOMAIN PaidIntents, amount : Int, fee : Int,
                 version : Int, done : BOOLEAN]
FinancialRecord == [refunded : Int, recovered : Int, fees : Int, pendingRefunds : Int,
                    pendingRecoveries : Int, version : Int]
NoFinancials == [refunded |-> 0, recovered |-> 0, fees |-> 0, pendingRefunds |-> 0,
                 pendingRecoveries |-> 0, version |-> 0]
ProgramOf(intent) == PaidIntents[intent].program
PaidWith(intent) == PaidIntents[intent].amount
ReturnAmounts == [id \in DOMAIN returns |-> returns[id].amount]
ReturnsOf(program, kind) ==
    {id \in DOMAIN returns : returns[id].kind = kind /\ ProgramOf(returns[id].intent) = program}
Returned(program, kind) == SumFunctionOnSet(ReturnAmounts, ReturnsOf(program, kind))
AllReturns(program) == ReturnsOf(program, "Refund") \cup ReturnsOf(program, "Recovery")
ShareOfFee(r) == r.fee * PaidWith(r.intent) <= r.amount * F!Max(FeeSet(PaidWith(r.intent)))
FeeInShare(r) == r.kind = "Refund" => ShareOfFee(r)
Financial(program) == Get(financials, program, NoFinancials)
FinancialExact(program) ==
    /\ Financial(program) \in FinancialRecord
    /\ Financial(program).refunded = Returned(program, "Refund")
    /\ Financial(program).recovered = Returned(program, "Recovery")
    /\ Financial(program).version = Cardinality(AllReturns(program))

\* Configured fees are valid, returns are numbered and within their share of the fee, and the
\* financials of a program, zero before the first return, are the sums of its returns.
RefundsInv ==
    /\ \A p \in DOMAIN feeConfigs : /\ feeConfigs[p].basis \in FeeBases
                                    /\ F!ValidBasis(feeConfigs[p].basis)
                                    /\ feeConfigs[p].network \in NetworkFees
                                    /\ feeConfigs[p].network >= 0
    /\ Numbered(returns, ReturnRecord)
    /\ \A id \in DOMAIN returns : FeeInShare(returns[id])
    /\ \A program : FinancialExact(program)

LEMMA RefundsInitial == F!Init => RefundsInv
<1>1. ASSUME F!Init PROVE RefundsInv
  <2>1. /\ feeConfigs = [k \in {} |-> {}] /\ returns = [k \in {} |-> {}]
        /\ financials = [k \in {} |-> {}]
    BY <1>1 DEF F!Init, F!Empty
  <2>2. \A program : Financial(program) = NoFinancials
    BY <2>1 DEF Financial, Get
  <2>3. NoFinancials \in FinancialRecord
    BY DEF NoFinancials, FinancialRecord
  <2>4. \A program, kind : ReturnsOf(program, kind) = {}
    BY <2>1 DEF ReturnsOf
  <2>5. \A program, kind : Returned(program, kind) = 0
    BY <2>4, SetSumEmpty DEF Returned
  <2>6. \A program : AllReturns(program) = {}
    BY <2>4 DEF AllReturns
  <2>7. Cardinality({}) = 0
    BY FS_EmptySet
  <2>8. \A program : FinancialExact(program)
    BY <2>2, <2>3, <2>5, <2>6, <2>7 DEF FinancialExact, NoFinancials
  <2>9. Numbered(returns, ReturnRecord)
    BY <2>1, NumberedInitial
  <2>10. QED BY <2>1, <2>8, <2>9 DEF RefundsInv
<1>2. QED BY <1>1

LEMMA RefundsElsewhere ==
  ASSUME RefundsInv, UNCHANGED <<feeConfigs, returns, financials>> PROVE RefundsInv'
<1>1. \A program : FinancialExact(program)' <=> FinancialExact(program)
  BY DEF FinancialExact, Financial, Returned, ReturnAmounts, ReturnsOf, AllReturns
<1>2. QED BY <1>1 DEF RefundsInv

\* What the sums read of a program's returns is the same after the step.
LEMMA ReturnsKept ==
  ASSUME RefundsInv, NEW program, NEW kind,
         ReturnsOf(program, kind)' = ReturnsOf(program, kind),
         \A id \in ReturnsOf(program, kind) : ReturnAmounts'[id] = ReturnAmounts[id]
  PROVE  Returned(program, kind)' = Returned(program, kind)
<1>1. IsFiniteSet(ReturnsOf(program, kind))
  <2>1. IsFiniteSet(DOMAIN returns)
    BY NumberedFinite DEF RefundsInv
  <2>2. ReturnsOf(program, kind) \subseteq DOMAIN returns
    BY DEF ReturnsOf
  <2>3. QED BY ONLY <2>1, <2>2, FS_Subset
<1>2. PICK f : f = ReturnAmounts
  OBVIOUS
<1>3. PICK g : g = ReturnAmounts'
  OBVIOUS
<1>4. PICK set : set = ReturnsOf(program, kind)
  OBVIOUS
<1>5. SumFunctionOnSet(g, set) = SumFunctionOnSet(f, set)
  <2>1. IsFiniteSet(set) /\ \A x \in set : g[x] = f[x]
    BY <1>1, <1>2, <1>3, <1>4
  <2>2. QED BY ONLY <2>1, SetSumExt
<1>6. QED BY <1>2, <1>3, <1>4, <1>5 DEF Returned

\* The financials f of a program after the return r.
FinancialsMoved(f, g, r) ==
    /\ g \in FinancialRecord
    /\ g.refunded = f.refunded + (IF r.kind = "Refund" THEN r.amount ELSE 0)
    /\ g.recovered = f.recovered + (IF r.kind = "Recovery" THEN r.amount ELSE 0)
    /\ g.version = f.version + 1

LEMMA ReturnAdded ==
  ASSUME RefundsInv, NEW r \in ReturnRecord, FeeInShare(r), NEW k, NEW g, NEW program,
         k = Cardinality(DOMAIN returns) + 1, program = ProgramOf(r.intent),
         returns' = [x \in DOMAIN returns \cup {k} |-> IF x = k THEN r ELSE returns[x]],
         FinancialsMoved(Financial(program), g, r),
         financials' = Set(financials, program, g), UNCHANGED feeConfigs
  PROVE  RefundsInv'
<1>1. Numbered(returns, ReturnRecord)
  BY DEF RefundsInv
<1>2. /\ k \notin DOMAIN returns /\ DOMAIN returns' = DOMAIN returns \cup {k}
      /\ returns'[k] = r /\ \A x \in DOMAIN returns : returns'[x] = returns[x]
      /\ Numbered(returns', ReturnRecord)
  BY ONLY <1>1, r \in ReturnRecord, k = Cardinality(DOMAIN returns) + 1,
     returns' = [x \in DOMAIN returns \cup {k} |-> IF x = k THEN r ELSE returns[x]], NumberedNext
<1>3. IsFiniteSet(DOMAIN returns)
  BY <1>1, NumberedFinite
<1>4. r.amount \in Int /\ r.kind \in ReturnKinds
  BY DEF ReturnRecord
<1>5. \A x \in DOMAIN returns : returns[x] \in ReturnRecord
  BY <1>1, NumberedMember
<1>6. ReturnAmounts'[k] = r.amount
      /\ \A x \in DOMAIN returns : /\ ReturnAmounts'[x] = ReturnAmounts[x]
                                   /\ ReturnAmounts[x] \in Int
  BY <1>2, <1>5 DEF ReturnAmounts, ReturnRecord
<1>7. ASSUME NEW kind
      PROVE  ReturnsOf(program, kind)' = ReturnsOf(program, kind)
                 \cup (IF kind = r.kind THEN {k} ELSE {})
  BY <1>2 DEF ReturnsOf
<1>8. ASSUME NEW kind
      PROVE  Returned(program, kind)' = Returned(program, kind)
                 + (IF kind = r.kind THEN r.amount ELSE 0)
  <2>1. PICK f : f = ReturnAmounts
    OBVIOUS
  <2>2. PICK h : h = ReturnAmounts'
    OBVIOUS
  <2>3. PICK set : set = ReturnsOf(program, kind)
    OBVIOUS
  <2>4. PICK R : R = ReturnsOf(program, kind)'
    OBVIOUS
  <2>5. set \subseteq DOMAIN returns /\ k \notin set
    BY <1>2, <2>3 DEF ReturnsOf
  <2>6. R = set \cup (IF kind = r.kind THEN {k} ELSE {})
    BY <1>7, <2>3, <2>4
  <2>7. IsFiniteSet(set)
    BY ONLY <1>3, <2>5, FS_Subset
  <2>8. R \ {k} = set \ {k} /\ (k \in R <=> kind = r.kind)
    BY ONLY <2>5, <2>6
  <2>9. OneChange(f, set, h, R, k)
    BY <1>4, <1>6, <2>1, <2>2, <2>5, <2>7, <2>8 DEF OneChange, Summable
  <2>10. SumFunctionOnSet(h, R) = SumFunctionOnSet(f, set)
             - (IF k \in set THEN f[k] ELSE 0) + (IF k \in R THEN h[k] ELSE 0)
    BY ONLY <2>9, SetSumChange
  <2>11. SumFunctionOnSet(f, set) \in Int
    <3>1. IsFiniteSet(set) /\ \A x \in set : f[x] \in Int
      BY <2>9 DEF OneChange, Summable
    <3>2. QED BY ONLY <3>1, SetSumInt
  <2>12. h[k] = r.amount
    BY <1>6, <2>2
  <2>13. SumFunctionOnSet(h, R) = SumFunctionOnSet(f, set) + (IF kind = r.kind THEN r.amount ELSE 0)
    BY ONLY <1>4, <2>5, <2>8, <2>10, <2>11, <2>12
  <2>14. QED BY <2>1, <2>2, <2>3, <2>4, <2>13 DEF Returned
<1>9. Cardinality(AllReturns(program)') = Cardinality(AllReturns(program)) + 1
  <2>1. AllReturns(program)' = AllReturns(program) \cup {k}
    BY <1>4, <1>7 DEF AllReturns, ReturnKinds
  <2>2. AllReturns(program) \subseteq DOMAIN returns
    BY DEF AllReturns, ReturnsOf
  <2>3. IsFiniteSet(AllReturns(program))
    BY ONLY <1>3, <2>2, FS_Subset
  <2>4. k \notin AllReturns(program)
    BY <1>2, <2>2
  <2>5. PICK set : set = AllReturns(program)
    OBVIOUS
  <2>6. Cardinality(set \cup {k}) = Cardinality(set) + 1
    <3>1. IsFiniteSet(set) /\ k \notin set
      BY <2>3, <2>4, <2>5
    <3>2. QED BY ONLY <3>1, FS_AddElement
  <2>7. QED BY <2>1, <2>5, <2>6
<1>10. Financial(program)' = g /\ \A p : p # program => Financial(p)' = Financial(p)
  BY DEF Financial, Get, Set
<1>11. FinancialExact(program)'
  <2>1. FinancialExact(program)
    BY DEF RefundsInv
  <2>2. Returned(program, "Refund")' = Returned(program, "Refund")
            + (IF r.kind = "Refund" THEN r.amount ELSE 0)
    BY <1>8
  <2>3. Returned(program, "Recovery")' = Returned(program, "Recovery")
            + (IF r.kind = "Recovery" THEN r.amount ELSE 0)
    BY <1>8
  <2>4. QED BY <1>9, <1>10, <2>1, <2>2, <2>3 DEF FinancialExact, FinancialsMoved
<1>12. ASSUME NEW p, p # program PROVE FinancialExact(p)'
  <2>1. FinancialExact(p)
    BY DEF RefundsInv
  <2>2. \A kind : ReturnsOf(p, kind)' = ReturnsOf(p, kind)
    BY <1>2, <1>12 DEF ReturnsOf
  <2>3. AllReturns(p)' = AllReturns(p)
    BY <2>2 DEF AllReturns
  <2>4. ASSUME NEW kind PROVE Returned(p, kind)' = Returned(p, kind)
    <3>1. \A id \in ReturnsOf(p, kind) : ReturnAmounts'[id] = ReturnAmounts[id]
      BY <1>6 DEF ReturnsOf
    <3>2. QED BY <2>2, <3>1, ReturnsKept
  <2>5. Returned(p, "Refund")' = Returned(p, "Refund")
        /\ Returned(p, "Recovery")' = Returned(p, "Recovery")
    BY <2>4
  <2>6. Financial(p)' = Financial(p)
    BY <1>10, <1>12
  <2>7. QED BY <2>1, <2>3, <2>5, <2>6 DEF FinancialExact
<1>13. \A id \in DOMAIN returns' : FeeInShare(returns'[id])
  BY <1>2 DEF RefundsInv
<1>14. \A p : FinancialExact(p)'
  BY <1>11, <1>12
<1>15. QED BY <1>2, <1>13, <1>14 DEF RefundsInv

LEMMA FInitiateRefund ==
  ASSUME RefundsInv, NEW intent \in DOMAIN PaidIntents, NEW amount \in Amounts,
         F!InitiateRefund(intent, amount)
  PROVE  RefundsInv'
<1>1. PICK program : program = ProgramOf(intent)
  OBVIOUS
<1>2. PICK paid \in Int : paid = PaidWith(intent)
  BY PlatformConstants DEF PaidWith
<1>3. PICK total : total = F!TotalFee(program, paid)
  OBVIOUS
<1>4. PICK fee : fee = F!FeeRefunded(total, paid, amount)
  OBVIOUS
<1>5. PICK k : k = Cardinality(DOMAIN returns) + 1
  OBVIOUS
<1>6. PICK f : f = Financial(program)
  OBVIOUS
<1>7. PICK r : r = [kind |-> "Refund", intent |-> intent, amount |-> amount, fee |-> fee,
                    version |-> 1, done |-> FALSE]
  OBVIOUS
<1>8. PICK g : g = [f EXCEPT !.refunded = @ + amount, !.fees = @ - fee,
                             !.pendingRefunds = @ - amount, !.version = @ + 1]
  OBVIOUS
<1>9. /\ amount > 0 /\ amount <= paid /\ amount \in Int
      /\ program \in DOMAIN feeConfigs /\ UNCHANGED feeConfigs
  BY <1>1, <1>2, PlatformConstants
     DEF F!InitiateRefund, F!CanCalculateFees, F!Has, ProgramOf, PaidWith
<1>10. \A s, x, v : F!Set(s, x, v) = Set(s, x, v)
  BY DEF F!Set, Set
<1>11. F!FinancialsOf(program) = f
  BY <1>6 DEF F!FinancialsOf, F!Get, F!NewFinancials, Financial, Get, NoFinancials
<1>12. F!Cardinality(DOMAIN returns) + 1 = k
  BY <1>5, Zenon DEF F!Cardinality, Cardinality
<1>13. returns' = Set(returns, k, r) /\ financials' = Set(financials, program, g)
  BY <1>1, <1>2, <1>3, <1>4, <1>7, <1>8, <1>10, <1>11, <1>12
     DEF F!InitiateRefund, ProgramOf, PaidWith
<1>14. PICK basis, network : basis = feeConfigs[program].basis /\ network = feeConfigs[program].network
  OBVIOUS
<1>15. /\ basis \in FeeBases /\ F!ValidBasis(basis) /\ network \in NetworkFees /\ network >= 0
  BY <1>9, <1>14 DEF RefundsInv
<1>16. network \in Int
  BY <1>15, PlatformConstants
<1>17. total \in Nat /\ total <= F!Max(FeeSet(paid)) /\ F!Max(FeeSet(paid)) \in Int
  <2>1. total = F!PlatformFee(basis, paid) + network
    BY <1>3, <1>14 DEF F!TotalFee
  <2>2. paid > 0
    BY <1>2, <1>9
  <2>3. F!PlatformFee(basis, paid) \in Int /\ F!PlatformFee(basis, paid) >= 0
    BY <1>2, <1>15, <2>2, FeeType
  <2>4. F!Max(FeeSet(paid)) \in Int /\ F!PlatformFee(basis, paid) + network <= F!Max(FeeSet(paid))
    BY <1>2, <1>15, FeeAtMost
  <2>5. QED BY <1>15, <1>16, <2>1, <2>3, <2>4
<1>18. fee \in Int /\ fee * paid <= amount * F!Max(FeeSet(paid))
  <2>1. paid \in Nat /\ amount \in Nat
    BY <1>2, <1>9
  <2>2. QED BY <1>4, <1>9, <1>17, <2>1, FeeShare
<1>19. r \in ReturnRecord /\ FeeInShare(r) /\ r.intent = intent /\ r.kind = "Refund"
       /\ r.amount = amount
  <2>1. r \in ReturnRecord
    BY <1>7, <1>9, <1>18 DEF ReturnRecord, ReturnKinds
  <2>2. FeeInShare(r)
    BY <1>2, <1>7, <1>18 DEF FeeInShare, ShareOfFee
  <2>3. QED BY <1>7, <2>1, <2>2
<1>20. FinancialsMoved(f, g, r)
  <2>1. f \in FinancialRecord
    BY <1>6 DEF RefundsInv, FinancialExact
  <2>2. g = [refunded |-> f.refunded + amount, recovered |-> f.recovered, fees |-> f.fees - fee,
             pendingRefunds |-> f.pendingRefunds - amount,
             pendingRecoveries |-> f.pendingRecoveries, version |-> f.version + 1]
    BY <1>8, <2>1 DEF FinancialRecord
  <2>3. f.refunded \in Int /\ f.recovered \in Int /\ f.fees \in Int /\ f.pendingRefunds \in Int
        /\ f.pendingRecoveries \in Int /\ f.version \in Int
    BY <2>1 DEF FinancialRecord
  <2>4. g \in FinancialRecord
    BY ONLY <1>9, <1>18, <2>2, <2>3 DEF FinancialRecord
  <2>5. g.recovered = f.recovered + 0
    BY ONLY <2>2, <2>3
  <2>6. QED BY ONLY <1>19, <2>2, <2>4, <2>5 DEF FinancialsMoved
<1>21. program = ProgramOf(r.intent)
  BY <1>1, <1>19
<1>22. returns' = [x \in DOMAIN returns \cup {k} |-> IF x = k THEN r ELSE returns[x]]
  BY <1>13 DEF Set
<1>23. FinancialsMoved(Financial(program), g, r)
  BY <1>6, <1>20
<1>24. QED BY <1>5, <1>9, <1>13, <1>19, <1>21, <1>22, <1>23, ReturnAdded

LEMMA FInitiateRecovery ==
  ASSUME RefundsInv, NEW intent \in DOMAIN PaidIntents, NEW amount \in Amounts,
         F!InitiateRecovery(intent, amount)
  PROVE  RefundsInv'
<1>1. PICK program : program = ProgramOf(intent)
  OBVIOUS
<1>2. PICK k : k = Cardinality(DOMAIN returns) + 1
  OBVIOUS
<1>3. PICK f : f = Financial(program)
  OBVIOUS
<1>4. PICK r : r = [kind |-> "Recovery", intent |-> intent, amount |-> amount, fee |-> 0,
                    version |-> 1, done |-> FALSE]
  OBVIOUS
<1>5. PICK g : g = [f EXCEPT !.recovered = @ + amount, !.pendingRecoveries = @ - amount,
                             !.version = @ + 1]
  OBVIOUS
<1>6. amount \in Int /\ UNCHANGED feeConfigs
  BY PlatformConstants DEF F!InitiateRecovery
<1>7. \A s, x, v : F!Set(s, x, v) = Set(s, x, v)
  BY DEF F!Set, Set
<1>8. F!FinancialsOf(program) = f
  BY <1>3 DEF F!FinancialsOf, F!Get, F!NewFinancials, Financial, Get, NoFinancials
<1>9. F!Cardinality(DOMAIN returns) + 1 = k
  BY <1>2, Zenon DEF F!Cardinality, Cardinality
<1>10. returns' = Set(returns, k, r) /\ financials' = Set(financials, program, g)
  BY <1>1, <1>4, <1>5, <1>7, <1>8, <1>9 DEF F!InitiateRecovery, ProgramOf
<1>11. r \in ReturnRecord /\ FeeInShare(r) /\ r.intent = intent /\ r.kind = "Recovery"
       /\ r.amount = amount
  BY <1>4, <1>6 DEF ReturnRecord, ReturnKinds, FeeInShare
<1>12. FinancialsMoved(f, g, r)
  <2>1. f \in FinancialRecord
    BY <1>3 DEF RefundsInv, FinancialExact
  <2>2. g = [refunded |-> f.refunded, recovered |-> f.recovered + amount, fees |-> f.fees,
             pendingRefunds |-> f.pendingRefunds,
             pendingRecoveries |-> f.pendingRecoveries - amount, version |-> f.version + 1]
    BY <1>5, <2>1 DEF FinancialRecord
  <2>3. f.refunded \in Int /\ f.recovered \in Int /\ f.fees \in Int /\ f.pendingRefunds \in Int
        /\ f.pendingRecoveries \in Int /\ f.version \in Int
    BY <2>1 DEF FinancialRecord
  <2>4. g \in FinancialRecord
    BY ONLY <1>6, <2>2, <2>3 DEF FinancialRecord
  <2>5. g.refunded = f.refunded + 0
    BY ONLY <2>2, <2>3
  <2>6. QED BY ONLY <1>11, <2>2, <2>4, <2>5 DEF FinancialsMoved
<1>13. program = ProgramOf(r.intent)
  BY <1>1, <1>11
<1>14. returns' = [x \in DOMAIN returns \cup {k} |-> IF x = k THEN r ELSE returns[x]]
  BY <1>10 DEF Set
<1>15. FinancialsMoved(Financial(program), g, r)
  BY <1>3, <1>12
<1>16. QED BY <1>2, <1>6, <1>10, <1>11, <1>13, <1>14, <1>15, ReturnAdded

LEMMA FCompleteReturn ==
  ASSUME RefundsInv, NEW kind, NEW id \in DOMAIN returns, NEW expected,
         F!CompleteReturn(kind, id, expected)
  PROVE  RefundsInv'
<1>1. /\ returns' = [returns EXCEPT ![id].version = @ + 1, ![id].done = TRUE]
      /\ UNCHANGED <<feeConfigs, financials>>
  BY DEF F!CompleteReturn
<1>2. Numbered(returns, ReturnRecord)
  BY DEF RefundsInv
<1>3. returns[id] \in ReturnRecord
  BY <1>2, NumberedMember
<1>4. PICK v \in Int : v = returns[id].version + 1
  BY <1>3 DEF ReturnRecord
<1>5. PICK r : r = [[returns[id] EXCEPT !.version = v] EXCEPT !.done = TRUE]
  OBVIOUS
<1>6. r \in ReturnRecord /\ r.kind = returns[id].kind /\ r.intent = returns[id].intent
      /\ r.amount = returns[id].amount /\ r.fee = returns[id].fee
  <2>1. r = [kind |-> returns[id].kind, intent |-> returns[id].intent,
             amount |-> returns[id].amount, fee |-> returns[id].fee, version |-> v, done |-> TRUE]
    BY <1>3, <1>5 DEF ReturnRecord
  <2>2. QED BY <1>3, <1>4, <2>1 DEF ReturnRecord
<1>7. /\ DOMAIN returns' = DOMAIN returns /\ returns'[id] = r
      /\ \A x \in DOMAIN returns \ {id} : returns'[x] = returns[x]
      /\ Numbered(returns', ReturnRecord)
  <2>1. returns' = [returns EXCEPT ![id] = r]
    BY <1>1, <1>3, <1>4, <1>5
  <2>2. id \in DOMAIN returns /\ r \in ReturnRecord
    BY <1>6
  <2>3. /\ DOMAIN [returns EXCEPT ![id] = r] = DOMAIN returns
        /\ [returns EXCEPT ![id] = r][id] = r
        /\ \A x \in DOMAIN returns \ {id} : [returns EXCEPT ![id] = r][x] = returns[x]
        /\ Numbered([returns EXCEPT ![id] = r], ReturnRecord)
    BY ONLY <1>2, <2>2, NumberedUpdate
  <2>4. QED BY ONLY <2>1, <2>3
<1>8. \A x \in DOMAIN returns : /\ returns'[x].kind = returns[x].kind
                                /\ returns'[x].intent = returns[x].intent
                                /\ returns'[x].amount = returns[x].amount
                                /\ returns'[x].fee = returns[x].fee
  BY <1>6, <1>7
<1>9. \A p, q : ReturnsOf(p, q)' = ReturnsOf(p, q)
  BY <1>7, <1>8 DEF ReturnsOf
<1>10. \A x \in DOMAIN returns : ReturnAmounts'[x] = ReturnAmounts[x]
  BY <1>7, <1>8 DEF ReturnAmounts
<1>11. ASSUME NEW p, NEW q PROVE Returned(p, q)' = Returned(p, q)
  <2>1. \A x \in ReturnsOf(p, q) : ReturnAmounts'[x] = ReturnAmounts[x]
    BY <1>10 DEF ReturnsOf
  <2>2. QED BY <1>9, <2>1, ReturnsKept
<1>12. ASSUME NEW p PROVE FinancialExact(p)'
  <2>1. FinancialExact(p)
    BY DEF RefundsInv
  <2>2. Financial(p)' = Financial(p)
    BY <1>1 DEF Financial
  <2>3. AllReturns(p)' = AllReturns(p)
    BY <1>9 DEF AllReturns
  <2>4. Returned(p, "Refund")' = Returned(p, "Refund")
        /\ Returned(p, "Recovery")' = Returned(p, "Recovery")
    BY <1>11
  <2>5. QED BY <2>1, <2>2, <2>3, <2>4 DEF FinancialExact
<1>13. \A x \in DOMAIN returns' : FeeInShare(returns'[x])
  BY <1>7, <1>8 DEF RefundsInv, FeeInShare, ShareOfFee
<1>14. QED BY <1>1, <1>7, <1>12, <1>13 DEF RefundsInv

LEMMA FConfigureFees ==
  ASSUME RefundsInv, NEW program, NEW expected, NEW basis \in FeeBases,
         NEW network \in NetworkFees, F!ConfigureFees(program, expected, basis, network)
  PROVE  RefundsInv'
<1>1. PICK c : c = [basis |-> basis, network |-> network, version |-> expected + 1]
  OBVIOUS
<1>2. /\ feeConfigs' = Set(feeConfigs, program, c) /\ F!ValidBasis(basis) /\ network >= 0
      /\ UNCHANGED <<returns, financials>>
  BY <1>1 DEF F!ConfigureFees, F!Set, Set
<1>3. \A p : FinancialExact(p)' <=> FinancialExact(p)
  BY <1>2 DEF FinancialExact, Financial, Returned, ReturnAmounts, ReturnsOf, AllReturns
<1>4. DOMAIN feeConfigs' = DOMAIN feeConfigs \cup {program} /\ feeConfigs'[program] = c
      /\ \A x \in DOMAIN feeConfigs \ {program} : feeConfigs'[x] = feeConfigs[x]
  BY <1>2 DEF Set
<1>5. c.basis = basis /\ c.network = network
  BY <1>1
<1>6. QED BY <1>2, <1>3, <1>4, <1>5 DEF RefundsInv

LEMMA RefundsStep == ASSUME RefundsInv, F!LedgerNext \/ F!ReturnNext PROVE RefundsInv'
<1>1. CASE F!LedgerNext
  <2>1. UNCHANGED <<feeConfigs, returns, financials>>
    BY <1>1 DEF F!LedgerNext, F!RecordDeposit, F!RecordAward, F!RecordDisbursement,
       F!RecordUnrestrictedDeposit, F!CreateFundingRound
  <2>2. QED BY <2>1, RefundsElsewhere
<1>2. CASE F!ReturnNext
  <2>1. ASSUME NEW id \in DOMAIN returns, NEW expected \in 1..2,
               F!CompleteRefund(id, expected) \/ F!CompleteRecovery(id, expected)
        PROVE  RefundsInv'
    BY <2>1, FCompleteReturn DEF F!CompleteRefund, F!CompleteRecovery
  <2>2. QED BY <1>2, <2>1, FConfigureFees, FInitiateRefund, FInitiateRecovery, Zenon DEF F!ReturnNext
<1>3. QED BY <1>1, <1>2

LEMMA RefundsGood == RefundsInv => F!RefundsAddUp
<1> SUFFICES ASSUME RefundsInv PROVE F!RefundsAddUp
  OBVIOUS
<1>1. \A f, set : F!SumFunctionOnSet(f, set) = SumFunctionOnSet(f, set)
  BY DEF F!SumFunctionOnSet, F!FoldFunctionOnSet, F!MapThenFoldSet,
     SumFunctionOnSet, FoldFunctionOnSet, MapThenFoldSet
<1>2. \A U : F!Cardinality(U) = Cardinality(U)
  BY Zenon DEF F!Cardinality, Cardinality
<1>3. ASSUME NEW id \in DOMAIN returns
      PROVE  returns[id].kind = "Refund" =>
                 returns[id].fee * PaidIntents[returns[id].intent].amount
                     <= returns[id].amount * F!HighestFee(PaidIntents[returns[id].intent].amount)
  BY DEF RefundsInv, FeeInShare, ShareOfFee, FeeSet, PaidWith, F!HighestFee
<1>4. ASSUME NEW program \in DOMAIN financials
      PROVE  /\ financials[program].refunded = Returned(program, "Refund")
             /\ financials[program].recovered = Returned(program, "Recovery")
             /\ financials[program].version = Cardinality(AllReturns(program))
  BY DEF RefundsInv, FinancialExact, Financial, Get
<1>5. ASSUME NEW program, NEW kind
      PROVE  Returned(program, kind)
                 = F!SumFunctionOnSet([id \in DOMAIN returns |-> returns[id].amount],
                       {id \in DOMAIN returns : /\ returns[id].kind = kind
                                                /\ PaidIntents[returns[id].intent].program = program})
  BY <1>1, Zenon DEF Returned, ReturnAmounts, ReturnsOf, ProgramOf
<1>6. ASSUME NEW program
      PROVE  Cardinality(AllReturns(program))
                 = F!Cardinality({id \in DOMAIN returns :
                                      /\ returns[id].kind = "Refund"
                                      /\ PaidIntents[returns[id].intent].program = program}
                                 \cup {id \in DOMAIN returns :
                                      /\ returns[id].kind = "Recovery"
                                      /\ PaidIntents[returns[id].intent].program = program})
  BY <1>2, Zenon DEF AllReturns, ReturnsOf, ProgramOf
<1>7. \A program \in DOMAIN financials :
          /\ financials[program].refunded
                 = F!SumFunctionOnSet([id \in DOMAIN returns |-> returns[id].amount],
                       {id \in DOMAIN returns :
                            /\ returns[id].kind = "Refund"
                            /\ PaidIntents[returns[id].intent].program = program})
          /\ financials[program].recovered
                 = F!SumFunctionOnSet([id \in DOMAIN returns |-> returns[id].amount],
                       {id \in DOMAIN returns :
                            /\ returns[id].kind = "Recovery"
                            /\ PaidIntents[returns[id].intent].program = program})
          /\ financials[program].version
                 = F!Cardinality({id \in DOMAIN returns :
                                      /\ returns[id].kind = "Refund"
                                      /\ PaidIntents[returns[id].intent].program = program}
                                 \cup {id \in DOMAIN returns :
                                      /\ returns[id].kind = "Recovery"
                                      /\ PaidIntents[returns[id].intent].program = program})
  BY ONLY <1>4, <1>5, <1>6
<1>8. QED BY ONLY <1>3, <1>7 DEF F!RefundsAddUp

-----------------------------------------------------------------------------
(* Reviews: scores fit the rubric they are scored under, and the ranking is one *)

\* A sum of parts of the weights, c of each at most.
LEMMA SetSumWeighted ==
  ASSUME NEW f, NEW w, NEW set, NEW c \in Nat, IsFiniteSet(set),
         \A x \in set : f[x] \in Nat /\ w[x] \in Nat /\ f[x] <= c * w[x]
  PROVE  /\ SumFunctionOnSet(f, set) \in Nat /\ SumFunctionOnSet(w, set) \in Nat
         /\ SumFunctionOnSet(f, set) <= c * SumFunctionOnSet(w, set)
<1> DEFINE Within(s) == /\ SumFunctionOnSet(f, s) \in Nat /\ SumFunctionOnSet(w, s) \in Nat
                        /\ SumFunctionOnSet(f, s) <= c * SumFunctionOnSet(w, s)
           Q == {s \in SUBSET set : Within(s)}
<1>1. {} \in Q
  <2>1. SumFunctionOnSet(f, {}) = 0 /\ SumFunctionOnSet(w, {}) = 0
    BY SetSumEmpty
  <2>2. QED BY <2>1
<1>2. ASSUME NEW s \in SUBSET set, NEW x \in set \ s, s \in Q PROVE s \cup {x} \in Q
  <2>1. (s \cup {x}) \ {x} = s /\ x \in s \cup {x} /\ IsFiniteSet(s \cup {x})
    BY FS_Subset
  <2>2. \A y \in s \cup {x} : f[y] \in Int /\ w[y] \in Int
    OBVIOUS
  <2>3. SumFunctionOnSet(f, s \cup {x}) = f[x] + SumFunctionOnSet(f, s)
    BY <2>1, <2>2, SetSumSplit
  <2>4. SumFunctionOnSet(w, s \cup {x}) = w[x] + SumFunctionOnSet(w, s)
    BY <2>1, <2>2, SetSumSplit
  <2>5. PICK a \in Nat, b \in Nat : a = SumFunctionOnSet(f, s) /\ b = SumFunctionOnSet(w, s) /\ a <= c * b
    BY <1>2
  <2>6. PICK u \in Nat, v \in Nat : u = f[x] /\ v = w[x] /\ u <= c * v
    OBVIOUS
  <2>7. u + a <= c * (v + b)
    <3>1. c * (v + b) = c * v + c * b
      BY ONLY c \in Nat, <2>5, <2>6
    <3>2. PICK d \in Nat, e \in Nat : d = c * v /\ e = c * b
      BY ONLY c \in Nat, <2>5, <2>6
    <3>3. QED BY ONLY <2>5, <2>6, <3>1, <3>2
  <2>8. Within(s \cup {x})
    BY ONLY <2>3, <2>4, <2>5, <2>6, <2>7
  <2>9. QED BY <2>8
<1>3. set \in Q
  <2> HIDE DEF Q
  <2>1. QED BY <1>1, <1>2, SubsetInduction
<1>4. QED BY <1>3

LEMMA SetSumBounded ==
  ASSUME NEW f, NEW set, NEW c \in Nat, IsFiniteSet(set), \A x \in set : f[x] \in Nat /\ f[x] <= c
  PROVE  SumFunctionOnSet(f, set) \in Nat /\ SumFunctionOnSet(f, set) <= c * Cardinality(set)
<1> DEFINE Q == {s \in SUBSET set : /\ SumFunctionOnSet(f, s) \in Nat
                                  /\ SumFunctionOnSet(f, s) <= c * Cardinality(s)}
<1>1. {} \in Q
  <2>1. SumFunctionOnSet(f, {}) = 0 /\ Cardinality({}) = 0
    BY SetSumEmpty, FS_EmptySet
  <2>2. QED BY <2>1
<1>2. ASSUME NEW s \in SUBSET set, NEW x \in set \ s, s \in Q PROVE s \cup {x} \in Q
  <2>1. (s \cup {x}) \ {x} = s /\ x \in s \cup {x} /\ IsFiniteSet(s \cup {x}) /\ IsFiniteSet(s)
    BY FS_Subset
  <2>2. \A y \in s \cup {x} : f[y] \in Int
    OBVIOUS
  <2>3. SumFunctionOnSet(f, s \cup {x}) = f[x] + SumFunctionOnSet(f, s)
    BY <2>1, <2>2, SetSumSplit
  <2>4. Cardinality(s \cup {x}) = Cardinality(s) + 1 /\ Cardinality(s) \in Nat
    BY <2>1, FS_AddElement, FS_CardinalityType
  <2>5. PICK a \in Nat, b \in Nat : a = SumFunctionOnSet(f, s) /\ b = Cardinality(s) /\ a <= c * b
    BY <1>2, <2>4
  <2>6. PICK u \in Nat : u = f[x] /\ u <= c
    OBVIOUS
  <2>7. u + a <= c * (b + 1)
    <3>1. c * (b + 1) = c * b + c
      BY ONLY c \in Nat, <2>5
    <3>2. PICK d \in Nat : d = c * b
      BY ONLY c \in Nat, <2>5
    <3>3. QED BY ONLY <2>5, <2>6, <3>1, <3>2, c \in Nat
  <2>8. SumFunctionOnSet(f, s \cup {x}) \in Nat
        /\ SumFunctionOnSet(f, s \cup {x}) <= c * Cardinality(s \cup {x})
    BY ONLY <2>3, <2>4, <2>5, <2>6, <2>7
  <2>9. QED BY <2>8
<1>3. set \in Q
  <2> HIDE DEF Q
  <2>1. QED BY <1>1, <1>2, SubsetInduction
<1>4. QED BY <1>3

LEMMA DivWithin ==
  ASSUME NEW q \in Nat, NEW n \in Nat, n > 0, NEW c \in Nat, q <= c * n
  PROVE  q \div n \in 0..c
<1>1. PICK d \in Int : d = q \div n
  OBVIOUS
<1>2. 0 <= d /\ n * d <= q
  BY <1>1
<1>3. d <= c
  <2>1. SUFFICES ASSUME d >= c + 1 PROVE FALSE
    OBVIOUS
  <2>2. n * d >= n * (c + 1)
    BY <2>1
  <2>3. n * (c + 1) = c * n + n
    OBVIOUS
  <2>4. PICK x \in Int, y \in Int : x = n * d /\ y = c * n
    OBVIOUS
  <2>5. QED BY <1>2, <2>2, <2>3, <2>4
<1>4. QED BY <1>1, <1>2, <1>3

LEMMA FiniteMin ==
  ASSUME NEW set, IsFiniteSet(set), set \subseteq Int, set # {}
  PROVE  S!Min(set) \in set
<1> DEFINE Q == {s \in SUBSET set : s # {} => \E m \in s : \A y \in s : m <= y}
<1>1. {} \in Q
  OBVIOUS
<1>2. ASSUME NEW s \in SUBSET set, NEW z \in set \ s, s \in Q PROVE s \cup {z} \in Q
  <2>1. CASE s = {}
    BY <2>1
  <2>2. CASE s # {}
    <3>1. PICK m \in s : \A y \in s : m <= y
      BY <1>2, <2>2
    <3>2. CASE m <= z
      BY <3>1, <3>2
    <3>3. CASE ~(m <= z)
      BY <3>1, <3>3
    <3>4. QED BY <3>2, <3>3
  <2>3. QED BY <2>1, <2>2
<1>3. set \in Q
  <2> HIDE DEF Q
  <2>1. QED BY <1>1, <1>2, SubsetInduction
<1>4. \E m \in set : \A y \in set : m <= y
  BY <1>3
<1>5. QED BY <1>4 DEF S!Min

LEMMA ScreeningSums == \A f : S!SumFunction(f) = SumFunctionOnSet(f, DOMAIN f)
BY DEF S!SumFunction, S!SumFunctionOnSet, S!FoldFunctionOnSet, S!MapThenFoldSet,
   SumFunctionOnSet, FoldFunctionOnSet, MapThenFoldSet

GoodRubrics == {c \in Rubrics : S!ValidateRubric(c)}

\* A weighted score stays within the whole.
LEMMA WeightedWithin ==
  ASSUME NEW criteria \in GoodRubrics, NEW scores \in ScoreSheets, S!ValidScores(criteria, scores)
  PROVE  S!WeightedTotal(criteria, scores) \in 0..BPS_DENOMINATOR
<1>1. /\ criteria \in Seq([weight_bps : Nat, max_score : Nat]) /\ scores \in Seq(Nat)
      /\ BPS_DENOMINATOR \in Nat /\ BPS_DENOMINATOR > 0 /\ MAX_CRITERION_SCORE \in Nat
  BY PlatformConstants DEF GoodRubrics
<1>2. PICK n \in Nat : n = Len(criteria) /\ Len(scores) = n
  BY <1>1 DEF S!ValidScores
<1>3. DOMAIN criteria = 1..n /\ DOMAIN scores = 1..n /\ IsFiniteSet(1..n)
  BY <1>1, <1>2, FS_Interval
<1>4. PICK w : w = [i \in DOMAIN criteria |-> criteria[i].weight_bps]
  OBVIOUS
<1>5. PICK f : f = [i \in DOMAIN criteria |->
                        ((scores[i] * BPS_DENOMINATOR) \div criteria[i].max_score)
                            * criteria[i].weight_bps]
  OBVIOUS
<1>6. SumFunctionOnSet(w, 1..n) = BPS_DENOMINATOR
  BY <1>3, <1>4, ScreeningSums DEF GoodRubrics, S!ValidateRubric
<1>7. ASSUME NEW i \in 1..n
      PROVE  f[i] \in Nat /\ w[i] \in Nat /\ f[i] <= BPS_DENOMINATOR * w[i]
  <2>1. /\ scores[i] \in Nat /\ criteria[i].weight_bps \in Nat /\ criteria[i].max_score \in Nat
    <3>1. PICK R : R = [weight_bps : Nat, max_score : Nat]
      OBVIOUS
    <3>2. criteria \in Seq(R) /\ scores \in Seq(Nat)
      BY <1>1, <3>1
    <3>3. criteria[i] \in R /\ scores[i] \in Nat
      BY ONLY <1>3, <3>2, i \in 1..n
    <3>4. QED BY <3>1, <3>3
  <2>2. scores[i] <= criteria[i].max_score /\ criteria[i].max_score > 0
    <3>1. \A k \in DOMAIN criteria : scores[k] <= criteria[k].max_score
      BY DEF S!ValidScores
    <3>2. \A k \in DOMAIN criteria : criteria[k].max_score \in 1..MAX_CRITERION_SCORE
      BY DEF GoodRubrics, S!ValidateRubric
    <3>3. i \in DOMAIN criteria
      BY <1>3
    <3>4. PICK whole \in Nat : whole = criteria[i].max_score
      BY <2>1
    <3>5. whole \in 1..MAX_CRITERION_SCORE /\ scores[i] <= whole
      BY <3>1, <3>2, <3>3, <3>4
    <3>6. PICK bound \in Nat : bound = MAX_CRITERION_SCORE
      BY <1>1
    <3>7. whole \in 1..bound
      BY <3>5, <3>6
    <3>8. whole > 0
      BY ONLY <3>6, <3>7
    <3>9. QED BY <3>4, <3>5, <3>8
  <2>3. PICK b \in Nat, part \in Nat, whole \in Nat, weight \in Nat :
            /\ b = BPS_DENOMINATOR /\ part = scores[i] /\ whole = criteria[i].max_score
            /\ weight = criteria[i].weight_bps
    BY <1>1, <2>1
  <2>4. (b * part) \div whole \in 0..b
    BY ONLY <2>2, <2>3, ShareOfWhole
  <2>5. b * part = part * b
    OBVIOUS
  <2>6. PICK d \in 0..b : d = (part * b) \div whole
    BY <2>4, <2>5
  <2>7. f[i] = d * weight /\ w[i] = weight
    BY <1>3, <1>4, <1>5, <2>3, <2>6
  <2>8. d * weight \in Nat /\ d * weight <= b * weight
    BY ONLY <2>3, <2>6
  <2>9. QED BY <2>3, <2>7, <2>8
<1>8. /\ SumFunctionOnSet(f, 1..n) \in Nat
      /\ SumFunctionOnSet(f, 1..n) <= BPS_DENOMINATOR * BPS_DENOMINATOR
  BY <1>1, <1>3, <1>6, <1>7, SetSumWeighted
<1>9. SumFunctionOnSet(f, 1..n) \div BPS_DENOMINATOR \in 0..BPS_DENOMINATOR
  BY ONLY <1>1, <1>8, DivWithin
<1>10. S!WeightedTotal(criteria, scores) = S!SumFunction(f) \div BPS_DENOMINATOR
  BY <1>5, Zenon DEF S!WeightedTotal
<1>11. DOMAIN f = 1..n
  BY <1>3, <1>5
<1>12. QED BY <1>9, <1>10, <1>11, ScreeningSums

For(p, a) == Get(reviewersOf, <<p, a>>, <<>>)
RubricList(p) == Get(rubrics, p, <<>>)
ReviewOf(p, a, i) == reviewsOf[<<p, a, For(p, a)[i]>>]
\* A review was made under a rubric of its program, and fits it.
Fits(p, review) ==
    /\ review.rubric_version \in DOMAIN RubricList(p)
    /\ review.scores \in ScoreSheets
    /\ S!ValidScores(RubricList(p)[review.rubric_version], review.scores)
    /\ review.submitted_at \in Int

\* Rubrics were validated, every listed reviewer has a review, and reviews fit their rubrics.
ReviewsInv ==
    /\ \A p \in DOMAIN configs : configs[p].min_reviews \in Nat /\ configs[p].min_reviews > 0
    /\ \A p : RubricList(p) \in Seq(GoodRubrics)
    /\ \A p, a : /\ For(p, a) \in Seq(Reviewers)
                 /\ \A i \in DOMAIN For(p, a) : <<p, a, For(p, a)[i]>> \in DOMAIN reviewsOf
    /\ \A p, a, r : <<p, a, r>> \in DOMAIN reviewsOf => Fits(p, reviewsOf[<<p, a, r>>])

LEMMA ReviewsInitial == S!Init => ReviewsInv
<1>1. ASSUME S!Init PROVE ReviewsInv
  <2>1. /\ DOMAIN configs = {} /\ DOMAIN rubrics = {} /\ DOMAIN reviewsOf = {}
        /\ DOMAIN reviewersOf = {}
    BY <1>1 DEF S!Init, S!Empty
  <2>2. \A p, a : For(p, a) = <<>> /\ RubricList(p) = <<>>
    BY <2>1 DEF For, RubricList, Get
  <2>3. <<>> \in Seq(GoodRubrics) /\ <<>> \in Seq(Reviewers) /\ DOMAIN <<>> = {}
    OBVIOUS
  <2>4. \A p, a : For(p, a) \in Seq(Reviewers) /\ DOMAIN For(p, a) = {}
    BY <2>2, <2>3
  <2>5. \A p : RubricList(p) \in Seq(GoodRubrics)
    BY <2>2, <2>3
  <2>6. QED BY <2>1, <2>4, <2>5 DEF ReviewsInv
<1>2. QED BY <1>1

LEMMA ReviewsElsewhere == ASSUME ReviewsInv, UNCHANGED reviewVars PROVE ReviewsInv'
BY DEF ReviewsInv, reviewVars, For, RubricList, Fits

LEMMA SRegisterProgram ==
  ASSUME ReviewsInv, NEW p, NEW lim \in ReviewLimits, S!RegisterProgram(p, lim[1], lim[2])
  PROVE  ReviewsInv'
<1>1. PICK c : c = [version |-> 1, active |-> TRUE, min_reviews |-> lim[1], max_reviews |-> lim[2]]
  OBVIOUS
<1>2. configs' = Set(configs, p, c) /\ lim[1] > 0 /\ UNCHANGED <<rubrics, reviewsOf, reviewersOf>>
  BY <1>1 DEF S!RegisterProgram, S!Set, Set
<1>3. DOMAIN configs' = DOMAIN configs \cup {p} /\ configs'[p] = c
      /\ \A x \in DOMAIN configs \ {p} : configs'[x] = configs[x]
  BY <1>2 DEF Set
<1>4. c.min_reviews \in Nat /\ c.min_reviews > 0
  BY <1>1, <1>2, PlatformConstants
<1>5. QED BY <1>2, <1>3, <1>4 DEF ReviewsInv, For, RubricList, Fits

LEMMA SSetProgramActive ==
  ASSUME ReviewsInv, NEW p, NEW active, S!SetProgramActive(p, active)
  PROVE  ReviewsInv'
<1>1. /\ configs' = [configs EXCEPT ![p].version = @ + 1, ![p].active = active]
      /\ UNCHANGED <<rubrics, reviewsOf, reviewersOf>>
  BY DEF S!SetProgramActive
<1>2. DOMAIN configs' = DOMAIN configs
      /\ \A x \in DOMAIN configs : configs'[x].min_reviews = configs[x].min_reviews
  BY <1>1
<1>3. QED BY <1>1, <1>2 DEF ReviewsInv, For, RubricList, Fits

LEMMA SPublishRubric ==
  ASSUME ReviewsInv, NEW p, NEW c \in Rubrics, S!PublishRubric(p, c)
  PROVE  ReviewsInv'
<1>1. PICK list : list = Append(RubricList(p), c)
  OBVIOUS
<1>2. /\ S!ValidateRubric(c) /\ rubrics' = Set(rubrics, p, list)
      /\ UNCHANGED <<configs, reviewsOf, reviewersOf>>
  BY <1>1 DEF S!PublishRubric, S!RubricsOf, S!Get, S!Set, Set, RubricList, Get
<1>3. c \in GoodRubrics
  BY <1>2 DEF GoodRubrics
<1>4. RubricList(p)' = list /\ \A q : q # p => RubricList(q)' = RubricList(q)
  BY <1>2 DEF RubricList, Get, Set
<1>5. PICK old : old = RubricList(p)
  OBVIOUS
<1>6. old \in Seq(GoodRubrics)
  BY <1>5 DEF ReviewsInv
<1>7. list \in Seq(GoodRubrics) /\ DOMAIN old \subseteq DOMAIN list
      /\ \A i \in DOMAIN old : list[i] = old[i]
  BY <1>1, <1>3, <1>5, <1>6
<1>8. \A q : RubricList(q)' \in Seq(GoodRubrics)
  BY <1>4, <1>7 DEF ReviewsInv
<1>9. ASSUME NEW q, NEW review, Fits(q, review) PROVE Fits(q, review)'
  <2>1. CASE q = p
    <3>1. Fits(p, review)
      BY <1>9, <2>1
    <3>2. review.rubric_version \in DOMAIN old
          /\ S!ValidScores(old[review.rubric_version], review.scores)
      BY <1>5, <3>1 DEF Fits
    <3>3. review.rubric_version \in DOMAIN list
          /\ S!ValidScores(list[review.rubric_version], review.scores)
      BY <1>7, <3>2
    <3>4. QED BY <1>4, <2>1, <3>1, <3>3 DEF Fits
  <2>2. CASE q # p
    BY <1>4, <1>9, <2>2 DEF Fits
  <2>3. QED BY <2>1, <2>2
<1>10. \A q, a, r : <<q, a, r>> \in DOMAIN reviewsOf' => Fits(q, reviewsOf[<<q, a, r>>])'
  BY <1>2, <1>9 DEF ReviewsInv
<1>11. \A q, a : For(q, a)' = For(q, a)
  BY <1>2 DEF For
<1>12. QED BY <1>2, <1>8, <1>10, <1>11 DEF ReviewsInv

LEMMA SSubmitReview ==
  ASSUME ReviewsInv, now \in Nat, NEW reviewer \in Reviewers, NEW p, NEW applicant,
         NEW scores \in ScoreSheets, S!SubmitReview(reviewer, p, applicant, scores)
  PROVE  ReviewsInv'
<1>1. PICK list : list = RubricList(p)
  OBVIOUS
<1>2. PICK latest \in Nat : latest = Len(list)
  BY <1>1 DEF ReviewsInv
<1>3. PICK review : review = [rubric_version |-> latest, scores |-> scores, submitted_at |-> now]
  OBVIOUS
<1>4. PICK who : who = For(p, applicant)
  OBVIOUS
<1>5. PICK q : q = <<p, applicant, reviewer>>
  OBVIOUS
<1>6. PICK k : k = <<p, applicant>>
  OBVIOUS
<1>7. /\ latest > 0 /\ S!ValidScores(rubrics[p][latest], scores)
      /\ q \notin DOMAIN reviewsOf
      /\ reviewsOf' = Set(reviewsOf, q, review)
      /\ reviewersOf' = Set(reviewersOf, k, Append(who, reviewer))
      /\ UNCHANGED <<configs, rubrics>>
  BY <1>1, <1>2, <1>3, <1>4, <1>5, <1>6
     DEF S!SubmitReview, S!RubricsOf, S!ReviewersFor, S!Get, S!Set, S!Has, Set, RubricList, For, Get
<1>8. rubrics[p] = list
  BY <1>1, <1>2, <1>7 DEF RubricList, Get
<1>9. latest \in DOMAIN list
  BY <1>1, <1>2, <1>7 DEF ReviewsInv
<1>10. \A x : RubricList(x)' = RubricList(x)
  BY <1>7 DEF RubricList
<1>11. \A x, y : Fits(x, y)' <=> Fits(x, y)
  BY <1>10 DEF Fits
<1>12. Fits(p, review)
  BY <1>1, <1>3, <1>7, <1>8, <1>9 DEF Fits
<1>13. DOMAIN reviewsOf' = DOMAIN reviewsOf \cup {q} /\ reviewsOf'[q] = review
       /\ \A x \in DOMAIN reviewsOf : reviewsOf'[x] = reviewsOf[x]
  BY <1>7 DEF Set
<1>14. For(p, applicant)' = Append(who, reviewer)
  BY <1>6, <1>7 DEF For, Get, Set
<1>15. \A x, a : <<x, a>> # k => For(x, a)' = For(x, a)
  BY <1>7 DEF For, Get, Set
<1>16. who \in Seq(Reviewers) /\ \A i \in DOMAIN who : <<p, applicant, who[i]>> \in DOMAIN reviewsOf
  BY <1>4 DEF ReviewsInv
<1>17. PICK new : new = Append(who, reviewer)
  OBVIOUS
<1>18. new \in Seq(Reviewers)
       /\ \A i \in DOMAIN new : <<p, applicant, new[i]>> \in DOMAIN reviewsOf'
  <2>1. new \in Seq(Reviewers)
    BY <1>16, <1>17
  <2>2. ASSUME NEW i \in DOMAIN new PROVE <<p, applicant, new[i]>> \in DOMAIN reviewsOf'
    <3>1. CASE i \in DOMAIN who
      <4>1. new[i] = who[i]
        BY <1>16, <1>17, <3>1
      <4>2. QED BY <1>13, <1>16, <3>1, <4>1
    <3>2. CASE i \notin DOMAIN who
      <4>1. new[i] = reviewer
        BY <1>16, <1>17, <3>2
      <4>2. QED BY <1>5, <1>13, <4>1
    <3>3. QED BY <3>1, <3>2
  <2>3. QED BY <2>1, <2>2
<1>19. ASSUME NEW x, NEW a
       PROVE  /\ For(x, a)' \in Seq(Reviewers)
              /\ \A i \in DOMAIN For(x, a)' : <<x, a, For(x, a)'[i]>> \in DOMAIN reviewsOf'
  <2>1. CASE <<x, a>> = k
    <3>1. x = p /\ a = applicant
      BY <1>6, <2>1
    <3>2. QED BY <1>14, <1>17, <1>18, <3>1
  <2>2. CASE <<x, a>> # k
    BY <1>13, <1>15, <2>2 DEF ReviewsInv
  <2>3. QED BY <2>1, <2>2
<1>20. ASSUME NEW x, NEW a, NEW r, <<x, a, r>> \in DOMAIN reviewsOf'
       PROVE  Fits(x, reviewsOf'[<<x, a, r>>])
  <2>1. CASE <<x, a, r>> = q
    <3>1. x = p
      BY <1>5, <2>1
    <3>2. QED BY <1>12, <1>13, <2>1, <3>1
  <2>2. CASE <<x, a, r>> # q
    BY <1>13, <1>20, <2>2 DEF ReviewsInv
  <2>3. QED BY <2>1, <2>2
<1>21. \A x, a, r : <<x, a, r>> \in DOMAIN reviewsOf' => Fits(x, reviewsOf[<<x, a, r>>])'
  <2>1. ASSUME NEW x, NEW a, NEW r, <<x, a, r>> \in DOMAIN reviewsOf'
        PROVE  Fits(x, reviewsOf[<<x, a, r>>])'
    BY <1>10, <1>20, <2>1 DEF Fits
  <2>2. QED BY <2>1
<1>22. QED BY <1>7, <1>10, <1>19, <1>21 DEF ReviewsInv

LEMMA ReviewsStep == ASSUME ReviewsInv, now \in Nat, S!ReviewNext PROVE ReviewsInv'
<1>1. ASSUME NEW p \in ReviewPrograms, NEW lim \in ReviewLimits, S!RegisterProgram(p, lim[1], lim[2])
      PROVE  ReviewsInv'
  BY <1>1, SRegisterProgram
<1>2. QED BY <1>1, SSetProgramActive, SPublishRubric, SSubmitReview, Zenon DEF S!ReviewNext

-----------------------------------------------------------------------------
(* What the reviews of a scored applicant give *)

LEMMA ScoredReviews ==
  ASSUME ReviewsInv, NEW p, NEW a, S!Scored(p, a)
  PROVE  \E n \in Nat, rubric \in GoodRubrics :
             /\ n > 0 /\ DOMAIN For(p, a) = 1..n /\ Len(For(p, a)) = n
             /\ rubrics[p][S!FirstRubric(p, a)] = rubric
             /\ \A i \in 1..n : /\ S!ReviewAt(p, a, i) = ReviewOf(p, a, i)
                                /\ ReviewOf(p, a, i).scores \in ScoreSheets
                                /\ S!ValidScores(rubric, ReviewOf(p, a, i).scores)
                                /\ ReviewOf(p, a, i).submitted_at \in Int
<1>1. PICK who : who = For(p, a)
  OBVIOUS
<1>2. S!ReviewersFor(p, a) = who
  BY <1>1 DEF S!ReviewersFor, S!Get, For, Get
<1>3. who \in Seq(Reviewers) /\ \A i \in DOMAIN who : <<p, a, who[i]>> \in DOMAIN reviewsOf
  BY <1>1 DEF ReviewsInv
<1>4. PICK n \in Nat : n = Len(who) /\ DOMAIN who = 1..n
  BY <1>3
<1>5. n > 0
  <2>1. p \in DOMAIN configs /\ n >= configs[p].min_reviews
    BY <1>2, <1>4 DEF S!Scored, S!Has
  <2>2. configs[p].min_reviews \in Nat /\ configs[p].min_reviews > 0
    BY <2>1 DEF ReviewsInv
  <2>3. QED BY <2>1, <2>2
<1>6. \A i : S!ReviewAt(p, a, i) = ReviewOf(p, a, i)
  BY <1>1, <1>2 DEF S!ReviewAt, ReviewOf
<1>7. ASSUME NEW i \in 1..n PROVE Fits(p, ReviewOf(p, a, i))
  BY <1>1, <1>3, <1>4 DEF ReviewOf, ReviewsInv
<1>8. PICK v : v = S!FirstRubric(p, a)
  OBVIOUS
<1>9. ASSUME NEW i \in 1..n PROVE ReviewOf(p, a, i).rubric_version = v
  BY <1>2, <1>4, <1>6, <1>8 DEF S!Scored
<1>10. 1 \in 1..n
  BY <1>5
<1>11. PICK list : list = RubricList(p)
  OBVIOUS
<1>12. list \in Seq(GoodRubrics) /\ v \in DOMAIN list
  BY <1>7, <1>9, <1>10, <1>11 DEF Fits, ReviewsInv
<1>13. rubrics[p] = list
  <2>1. CASE p \in DOMAIN rubrics
    BY <1>11, <2>1 DEF RubricList, Get
  <2>2. CASE p \notin DOMAIN rubrics
    BY <1>11, <1>12, <2>2 DEF RubricList, Get
  <2>3. QED BY <2>1, <2>2
<1>14. PICK rubric \in GoodRubrics : rubric = list[v]
  BY <1>12
<1>15. ASSUME NEW i \in 1..n
       PROVE  /\ S!ReviewAt(p, a, i) = ReviewOf(p, a, i)
              /\ ReviewOf(p, a, i).scores \in ScoreSheets
              /\ S!ValidScores(rubric, ReviewOf(p, a, i).scores)
              /\ ReviewOf(p, a, i).submitted_at \in Int
  <2>1. Fits(p, ReviewOf(p, a, i)) /\ ReviewOf(p, a, i).rubric_version = v
    BY <1>7, <1>9
  <2>2. QED BY <1>6, <1>11, <1>14, <2>1 DEF Fits
<1>16. rubrics[p][S!FirstRubric(p, a)] = rubric
  BY <1>8, <1>13, <1>14
<1>17. DOMAIN For(p, a) = 1..n /\ Len(For(p, a)) = n
  BY <1>1, <1>4
<1>18. QED BY ONLY <1>5, <1>14, <1>15, <1>16, <1>17, n \in Nat

\* The aggregated score is a score, and the time of the first review a time.
LEMMA ScoreWithin ==
  ASSUME ReviewsInv, NEW p, NEW a, S!Scored(p, a)
  PROVE  /\ \A i \in DOMAIN S!ReviewersFor(p, a) :
                S!ValidScores(rubrics[p][S!FirstRubric(p, a)], S!ReviewAt(p, a, i).scores)
         /\ S!AggregateScore(p, a) \in 0..BPS_DENOMINATOR
         /\ S!FirstReviewTime(p, a) \in Int
<1>1. S!ReviewersFor(p, a) = For(p, a)
  BY DEF S!ReviewersFor, S!Get, For, Get
<1>2. PICK n \in Nat, rubric \in GoodRubrics :
             /\ n > 0 /\ DOMAIN For(p, a) = 1..n /\ Len(For(p, a)) = n
             /\ rubrics[p][S!FirstRubric(p, a)] = rubric
             /\ \A i \in 1..n : /\ S!ReviewAt(p, a, i) = ReviewOf(p, a, i)
                                /\ ReviewOf(p, a, i).scores \in ScoreSheets
                                /\ S!ValidScores(rubric, ReviewOf(p, a, i).scores)
                                /\ ReviewOf(p, a, i).submitted_at \in Int
  BY ScoredReviews
<1>3. IsFiniteSet(1..n) /\ Cardinality(1..n) = n
  BY FS_Interval
<1>4. PICK f : f = [i \in 1..n |-> S!WeightedTotal(rubric, S!ReviewAt(p, a, i).scores)]
  OBVIOUS
<1>5. BPS_DENOMINATOR \in Nat
  BY PlatformConstants
<1>6. ASSUME NEW i \in 1..n PROVE f[i] \in Nat /\ f[i] <= BPS_DENOMINATOR
  <2>1. S!WeightedTotal(rubric, S!ReviewAt(p, a, i).scores) \in 0..BPS_DENOMINATOR
    BY <1>2, WeightedWithin
  <2>2. QED BY <1>4, <1>5, <2>1
<1>7. SumFunctionOnSet(f, 1..n) \in Nat /\ SumFunctionOnSet(f, 1..n) <= BPS_DENOMINATOR * n
  <2>1. SumFunctionOnSet(f, 1..n) \in Nat
        /\ SumFunctionOnSet(f, 1..n) <= BPS_DENOMINATOR * Cardinality(1..n)
    BY ONLY <1>3, <1>5, <1>6, SetSumBounded
  <2>2. QED BY <1>3, <2>1
<1>8. SumFunctionOnSet(f, 1..n) \div n \in 0..BPS_DENOMINATOR
  BY ONLY <1>2, <1>5, <1>7, DivWithin
<1>9. S!SumFunction(f) = SumFunctionOnSet(f, 1..n)
  BY <1>4, ScreeningSums
<1>10. S!AggregateScore(p, a) = S!SumFunction(f) \div n
  BY <1>1, <1>2, <1>4 DEF S!AggregateScore
<1>11. PICK set : set = {S!ReviewAt(p, a, i).submitted_at : i \in 1..n}
  OBVIOUS
<1>12. S!FirstReviewTime(p, a) = S!Min(set)
  BY <1>1, <1>2, <1>11 DEF S!FirstReviewTime
<1>13. set \subseteq Int /\ set # {}
  BY <1>2, <1>11
<1>14. IsFiniteSet(set)
  <2>1. PICK g : g = [i \in 1..n |-> S!ReviewAt(p, a, i).submitted_at]
    OBVIOUS
  <2>2. g \in Surjection(1..n, set)
    BY <1>11, <2>1 DEF Surjection
  <2>3. QED BY ONLY <1>3, <2>2, FS_Surjection
<1>15. S!Min(set) \in set
  BY ONLY <1>13, <1>14, FiniteMin
<1>16. S!FirstReviewTime(p, a) \in Int
  BY <1>12, <1>13, <1>15
<1>17. S!AggregateScore(p, a) \in 0..BPS_DENOMINATOR
  BY <1>8, <1>9, <1>10
<1>18. QED BY <1>1, <1>2, <1>16, <1>17

LEMMA ReviewsGood == ReviewsInv => S!ScoresComparable /\ S!RankingConsistent
<1> SUFFICES ASSUME ReviewsInv PROVE S!ScoresComparable /\ S!RankingConsistent
  OBVIOUS
<1>1. S!ScoresComparable
  BY ScoreWithin DEF S!ScoresComparable
<1>2. ASSUME NEW p, NEW a, NEW b,
             S!AggregateScore(p, a) \in Int, S!AggregateScore(p, b) \in Int,
             S!FirstReviewTime(p, a) \in Int, S!FirstReviewTime(p, b) \in Int
      PROVE  /\ S!CompareApplicants(p, a, b) = "ABetter" <=>
                    \/ S!AggregateScore(p, a) > S!AggregateScore(p, b)
                    \/ /\ S!AggregateScore(p, a) = S!AggregateScore(p, b)
                       /\ S!FirstReviewTime(p, a) < S!FirstReviewTime(p, b)
             /\ S!CompareApplicants(p, a, b) = "BBetter" <=>
                    \/ S!AggregateScore(p, a) < S!AggregateScore(p, b)
                    \/ /\ S!AggregateScore(p, a) = S!AggregateScore(p, b)
                       /\ S!FirstReviewTime(p, a) > S!FirstReviewTime(p, b)
  BY <1>2 DEF S!CompareApplicants
<1>3. ASSUME NEW p, NEW a, S!Scored(p, a)
      PROVE  S!AggregateScore(p, a) \in Int /\ S!FirstReviewTime(p, a) \in Int
  <2>1. BPS_DENOMINATOR \in Nat
    BY PlatformConstants
  <2>2. QED BY <1>3, <2>1, ScoreWithin
<1>4. ASSUME NEW p, NEW a, NEW b, NEW c, S!Scored(p, a), S!Scored(p, b), S!Scored(p, c)
      PROVE  /\ S!CompareApplicants(p, a, b) = "ABetter"
                    <=> S!CompareApplicants(p, b, a) = "BBetter"
             /\ /\ S!CompareApplicants(p, a, b) = "ABetter"
                /\ S!CompareApplicants(p, b, c) = "ABetter"
                => S!CompareApplicants(p, a, c) = "ABetter"
  <2>1. PICK u \in Int, v \in Int, w \in Int :
            /\ u = S!AggregateScore(p, a) /\ v = S!AggregateScore(p, b)
            /\ w = S!AggregateScore(p, c)
    BY <1>3, <1>4
  <2>2. PICK x \in Int, y \in Int, z \in Int :
            /\ x = S!FirstReviewTime(p, a) /\ y = S!FirstReviewTime(p, b)
            /\ z = S!FirstReviewTime(p, c)
    BY <1>3, <1>4
  <2>3. S!CompareApplicants(p, a, b) = "ABetter" <=> u > v \/ (u = v /\ x < y)
    BY <1>2, <2>1, <2>2
  <2>4. S!CompareApplicants(p, b, a) = "BBetter" <=> v < u \/ (v = u /\ y > x)
    BY <1>2, <2>1, <2>2
  <2>5. S!CompareApplicants(p, b, c) = "ABetter" <=> v > w \/ (v = w /\ y < z)
    BY <1>2, <2>1, <2>2
  <2>6. S!CompareApplicants(p, a, c) = "ABetter" <=> u > w \/ (u = w /\ x < z)
    BY <1>2, <2>1, <2>2
  <2>7. QED BY ONLY <2>1, <2>2, <2>3, <2>4, <2>5, <2>6
<1>5. S!RankingConsistent
  BY <1>4 DEF S!RankingConsistent
<1>6. QED BY <1>1, <1>5

-----------------------------------------------------------------------------
(* Seats and entitlements of a license *)

Allocation == [license : Nat, seats : Nat, active : BOOLEAN]
SeatsOf == [a \in DOMAIN allocations |-> allocations[a].seats]
InForce(id) == {a \in DOMAIN allocations : allocations[a].active /\ allocations[a].license = id}
\* The list of a license names every entitlement it has, each at one position only.
Pair == Renditions \X AccessModes
Distinct(keys) == \A p, q \in DOMAIN keys : keys[p] = keys[q] => p = q
Listed(id) ==
    /\ L!KeysOf(id) \in Seq(Pair)
    /\ Distinct(L!KeysOf(id))
    /\ \A pair \in Pair : <<id, pair[1], pair[2]>> \in entitlements
                              <=> \E p \in DOMAIN L!KeysOf(id) : L!KeysOf(id)[p] = pair

\* Seats taken one by one stay within the license; an institution's total has a limit and
\* counts the allocations in force.
TakenInv == \A id \in DOMAIN licenses : licenses[id].taken \in Nat /\ licenses[id].taken <= licenses[id].seats
AllocatedInv ==
    /\ Numbered(allocations, Allocation)
    /\ \A a \in DOMAIN allocations : allocations[a].license \in DOMAIN seatTotals
    /\ DOMAIN seatTotals \subseteq DOMAIN seatLimits
    /\ \A id \in DOMAIN seatLimits : seatLimits[id] \in Nat
    /\ \A id \in DOMAIN seatTotals : seatTotals[id] \in Nat /\ seatTotals[id] <= seatLimits[id]
    /\ \A id \in Nat : L!Get(seatTotals, id, 0) = SumFunctionOnSet(SeatsOf, InForce(id))
ListedInv ==
    /\ entitlements \subseteq Nat \X Renditions \X AccessModes
    /\ \A id \in Nat : Listed(id)
HoldingsInv == TakenInv /\ AllocatedInv /\ ListedInv

LEMMA HoldingsInitial == L!Init => HoldingsInv
<1>1. ASSUME L!Init PROVE HoldingsInv
  <2> DEFINE none == [k \in {} |-> {}]
  <2>1. /\ licenses = none /\ allocations = none /\ seatTotals = none /\ seatLimits = none
        /\ entitlementKeys = none /\ entitlements = {}
    BY <1>1 DEF L!Init, L!Empty
  <2>2. DOMAIN none = {} /\ Numbered(none, Allocation)
    BY NumberedInitial
  <2> HIDE DEF none
  <2>3. TakenInv
    BY <2>1, <2>2 DEF TakenInv
  <2>4. AllocatedInv
    <3>1. ASSUME NEW id \in Nat
          PROVE  L!Get(seatTotals, id, 0) = SumFunctionOnSet(SeatsOf, InForce(id))
      <4>1. InForce(id) = {}
        BY <2>1, <2>2 DEF InForce
      <4>2. L!Get(seatTotals, id, 0) = 0
        BY <2>1, <2>2 DEF L!Get
      <4>3. QED BY <4>1, <4>2, SetSumEmpty
    <3>2. QED BY <2>1, <2>2, <3>1 DEF AllocatedInv
  <2>5. ListedInv
    <3>1. \A id : L!KeysOf(id) = <<>>
      BY <2>1, <2>2 DEF L!KeysOf, L!Get
    <3>2. PICK e : e = <<>> /\ e \in Seq(Pair) /\ DOMAIN e = {}
      <4>1. <<>> \in Seq(Pair) /\ DOMAIN <<>> = 1..Len(<<>>) /\ Len(<<>>) = 0
        BY ONLY EmptySeq
      <4>2. 1..0 = {}
        OBVIOUS
      <4>3. <<>> \in Seq(Pair) /\ DOMAIN <<>> = {}
        BY <4>1, <4>2
      <4>4. QED BY ONLY <4>3
    <3>3. \A id : L!KeysOf(id) = e
      BY <3>1, <3>2
    <3>4. \A id : Listed(id)
      BY <2>1, <3>2, <3>3, Zenon DEF Listed, Distinct
    <3>5. QED BY <2>1, <3>4 DEF ListedInv
  <2>6. QED BY <2>3, <2>4, <2>5 DEF HoldingsInv
<1>2. QED BY <1>1

LEMMA SeatsNat == ASSUME NEW r \in License PROVE r.seats \in Nat
<1>1. SeatCounts \subseteq Nat
  BY Zenon, PlatformConstants
<1>2. r.seats \in SeatCounts \cup {0}
  BY DEF License
<1>3. CASE r.seats = 0
  BY <1>3
<1>4. CASE r.seats \in SeatCounts
  BY <1>1, <1>4, Zenon
<1>5. QED BY <1>2, <1>3, <1>4, Zenon

\* The parts that a step does not touch.
LEMMA TakenSame ==
  ASSUME TakenInv, UNCHANGED licenses PROVE TakenInv'
BY DEF TakenInv

LEMMA AllocatedSame ==
  ASSUME AllocatedInv, UNCHANGED <<allocations, seatTotals, seatLimits>> PROVE AllocatedInv'
<1>1. SeatsOf' = SeatsOf /\ \A id : InForce(id)' = InForce(id)
  BY DEF SeatsOf, InForce
<1>2. QED BY <1>1 DEF AllocatedInv

LEMMA ListedSame ==
  ASSUME ListedInv, UNCHANGED <<entitlements, entitlementKeys>> PROVE ListedInv'
<1>1. \A id : L!KeysOf(id)' = L!KeysOf(id)
  BY DEF L!KeysOf, L!Get
<1>2. \A id : Listed(id)' <=> Listed(id)
  BY <1>1 DEF Listed
<1>3. QED BY <1>2 DEF ListedInv

LEMMA HoldingsElsewhere ==
  ASSUME HoldingsInv,
         UNCHANGED <<licenses, allocations, seatTotals, seatLimits, entitlements, entitlementKeys>>
  PROVE  HoldingsInv'
BY TakenSame, AllocatedSame, ListedSame DEF HoldingsInv

-----------------------------------------------------------------------------
(* Licenses and the seats taken one by one *)

LEMMA TakenAdded ==
  ASSUME TakenInv, LicensingInv, NEW r \in License, r.taken = 0,
         licenses' = L!Set(licenses, L!NextId(licenses), r)
  PROVE  TakenInv'
<1>1. PICK k : k = L!NextId(licenses)
  OBVIOUS
<1>2. Numbered(licenses, License)
  BY DEF LicensingInv
<1>3. /\ DOMAIN licenses' = DOMAIN licenses \cup {k} /\ licenses'[k] = r
      /\ \A x \in DOMAIN licenses : licenses'[x] = licenses[x]
  BY <1>1, <1>2, LicenseNumber
<1>4. r.seats \in Nat
  BY SeatsNat
<1>5. QED BY <1>3, <1>4 DEF TakenInv

LEMMA TakenRewritten ==
  ASSUME TakenInv, LicensingInv, NEW id \in DOMAIN licenses, NEW r,
         licenses' = [licenses EXCEPT ![id] = r], r.taken \in Nat, r.taken <= r.seats
  PROVE  TakenInv'
<1>1. PICK n \in Nat : licenses \in [1..n -> License]
  BY DEF LicensingInv, Numbered
<1>2. /\ DOMAIN licenses' = DOMAIN licenses /\ licenses'[id] = r
      /\ \A x \in DOMAIN licenses \ {id} : licenses'[x] = licenses[x]
  BY <1>1
<1>3. QED BY <1>2 DEF TakenInv

LEMMA TakenLicense ==
  ASSUME HoldingsInv, LicensingInv, L!LicenseNext PROVE HoldingsInv'
<1>1. ASSUME NEW work \in Works, NEW licensee \in Licensees, NEW from \in LicenseTimes,
             NEW until \in LicenseTimes, NEW n \in SeatCounts,
             L!GrantLicense(work, licensee, from, until, n)
      PROVE  TakenInv' /\ UNCHANGED <<L!seatSide, L!licenseSide>>
  <2>1. PICK r : r = [work |-> work, licensee |-> licensee, from |-> from, until |-> until,
                      revoked |-> FALSE, seats |-> n, taken |-> 0]
    OBVIOUS
  <2>2. /\ licenses' = L!Set(licenses, L!NextId(licenses), r)
        /\ UNCHANGED <<L!seatSide, L!licenseSide>>
    BY <1>1, <2>1, Zenon DEF L!GrantLicense
  <2>3. r \in License /\ r.taken = 0
    BY <2>1, PlatformConstants DEF License
  <2>4. QED BY <2>2, <2>3, TakenAdded DEF HoldingsInv
<1>2. ASSUME NEW id \in DOMAIN licenses,
             L!RevokeLicense(id) \/ L!ApplyLicenseRevocation(id)
      PROVE  TakenInv' /\ UNCHANGED <<L!seatSide, L!licenseSide>>
  <2>1. PICK r : r = [licenses[id] EXCEPT !.revoked = TRUE]
    OBVIOUS
  <2>2. licenses' = [licenses EXCEPT ![id] = r] /\ UNCHANGED <<L!seatSide, L!licenseSide>>
    BY <1>2, <2>1 DEF L!RevokeLicense, L!ApplyLicenseRevocation
  <2>3. licenses[id] \in License /\ licenses[id].taken \in Nat
        /\ licenses[id].taken <= licenses[id].seats
    BY NumberedMember DEF LicensingInv, HoldingsInv, TakenInv
  <2>4. r.taken = licenses[id].taken /\ r.seats = licenses[id].seats
    BY <2>1, <2>3 DEF License
  <2>5. QED BY <2>2, <2>3, <2>4, TakenRewritten DEF HoldingsInv
<1>3. ASSUME NEW id \in DOMAIN licenses, NEW at \in LicenseTimes,
             L!ScheduleLicenseRevocation(id, at)
      PROVE  TakenInv' /\ UNCHANGED <<L!seatSide, L!licenseSide>>
  <2>1. UNCHANGED licenses /\ UNCHANGED <<L!seatSide, L!licenseSide>>
    BY <1>3 DEF L!ScheduleLicenseRevocation, L!licenseCore
  <2>2. QED BY <2>1, TakenSame DEF HoldingsInv
<1>4. TakenInv' /\ UNCHANGED <<L!seatSide, L!licenseSide>>
  BY <1>1, <1>2, <1>3, Zenon DEF L!LicenseNext
<1>5. UNCHANGED <<allocations, seatTotals, seatLimits, entitlements, entitlementKeys>>
  BY <1>4 DEF L!seatSide, L!licenseSide
<1>6. QED BY <1>4, <1>5, AllocatedSame, ListedSame DEF HoldingsInv

LEMMA TakenOffer ==
  ASSUME HoldingsInv, LicensingInv, L!OfferNext PROVE HoldingsInv'
<1>1. ASSUME NEW o \in DOMAIN offers, L!AcceptRentalOffer(o)
      PROVE  TakenInv' /\ UNCHANGED <<L!seatSide, L!licenseSide>>
  <2>1. PICK r : r = [work |-> offers[o].work, licensee |-> offers[o].buyer, from |-> now,
                      until |-> offers[o].until, revoked |-> FALSE, seats |-> 0, taken |-> 0]
    OBVIOUS
  <2>2. /\ licenses' = L!Set(licenses, L!NextId(licenses), r)
        /\ UNCHANGED <<L!seatSide, L!licenseSide>>
    BY <1>1, <2>1 DEF L!AcceptRentalOffer
  <2>3. offers[o] \in Offer /\ now \in Nat
    BY NumberedMember DEF LicensingInv
  <2>4. /\ offers[o].work \in Works /\ offers[o].buyer \in Licensees
        /\ offers[o].until \in Nat
    BY <2>3 DEF Offer
  <2>5. r \in License /\ r.taken = 0
    BY <2>1, <2>3, <2>4 DEF License
  <2>6. QED BY <2>2, <2>5, TakenAdded DEF HoldingsInv
<1>2. ASSUME NEW work, NEW buyer, NEW from, NEW until, L!CreateRentalOffer(work, buyer, from, until)
      PROVE  UNCHANGED licenses /\ UNCHANGED <<L!seatSide, L!licenseSide>>
  BY <1>2 DEF L!CreateRentalOffer, L!licenseCore
<1>3. ASSUME NEW subject, NEW role, NEW until, L!IssueAttestation(subject, role, until)
      PROVE  UNCHANGED licenses /\ UNCHANGED <<L!seatSide, L!licenseSide>>
  BY <1>3 DEF L!IssueAttestation, L!licenseCore
<1>4. ASSUME NEW a, L!RevokeAttestation(a)
      PROVE  UNCHANGED licenses /\ UNCHANGED <<L!seatSide, L!licenseSide>>
  BY <1>4 DEF L!RevokeAttestation, L!licenseCore
<1>5. TakenInv' /\ UNCHANGED <<L!seatSide, L!licenseSide>>
  <2>1. UNCHANGED licenses => TakenInv'
    BY TakenSame DEF HoldingsInv
  <2>2. QED BY <1>1, <1>2, <1>3, <1>4, <2>1, Zenon DEF L!OfferNext
<1>6. UNCHANGED <<allocations, seatTotals, seatLimits, entitlements, entitlementKeys>>
  BY <1>5 DEF L!seatSide, L!licenseSide
<1>7. QED BY <1>5, <1>6, AllocatedSame, ListedSame DEF HoldingsInv

LEMMA HoldSeat ==
  ASSUME HoldingsInv, LicensingInv, NEW id \in DOMAIN licenses,
         L!AllocateSeat(id) \/ L!ReleaseSeat(id)
  PROVE  HoldingsInv'
<1>1. licenses[id] \in License /\ licenses[id].taken \in Nat
      /\ licenses[id].taken <= licenses[id].seats /\ licenses[id].seats \in Nat
  <2>1. licenses[id] \in License
    BY NumberedMember DEF LicensingInv
  <2>2. QED BY <2>1, SeatsNat DEF HoldingsInv, TakenInv
<1>2. PICK t \in Nat : /\ t <= licenses[id].seats
                       /\ licenses' = [licenses EXCEPT ![id] = [licenses[id] EXCEPT !.taken = t]]
  <2>1. CASE L!AllocateSeat(id)
    <3>1. /\ licenses[id].taken < licenses[id].seats
          /\ licenses' = [licenses EXCEPT ![id] = [licenses[id] EXCEPT !.taken = licenses[id].taken + 1]]
      BY <2>1 DEF L!AllocateSeat
    <3>2. licenses[id].taken + 1 \in Nat /\ licenses[id].taken + 1 <= licenses[id].seats
      BY <1>1, <3>1
    <3>3. QED BY <3>1, <3>2
  <2>2. CASE L!ReleaseSeat(id)
    <3>1. /\ licenses[id].taken # 0
          /\ licenses' = [licenses EXCEPT ![id] = [licenses[id] EXCEPT !.taken = licenses[id].taken - 1]]
      BY <2>2 DEF L!ReleaseSeat
    <3>2. licenses[id].taken - 1 \in Nat /\ licenses[id].taken - 1 <= licenses[id].seats
      BY <1>1, <3>1
    <3>3. QED BY <3>1, <3>2
  <2>3. QED BY <2>1, <2>2
<1>3. PICK r : r = [licenses[id] EXCEPT !.taken = t]
  OBVIOUS
<1>4. r.taken = t /\ r.seats = licenses[id].seats
  BY <1>1, <1>3 DEF License
<1>5. licenses' = [licenses EXCEPT ![id] = r]
  BY <1>2, <1>3
<1>6. TakenInv'
  BY <1>2, <1>4, <1>5, TakenRewritten DEF HoldingsInv
<1>7. UNCHANGED <<allocations, seatTotals, seatLimits, entitlements, entitlementKeys>>
  BY DEF L!AllocateSeat, L!ReleaseSeat, L!seatSide, L!licenseSide
<1>8. QED BY <1>6, <1>7, AllocatedSame, ListedSame DEF HoldingsInv

-----------------------------------------------------------------------------
(* An institution's limit and total *)

LEMMA SeatsSummable ==
  ASSUME Numbered(allocations, Allocation), NEW id
  PROVE  Summable(SeatsOf, InForce(id)) /\ \A a \in InForce(id) : SeatsOf[a] \in Nat
<1>1. IsFiniteSet(InForce(id))
  BY NumberedFinite, FS_Subset DEF InForce
<1>2. ASSUME NEW a \in InForce(id) PROVE SeatsOf[a] \in Nat
  <2>1. a \in DOMAIN allocations
    BY DEF InForce
  <2>2. allocations[a] \in Allocation
    BY <2>1, NumberedMember
  <2>3. QED BY <2>1, <2>2 DEF SeatsOf, Allocation
<1>3. QED BY <1>1, <1>2 DEF Summable

LEMMA HoldLimit ==
  ASSUME HoldingsInv, NEW id \in Nat, NEW limit \in Nat, L!SetAllocationLimit(id, limit)
  PROVE  HoldingsInv'
<1>1. /\ limit >= L!Get(seatTotals, id, 0) /\ seatLimits' = L!Set(seatLimits, id, limit)
      /\ UNCHANGED <<L!licenseCore, L!licenseSide, seatTotals, allocations>>
  BY DEF L!SetAllocationLimit
<1>2. UNCHANGED <<licenses, entitlements, entitlementKeys>>
  BY <1>1 DEF L!licenseCore, L!licenseSide
<1>3. AllocatedInv
  BY DEF HoldingsInv
<1>4. /\ DOMAIN seatLimits' = DOMAIN seatLimits \cup {id} /\ seatLimits'[id] = limit
      /\ \A x \in DOMAIN seatLimits \ {id} : seatLimits'[x] = seatLimits[x]
  BY <1>1 DEF L!Set
<1>5. SeatsOf' = SeatsOf /\ \A x : InForce(x)' = InForce(x)
  BY <1>1 DEF SeatsOf, InForce
<1>6. ASSUME NEW x \in DOMAIN seatTotals
      PROVE  seatTotals[x] \in Nat /\ seatTotals[x] <= seatLimits'[x]
  <2>1. x \in DOMAIN seatLimits /\ seatTotals[x] \in Nat /\ seatTotals[x] <= seatLimits[x]
    BY <1>3 DEF AllocatedInv
  <2>2. CASE x = id
    <3>1. limit >= seatTotals[x]
      BY <1>1, <2>2 DEF L!Get
    <3>2. QED BY <1>4, <2>1, <2>2, <3>1
  <2>3. CASE x # id
    BY <1>4, <2>1, <2>3
  <2>4. QED BY <2>2, <2>3
<1>7. \A x \in DOMAIN seatLimits' : seatLimits'[x] \in Nat
  <2>1. \A x \in DOMAIN seatLimits : seatLimits[x] \in Nat
    BY <1>3 DEF AllocatedInv
  <2>2. QED BY <1>4, <2>1
<1>8. AllocatedInv'
  BY <1>1, <1>3, <1>4, <1>5, <1>6, <1>7, Zenon DEF AllocatedInv
<1>9. QED BY <1>2, <1>8, TakenSame, ListedSame DEF HoldingsInv

LEMMA HoldAllocate ==
  ASSUME HoldingsInv, NEW id \in Nat, NEW n \in Nat, L!AllocateSeats(id, n)
  PROVE  HoldingsInv'
<1>1. PICK total, k, r : /\ total = L!Get(seatTotals, id, 0) + n /\ k = L!NextId(allocations)
                         /\ r = [license |-> id, seats |-> n, active |-> TRUE]
  OBVIOUS
<1>2. /\ id \in DOMAIN seatLimits /\ total <= seatLimits[id]
      /\ allocations' = L!Set(allocations, k, r) /\ seatTotals' = L!Set(seatTotals, id, total)
      /\ UNCHANGED <<L!licenseCore, L!licenseSide, seatLimits>>
  BY <1>1 DEF L!AllocateSeats, L!Has
<1>3. UNCHANGED <<licenses, entitlements, entitlementKeys>>
  BY <1>2 DEF L!licenseCore, L!licenseSide
<1>4. AllocatedInv
  BY DEF HoldingsInv
<1>5. r \in Allocation /\ Numbered(allocations, Allocation)
  BY <1>1, <1>4 DEF Allocation, AllocatedInv
<1>6. /\ k \notin DOMAIN allocations /\ DOMAIN allocations' = DOMAIN allocations \cup {k}
      /\ allocations'[k] = r /\ \A x \in DOMAIN allocations : allocations'[x] = allocations[x]
      /\ Numbered(allocations', Allocation)
  <2>1. k = L!NextId(allocations) /\ allocations' = L!Set(allocations, k, r)
    BY <1>1, <1>2
  <2>2. PICK new : new = allocations'
    OBVIOUS
  <2>3. k = L!NextId(allocations) /\ new = L!Set(allocations, k, r)
    BY <2>1, <2>2
  <2>4. /\ k \notin DOMAIN allocations /\ DOMAIN new = DOMAIN allocations \cup {k}
        /\ new[k] = r /\ \A x \in DOMAIN allocations : new[x] = allocations[x]
        /\ Numbered(new, Allocation)
    BY ONLY <1>5, <2>3, LicenseNumber, SMTT(20)
  <2>5. QED BY <2>2, <2>4, Zenon
<1>7. L!Get(seatTotals, id, 0) \in Nat /\ total \in Nat
  <2>1. L!Get(seatTotals, id, 0) \in Nat
    BY <1>4 DEF AllocatedInv, L!Get
  <2>2. QED BY <1>1, <2>1
<1>8. /\ DOMAIN seatTotals' = DOMAIN seatTotals \cup {id} /\ seatTotals'[id] = total
      /\ \A x \in DOMAIN seatTotals \ {id} : seatTotals'[x] = seatTotals[x]
  BY <1>2 DEF L!Set
<1>9. ASSUME NEW x \in Nat
      PROVE  L!Get(seatTotals', x, 0) = SumFunctionOnSet(SeatsOf', InForce(x)')
  <2>1. Summable(SeatsOf, InForce(x))
    BY <1>5, SeatsSummable
  <2>2. \A a \in InForce(x) : SeatsOf'[a] = SeatsOf[a]
    BY <1>6 DEF SeatsOf, InForce
  <2>3. L!Get(seatTotals, x, 0) = SumFunctionOnSet(SeatsOf, InForce(x))
    BY <1>4 DEF AllocatedInv
  <2>4. CASE x = id
    <3>1. InForce(x)' = InForce(x) \cup {k} /\ k \notin InForce(x)
      BY <1>1, <1>6, <2>4 DEF InForce
    <3>2. SeatsOf'[k] = n
      BY <1>1, <1>6 DEF SeatsOf
    <3>3. PICK f, set, g, R : f = SeatsOf /\ set = InForce(x) /\ g = SeatsOf' /\ R = InForce(x)'
      OBVIOUS
    <3>4. OneChange(f, set, g, R, k) /\ k \notin set /\ k \in R /\ g[k] = n
      BY <2>1, <2>2, <3>1, <3>2, <3>3 DEF OneChange
    <3>5. SumFunctionOnSet(g, R) = SumFunctionOnSet(f, set) + n
      <4>1. SumFunctionOnSet(g, R) = SumFunctionOnSet(f, set) - 0 + n
        BY <3>4, SetSumChange
      <4>2. SumFunctionOnSet(f, set) \in Int
        BY <2>1, <3>3, SetSumInt DEF Summable
      <4>3. QED BY <4>1, <4>2
    <3>6. L!Get(seatTotals', x, 0) = total
      BY <1>8, <2>4 DEF L!Get
    <3>7. QED BY <1>1, <2>3, <2>4, <3>3, <3>5, <3>6
  <2>5. CASE x # id
    <3>1. InForce(x)' = InForce(x)
      BY <1>1, <1>6, <2>5 DEF InForce
    <3>2. L!Get(seatTotals', x, 0) = L!Get(seatTotals, x, 0)
      BY <1>8, <2>5 DEF L!Get
    <3>3. PICK f, set, g : f = SeatsOf /\ set = InForce(x) /\ g = SeatsOf'
      OBVIOUS
    <3>4. SumFunctionOnSet(f, set) = SumFunctionOnSet(g, set)
      BY <2>1, <2>2, <3>3, SetSumExt DEF Summable
    <3>5. QED BY <2>3, <3>1, <3>2, <3>3, <3>4
  <2>6. QED BY <2>4, <2>5
<1>10. \A a \in DOMAIN allocations' : allocations'[a].license \in DOMAIN seatTotals'
  BY <1>1, <1>4, <1>6, <1>8 DEF AllocatedInv
<1>11. \A x \in DOMAIN seatTotals' : seatTotals'[x] \in Nat /\ seatTotals'[x] <= seatLimits'[x]
  BY <1>2, <1>4, <1>7, <1>8 DEF AllocatedInv
<1>12. DOMAIN seatTotals' \subseteq DOMAIN seatLimits' /\ \A x \in DOMAIN seatLimits' : seatLimits'[x] \in Nat
  BY <1>2, <1>4, <1>8 DEF AllocatedInv
<1>13. AllocatedInv'
  BY <1>6, <1>9, <1>10, <1>11, <1>12 DEF AllocatedInv
<1>14. QED BY <1>3, <1>13, TakenSame, ListedSame DEF HoldingsInv

LEMMA HoldRevoke ==
  ASSUME HoldingsInv, NEW a \in DOMAIN allocations, L!RevokeAllocation(a)
  PROVE  HoldingsInv'
<1>1. PICK id, n, r : /\ id = allocations[a].license /\ n = allocations[a].seats
                      /\ r = [allocations[a] EXCEPT !.active = FALSE]
  OBVIOUS
<1>2. /\ allocations[a].active /\ allocations' = [allocations EXCEPT ![a] = r]
      /\ seatTotals' = L!Set(seatTotals, id, L!SatSub(L!Get(seatTotals, id, 0), n))
      /\ UNCHANGED <<L!licenseCore, L!licenseSide, seatLimits>>
  BY <1>1 DEF L!RevokeAllocation, L!IsAllocated
<1>3. UNCHANGED <<licenses, entitlements, entitlementKeys>>
  BY <1>2 DEF L!licenseCore, L!licenseSide
<1>4. AllocatedInv
  BY DEF HoldingsInv
<1>5. allocations[a] \in Allocation /\ Numbered(allocations, Allocation)
  BY <1>4, NumberedMember DEF AllocatedInv
<1>6. /\ r \in Allocation /\ r.license = id /\ r.seats = n /\ ~r.active /\ id \in Nat /\ n \in Nat
  BY <1>1, <1>5 DEF Allocation
<1>7. /\ DOMAIN allocations' = DOMAIN allocations /\ allocations'[a] = r
      /\ \A x \in DOMAIN allocations \ {a} : allocations'[x] = allocations[x]
      /\ Numbered(allocations', Allocation)
  <2>1. /\ DOMAIN [allocations EXCEPT ![a] = r] = DOMAIN allocations
        /\ [allocations EXCEPT ![a] = r][a] = r
        /\ \A x \in DOMAIN allocations \ {a} : [allocations EXCEPT ![a] = r][x] = allocations[x]
        /\ Numbered([allocations EXCEPT ![a] = r], Allocation)
    BY ONLY <1>5, <1>6, a \in DOMAIN allocations, NumberedUpdate
  <2>2. QED BY <1>2, <2>1
<1>8. id \in DOMAIN seatTotals /\ seatTotals[id] \in Nat /\ seatTotals[id] <= seatLimits[id]
      /\ id \in DOMAIN seatLimits /\ seatLimits[id] \in Nat
  BY <1>1, <1>4 DEF AllocatedInv
<1>9. seatTotals[id] = SumFunctionOnSet(SeatsOf, InForce(id))
  BY <1>4, <1>6, <1>8 DEF AllocatedInv, L!Get
<1>10. a \in InForce(id) /\ SeatsOf[a] = n
  BY <1>1, <1>2 DEF InForce, SeatsOf
<1>11. n <= seatTotals[id]
  <2>1. PICK f, set : f = SeatsOf /\ set = InForce(id)
    OBVIOUS
  <2>2. IsFiniteSet(set) /\ \A x \in set : f[x] \in Nat
    BY <1>5, <2>1, SeatsSummable DEF Summable
  <2>3. f[a] <= SumFunctionOnSet(f, set)
    BY <1>10, <2>1, <2>2, SetSumNat
  <2>4. QED BY <1>9, <1>10, <2>1, <2>3
<1>12. /\ DOMAIN seatTotals' = DOMAIN seatTotals /\ seatTotals'[id] = seatTotals[id] - n
       /\ \A x \in DOMAIN seatTotals \ {id} : seatTotals'[x] = seatTotals[x]
  <2>1. L!Get(seatTotals, id, 0) = seatTotals[id]
    BY <1>8 DEF L!Get
  <2>2. L!SatSub(seatTotals[id], n) = seatTotals[id] - n
    BY <1>6, <1>8, <1>11 DEF L!SatSub
  <2>3. QED BY <1>2, <1>8, <2>1, <2>2 DEF L!Set
<1>13. ASSUME NEW x \in Nat
       PROVE  L!Get(seatTotals', x, 0) = SumFunctionOnSet(SeatsOf', InForce(x)')
  <2>1. Summable(SeatsOf, InForce(x))
    BY <1>5, SeatsSummable
  <2>2. SeatsOf' = SeatsOf
    <3>1. \A y \in DOMAIN allocations : allocations'[y].seats = allocations[y].seats
      BY <1>1, <1>6, <1>7
    <3>2. QED BY <1>7, <3>1 DEF SeatsOf
  <2>3. L!Get(seatTotals, x, 0) = SumFunctionOnSet(SeatsOf, InForce(x))
    BY <1>4 DEF AllocatedInv
  <2>4. CASE x = id
    <3>1. InForce(x)' = InForce(x) \ {a}
      BY <1>6, <1>7, <2>4 DEF InForce
    <3>2. PICK f, set : f = SeatsOf /\ set = InForce(x)
      OBVIOUS
    <3>3. SumFunctionOnSet(f, set) = n + SumFunctionOnSet(f, set \ {a})
      BY <1>10, <2>1, <2>4, <3>2, SetSumSplit DEF Summable
    <3>4. SumFunctionOnSet(f, set \ {a}) \in Int
      <4>1. IsFiniteSet(set \ {a}) /\ \A y \in set \ {a} : f[y] \in Int
        BY <2>1, <3>2, FS_Subset DEF Summable
      <4>2. QED BY <4>1, SetSumInt
    <3>5. L!Get(seatTotals', x, 0) = seatTotals[id] - n
      BY <1>8, <1>12, <2>4 DEF L!Get
    <3>6. SumFunctionOnSet(f, set) = seatTotals[id]
      BY <1>9, <2>4, <3>2
    <3>7. SumFunctionOnSet(f, set \ {a}) = seatTotals[id] - n
      BY ONLY <1>6, <3>3, <3>4, <3>6
    <3>8. QED BY <2>2, <3>1, <3>2, <3>5, <3>7
  <2>5. CASE x # id
    <3>1. InForce(x)' = InForce(x)
      BY <1>1, <1>6, <1>7, <2>5 DEF InForce
    <3>2. L!Get(seatTotals', x, 0) = L!Get(seatTotals, x, 0)
      BY <1>12, <2>5 DEF L!Get
    <3>3. QED BY <2>2, <2>3, <3>1, <3>2
  <2>6. QED BY <2>4, <2>5
<1>14. \A x \in DOMAIN allocations' : allocations'[x].license \in DOMAIN seatTotals'
  <2>1. \A x \in DOMAIN allocations : allocations'[x].license = allocations[x].license
    BY <1>1, <1>6, <1>7
  <2>2. QED BY <1>4, <1>7, <1>12, <2>1 DEF AllocatedInv
<1>15. \A x \in DOMAIN seatTotals' : seatTotals'[x] \in Nat /\ seatTotals'[x] <= seatLimits'[x]
  <2>1. seatTotals[id] - n \in Nat /\ seatTotals[id] - n <= seatLimits[id]
    BY <1>6, <1>8, <1>11
  <2>2. \A x \in DOMAIN seatTotals : seatTotals[x] \in Nat /\ seatTotals[x] <= seatLimits[x]
    BY <1>4 DEF AllocatedInv
  <2>3. QED BY <1>2, <1>12, <2>1, <2>2
<1>16. DOMAIN seatTotals' \subseteq DOMAIN seatLimits' /\ \A x \in DOMAIN seatLimits' : seatLimits'[x] \in Nat
  BY <1>2, <1>4, <1>12 DEF AllocatedInv
<1>17. AllocatedInv'
  BY <1>7, <1>13, <1>14, <1>15, <1>16 DEF AllocatedInv
<1>18. QED BY <1>3, <1>17, TakenSame, ListedSame DEF HoldingsInv

-----------------------------------------------------------------------------
(* The list of entitlements *)

Names(keys, pair) == \E p \in DOMAIN keys : keys[p] = pair

LEMMA AppendDistinct ==
  ASSUME NEW keys \in Seq(Pair), Distinct(keys), NEW pair \in Pair, ~Names(keys, pair)
  PROVE  /\ Append(keys, pair) \in Seq(Pair) /\ Distinct(Append(keys, pair))
         /\ \A q \in Pair : Names(Append(keys, pair), q) <=> q = pair \/ Names(keys, q)
<1>0. PICK n \in Nat : n = Len(keys) /\ DOMAIN keys = 1..n
  OBVIOUS
<1>1. PICK new : /\ new = Append(keys, pair) /\ DOMAIN new = 1..(n + 1)
                 /\ new \in Seq(Pair) /\ new[n + 1] = pair
                 /\ \A p \in 1..n : new[p] = keys[p]
  <2>1. /\ Append(keys, pair) \in Seq(Pair) /\ Len(Append(keys, pair)) = n + 1
        /\ Append(keys, pair)[n + 1] = pair
        /\ \A p \in 1..n : Append(keys, pair)[p] = keys[p]
    BY <1>0, AppendProperties
  <2>2. DOMAIN Append(keys, pair) = 1..(n + 1)
    BY <2>1
  <2>3. QED BY <2>1, <2>2
<1>2. n + 1 \in 1..(n + 1) /\ 1..n \subseteq 1..(n + 1) /\ \A p \in 1..(n + 1) : p \in 1..n \/ p = n + 1
  OBVIOUS
<1>3. \A q : Names(new, q) <=> q = pair \/ Names(keys, q)
  BY <1>0, <1>1, <1>2, Zenon DEF Names
<1>4. Distinct(new)
  <2>1. \A p, q \in 1..n : keys[p] = keys[q] => p = q
    BY <1>0, Zenon DEF Distinct
  <2>2. \A p \in 1..n : keys[p] # pair
    BY <1>0, Zenon DEF Names
  <2>3. ASSUME NEW p \in 1..(n + 1), NEW q \in 1..(n + 1), new[p] = new[q] PROVE p = q
    <3>1. CASE p \in 1..n /\ q \in 1..n
      BY <1>1, <2>1, <2>3, <3>1, Zenon
    <3>2. CASE p = n + 1
      BY <1>1, <1>2, <2>2, <2>3, <3>2, Zenon
    <3>3. CASE q = n + 1
      BY <1>1, <1>2, <2>2, <2>3, <3>3, Zenon
    <3>4. QED BY <1>2, <3>1, <3>2, <3>3, Zenon
  <2>4. QED BY <1>1, <2>3, Zenon DEF Distinct
<1>5. QED BY <1>1, <1>3, <1>4

LEMMA WithoutDistinct ==
  ASSUME NEW keys \in Seq(Pair), Distinct(keys), NEW pair \in Pair
  PROVE  /\ L!WithoutFirst(keys, pair) \in Seq(Pair) /\ Distinct(L!WithoutFirst(keys, pair))
         /\ \A q \in Pair : Names(L!WithoutFirst(keys, pair), q) <=> q # pair /\ Names(keys, q)
<1>1. CASE ~Names(keys, pair)
  <2>1. L!WithoutFirst(keys, pair) = keys
    BY <1>1 DEF L!WithoutFirst, Names
  <2>2. QED BY <1>1, <2>1
<1>2. CASE Names(keys, pair)
  <2>1. PICK n \in Nat : n = Len(keys) /\ DOMAIN keys = 1..n
    OBVIOUS
  <2>2. PICK at \in 1..n : keys[at] = pair
    BY <1>2, <2>1 DEF Names
  <2>3. \A p \in 1..n : keys[p] = pair => p = at
    BY <2>1, <2>2 DEF Distinct
  <2>4. (CHOOSE p \in DOMAIN keys :
             keys[p] = pair /\ \A q \in DOMAIN keys : keys[q] = pair => p <= q) = at
    <3>1. \A q \in DOMAIN keys : keys[q] = pair => at <= q
      BY <2>1, <2>2, <2>3
    <3>2. \E p \in DOMAIN keys : keys[p] = pair /\ \A q \in DOMAIN keys : keys[q] = pair => p <= q
      BY <2>1, <2>2, <3>1
    <3>3. QED BY <2>1, <2>3, <3>2
  <2>5. PICK new : new = [p \in 1..(n - 1) |-> IF p < at THEN keys[p] ELSE keys[p + 1]]
    OBVIOUS
  <2>6. L!WithoutFirst(keys, pair) = new
    BY <1>2, <2>1, <2>4, <2>5 DEF L!WithoutFirst, Names
  <2>7. /\ n - 1 \in Nat /\ \A p \in 1..(n - 1) : p \in 1..n /\ p + 1 \in 1..n
        /\ \A p \in 1..n : p < at => p \in 1..(n - 1)
        /\ \A p \in 1..n : p > at => p - 1 \in 1..(n - 1) /\ ~(p - 1 < at) /\ (p - 1) + 1 = p
    BY ONLY <2>2, n \in Nat
  <2>8. /\ DOMAIN new = 1..(n - 1)
        /\ \A p \in 1..(n - 1) : new[p] = IF p < at THEN keys[p] ELSE keys[p + 1]
    BY <2>5
  <2>9. \A p \in 1..n : keys[p] \in Pair
    BY <2>1
  <2>10. new \in Seq(Pair)
    BY <2>5, <2>7, <2>9
  <2>11. Distinct(new)
    <3>1. ASSUME NEW p \in 1..(n - 1), NEW q \in 1..(n - 1), new[p] = new[q] PROVE p = q
      <4>1. PICK u \in 1..n, v \in 1..n : /\ u = (IF p < at THEN p ELSE p + 1)
                                         /\ v = (IF q < at THEN q ELSE q + 1)
        BY <2>7
      <4>2. keys[u] = keys[v]
        BY <2>8, <3>1, <4>1
      <4>3. u = v
        BY <2>1, <4>2 DEF Distinct
      <4>4. QED BY ONLY <2>2, <4>1, <4>3, p \in 1..(n - 1), q \in 1..(n - 1), n \in Nat
    <3>2. QED BY <2>8, <3>1 DEF Distinct
  <2>12. ASSUME NEW q PROVE Names(new, q) <=> q # pair /\ Names(keys, q)
    <3>1. ASSUME NEW p \in 1..(n - 1), new[p] = q PROVE q # pair /\ Names(keys, q)
      <4>1. PICK u \in 1..n : u = (IF p < at THEN p ELSE p + 1)
        BY <2>7
      <4>2. keys[u] = q
        BY <2>8, <3>1, <4>1
      <4>3. u # at
        BY ONLY <2>2, <4>1, p \in 1..(n - 1), n \in Nat
      <4>4. QED BY <2>1, <2>3, <4>2, <4>3 DEF Names
    <3>2. ASSUME q # pair, NEW p \in 1..n, keys[p] = q PROVE Names(new, q)
      <4>1. p # at
        BY <2>2, <3>2
      <4>2. CASE p < at
        BY <2>7, <2>8, <3>2, <4>2 DEF Names
      <4>3. CASE p > at
        <5>1. new[p - 1] = keys[p] /\ p - 1 \in 1..(n - 1)
          BY <2>7, <2>8, <4>3
        <5>2. QED BY <2>8, <3>2, <5>1 DEF Names
      <4>4. QED BY ONLY <4>1, <4>2, <4>3, <2>2, p \in 1..n, n \in Nat
    <3>3. QED BY <2>1, <2>8, <3>1, <3>2 DEF Names
  <2>13. QED BY <2>6, <2>10, <2>11, <2>12
<1>3. QED BY <1>1, <1>2

LEMMA HoldEntitlement ==
  ASSUME HoldingsInv, NEW id \in Nat, NEW rendition \in Renditions, NEW mode \in AccessModes,
         L!GrantEntitlement(id, rendition, mode) \/ L!RevokeEntitlement(id, rendition, mode)
  PROVE  HoldingsInv'
<1>1. PICK pair \in Pair, entry \in {<<id, rendition, mode>>} :
              pair = <<rendition, mode>> /\ entry = <<id, rendition, mode>>
  BY DEF Pair
<1>2. UNCHANGED <<licenses, allocations, seatTotals, seatLimits>>
  BY DEF L!GrantEntitlement, L!RevokeEntitlement, L!licenseCore, L!seatSide
<1>3. ListedInv
  BY DEF HoldingsInv
<1>4. PICK keys : keys = L!KeysOf(id)
  OBVIOUS
<1>5. /\ keys \in Seq(Pair) /\ Distinct(keys)
      /\ \A q \in Pair : <<id, q[1], q[2]>> \in entitlements <=> Names(keys, q)
  BY <1>3, <1>4, Zenon DEF ListedInv, Listed, Names
<1>6. PICK new : /\ new \in Seq(Pair) /\ Distinct(new)
                 /\ entitlementKeys' = L!Set(entitlementKeys, id, new)
                 /\ \/ /\ entitlements' = entitlements \cup {entry}
                       /\ \A q \in Pair : Names(new, q) <=> q = pair \/ Names(keys, q)
                    \/ /\ entitlements' = entitlements \ {entry}
                       /\ \A q \in Pair : Names(new, q) <=> q # pair /\ Names(keys, q)
  <2>1. CASE L!GrantEntitlement(id, rendition, mode)
    <3>1. /\ entry \notin entitlements /\ entitlements' = entitlements \cup {entry}
          /\ entitlementKeys' = L!Set(entitlementKeys, id, Append(keys, pair))
      BY <1>1, <1>4, <2>1 DEF L!GrantEntitlement
    <3>2. ~Names(keys, pair)
      BY <1>1, <1>5, <3>1
    <3>3. QED BY <1>5, <3>1, <3>2, AppendDistinct
  <2>2. CASE L!RevokeEntitlement(id, rendition, mode)
    <3>1. /\ entitlements' = entitlements \ {entry}
          /\ entitlementKeys' = L!Set(entitlementKeys, id, L!WithoutFirst(keys, pair))
      BY <1>1, <1>4, <2>2 DEF L!RevokeEntitlement
    <3>2. QED BY <1>5, <3>1, WithoutDistinct
  <2>3. QED BY <2>1, <2>2
<1>7. entitlements' \subseteq Nat \X Renditions \X AccessModes
  <2>1. entitlements \subseteq Nat \X Renditions \X AccessModes
    BY <1>3 DEF ListedInv
  <2>2. entry \in Nat \X Renditions \X AccessModes
    BY <1>1
  <2>3. QED BY <1>6, <2>1, <2>2
<1>8. ASSUME NEW x \in Nat PROVE Listed(x)'
  <2>1. CASE x = id
    <3>1. L!KeysOf(x)' = new
      BY <1>6, <2>1 DEF L!KeysOf, L!Get, L!Set
    <3>2. \A q \in Pair : <<id, q[1], q[2]>> = entry <=> q = pair
      BY <1>1 DEF Pair
    <3>3. \A q \in Pair : <<id, q[1], q[2]>> \in entitlements' <=> Names(new, q)
      BY <1>5, <1>6, <3>2
    <3>4. QED BY <1>6, <2>1, <3>1, <3>3, Zenon DEF Listed, Names
  <2>2. CASE x # id
    <3>1. L!KeysOf(x)' = L!KeysOf(x)
      BY <1>6, <2>2 DEF L!KeysOf, L!Get, L!Set
    <3>2. \A q : <<x, q[1], q[2]>> \in entitlements' <=> <<x, q[1], q[2]>> \in entitlements
      BY <1>1, <1>6, <2>2
    <3>3. Listed(x)
      BY <1>3 DEF ListedInv
    <3>4. QED BY <3>1, <3>2, <3>3, Zenon DEF Listed
  <2>3. QED BY <2>1, <2>2
<1>9. ListedInv'
  BY <1>7, <1>8 DEF ListedInv
<1>10. QED BY <1>2, <1>9, TakenSame, AllocatedSame DEF HoldingsInv

LEMMA HoldingsStep ==
  ASSUME HoldingsInv, LicensingInv,
         \/ L!LicenseNext \/ L!AccessNext \/ L!ReaderNext
         \/ L!MigrationNext \/ L!HoldingsNext \/ L!OfferNext
  PROVE  HoldingsInv'
<1>1. CASE L!AccessNext
  <2>1. UNCHANGED <<licenses, L!licenseSide, L!seatSide>>
    BY <1>1, Zenon DEF L!AccessNext, L!RecordEnrollment, L!DeriveAccessGrant
  <2>2. UNCHANGED <<licenses, allocations, seatTotals, seatLimits, entitlements, entitlementKeys>>
    BY <2>1 DEF L!licenseSide, L!seatSide
  <2>3. QED BY <2>2, HoldingsElsewhere
<1>2. CASE L!ReaderNext
  <2>1. UNCHANGED <<L!licenseCore, L!licenseSide, L!seatSide>>
    BY <1>2, Zenon DEF L!ReaderNext, L!CreateReaderSession, L!CreateOfflineGrant,
       L!ConsumeOfflineGrant
  <2>2. UNCHANGED <<licenses, allocations, seatTotals, seatLimits, entitlements, entitlementKeys>>
    BY <2>1 DEF L!licenseCore, L!licenseSide, L!seatSide
  <2>3. QED BY <2>2, HoldingsElsewhere
<1>3. CASE L!MigrationNext
  <2>1. UNCHANGED <<L!licenseCore, entitlements, entitlementKeys, L!seatSide>>
    BY <1>3, Zenon DEF L!MigrationNext, L!ProposeRenditionMigration, L!AcceptRenditionMigration
  <2>2. UNCHANGED <<licenses, allocations, seatTotals, seatLimits, entitlements, entitlementKeys>>
    BY <2>1 DEF L!licenseCore, L!seatSide
  <2>3. QED BY <2>2, HoldingsElsewhere
<1>4. CASE L!HoldingsNext
  <2>1. DOMAIN licenses \subseteq Nat
    BY DEF LicensingInv, Numbered
  <2>2. SeatCounts \subseteq Nat
    BY Zenon, PlatformConstants
  <2>3. ASSUME NEW id \in DOMAIN licenses
        PROVE  /\ L!AllocateSeat(id) \/ L!ReleaseSeat(id) => HoldingsInv'
               /\ \A n \in SeatCounts :
                      L!SetAllocationLimit(id, n) \/ L!AllocateSeats(id, n) => HoldingsInv'
               /\ \A rendition \in Renditions, mode \in AccessModes :
                      L!GrantEntitlement(id, rendition, mode)
                          \/ L!RevokeEntitlement(id, rendition, mode) => HoldingsInv'
    <3>1. id \in Nat
      BY <2>1
    <3>2. ASSUME NEW n \in SeatCounts, L!SetAllocationLimit(id, n) \/ L!AllocateSeats(id, n)
          PROVE  HoldingsInv'
      BY <2>2, <3>1, <3>2, HoldLimit, HoldAllocate
    <3>3. ASSUME L!AllocateSeat(id) \/ L!ReleaseSeat(id) PROVE HoldingsInv'
      BY <3>3, HoldSeat
    <3>4. ASSUME NEW rendition \in Renditions, NEW mode \in AccessModes,
                 L!GrantEntitlement(id, rendition, mode) \/ L!RevokeEntitlement(id, rendition, mode)
          PROVE  HoldingsInv'
      BY <3>1, <3>4, HoldEntitlement
    <3>5. QED BY <3>2, <3>3, <3>4, Zenon
  <2>4. QED BY <1>4, <2>3, HoldRevoke, Zenon DEF L!HoldingsNext
<1>5. QED BY <1>1, <1>2, <1>3, <1>4, TakenLicense, TakenOffer

LEMMA HoldingsGood == ASSUME HoldingsInv, LicensingInv PROVE L!HoldingsExact
<1>1. ASSUME NEW id \in DOMAIN licenses, NEW inForce,
             inForce = {a \in DOMAIN allocations :
                            allocations[a].active /\ allocations[a].license = id}
      PROVE  /\ licenses[id].taken <= licenses[id].seats
             /\ L!Get(seatTotals, id, 0) =
                    L!SumFunctionOnSet([a \in DOMAIN allocations |-> allocations[a].seats], inForce)
             /\ L!Has(seatTotals, id) => seatTotals[id] <= seatLimits[id]
  <2>1. id \in Nat
    BY DEF LicensingInv, Numbered
  <2>2. licenses[id].taken <= licenses[id].seats
    BY DEF HoldingsInv, TakenInv
  <2>3. L!Get(seatTotals, id, 0) = SumFunctionOnSet(SeatsOf, InForce(id))
    BY <2>1 DEF HoldingsInv, AllocatedInv
  <2>4. L!Has(seatTotals, id) => seatTotals[id] <= seatLimits[id]
    BY DEF HoldingsInv, AllocatedInv, L!Has
  <2>5. inForce = InForce(id)
    BY <1>1 DEF InForce
  <2>6. L!SumFunctionOnSet([a \in DOMAIN allocations |-> allocations[a].seats], inForce)
            = SumFunctionOnSet(SeatsOf, InForce(id))
    BY <2>5 DEF SeatsOf, L!SumFunctionOnSet, L!FoldFunctionOnSet, L!MapThenFoldSet,
       SumFunctionOnSet, FoldFunctionOnSet, MapThenFoldSet
  <2>7. QED BY <2>2, <2>3, <2>4, <2>6
<1>2. ASSUME NEW id \in DOMAIN licenses
      PROVE  /\ {<<id, L!KeysOf(id)[k][1], L!KeysOf(id)[k][2]>> : k \in DOMAIN L!KeysOf(id)}
                    = {e \in entitlements : e[1] = id}
             /\ Len(L!KeysOf(id)) = L!Cardinality({e \in entitlements : e[1] = id})
  <2>1. id \in Nat
    BY DEF LicensingInv, Numbered
  <2>2. PICK keys, E : keys = L!KeysOf(id) /\ E = {e \in entitlements : e[1] = id}
    OBVIOUS
  <2>3. /\ keys \in Seq(Pair) /\ Distinct(keys)
        /\ \A q \in Pair : <<id, q[1], q[2]>> \in entitlements <=> Names(keys, q)
    BY <2>1, <2>2, Zenon DEF HoldingsInv, ListedInv, Listed, Names
  <2>4. PICK n \in Nat : n = Len(keys) /\ DOMAIN keys = 1..n
    BY <2>3
  <2>5. PICK f : f = [k \in 1..n |-> <<id, keys[k][1], keys[k][2]>>]
    OBVIOUS
  <2>6. \A k \in 1..n : keys[k] \in Pair
    BY <2>3, <2>4
  <2>7. \A k \in 1..n : f[k] \in E
    <3>1. ASSUME NEW k \in 1..n PROVE f[k] \in E
      <4>1. <<id, keys[k][1], keys[k][2]>> \in entitlements
        BY <2>3, <2>4, <2>6 DEF Names
      <4>2. QED BY <2>2, <2>5, <4>1
    <3>2. QED BY <3>1
  <2>8. ASSUME NEW e \in E PROVE \E k \in 1..n : f[k] = e
    <3>1. e \in Nat \X Renditions \X AccessModes /\ e \in entitlements /\ e[1] = id
      BY <2>2 DEF HoldingsInv, ListedInv
    <3>2. PICK q \in Pair : e = <<id, q[1], q[2]>>
      <4>1. PICK r \in Renditions, m \in AccessModes : e = <<id, r, m>>
        BY <3>1
      <4>2. <<r, m>> \in Pair
        BY DEF Pair
      <4>3. e = <<id, <<r, m>>[1], <<r, m>>[2]>>
        BY <4>1
      <4>4. QED BY <4>2, <4>3
    <3>3. PICK k \in 1..n : keys[k] = q
      BY <2>3, <2>4, <3>1, <3>2 DEF Names
    <3>4. QED BY <2>5, <3>2, <3>3
  <2>9. ASSUME NEW j \in 1..n, NEW k \in 1..n, f[j] = f[k] PROVE j = k
    <3>1. keys[j][1] = keys[k][1] /\ keys[j][2] = keys[k][2]
      BY <2>5, <2>9
    <3>2. keys[j] = keys[k]
      BY <2>6, <3>1 DEF Pair
    <3>3. QED BY <2>3, <2>4, <3>2 DEF Distinct
  <2>10. f \in Bijection(1..n, E)
    <3>1. f \in [1..n -> E]
      BY <2>5, <2>7
    <3>2. f \in Injection(1..n, E)
      BY <2>9, <3>1 DEF Injection, IsInjective
    <3>3. f \in Surjection(1..n, E)
      BY <2>8, <3>1 DEF Surjection
    <3>4. QED BY <3>2, <3>3 DEF Bijection
  <2>11. Cardinality(E) = n
    <3>1. IsFiniteSet(1..n) /\ Cardinality(1..n) = n
      BY FS_Interval
    <3>2. f \in Surjection(1..n, E) /\ f \in Injection(1..n, E)
      BY <2>10 DEF Bijection
    <3>3. QED BY <3>1, <3>2, FS_Surjection
  <2>12. {<<id, keys[k][1], keys[k][2]>> : k \in DOMAIN keys} = E
    <3>1. \A k \in DOMAIN keys : <<id, keys[k][1], keys[k][2]>> \in E
      BY <2>4, <2>5, <2>7
    <3>2. \A e \in E : \E k \in DOMAIN keys : e = <<id, keys[k][1], keys[k][2]>>
      BY <2>4, <2>5, <2>8
    <3>3. QED BY <3>1, <3>2, Zenon
  <2>13. L!Cardinality(E) = Cardinality(E)
    BY Zenon DEF L!Cardinality, Cardinality
  <2>14. QED BY <2>2, <2>4, <2>11, <2>12, <2>13
<1>3. QED BY <1>1, <1>2, Zenon DEF L!HoldingsExact

-----------------------------------------------------------------------------
(* All parts together *)

PlatformInv ==
    /\ LicensingInv /\ AccountsInv /\ KeysInv /\ BucketsInv /\ RulesInv /\ CertificatesInv
    /\ RunsInv /\ LegacyInv

\* The action properties, for one step.
StepStands ==
    /\ LicensingStands /\ AccountsStand /\ GuardsStand /\ CertificatesStand /\ MigrationStands

LEMMA PlatformInitial == Init => PlatformInv
<1> SUFFICES ASSUME Init PROVE PlatformInv
  OBVIOUS
<1>1. now = 1 /\ L!Init /\ P!Init /\ G!Init /\ S!Init /\ C!Init
  BY DEF Init
<1>2. QED
  BY <1>1, LicensingInitial, AccountsInitial, GuardsInitial, MigrationInitial, RulesInitial,
     CertificatesInitial DEF PlatformInv

\* A step is one of a single part, or of the clock, and the other parts stutter.
LEMMA OnePartMoves ==
  ASSUME now \in Nat, [Next]_vars
  PROVE  /\ now' \in Nat
         /\ \/ /\ \/ L!LicenseNext \/ L!AccessNext \/ L!ReaderNext
                  \/ L!MigrationNext \/ L!HoldingsNext \/ L!OfferNext
               /\ now' = now
            \/ UNCHANGED licensingVars
         /\ P!FineNext \/ P!LedgerNext \/ P!DepositNext \/ P!DamageNext \/ UNCHANGED accountVars
         /\ G!KeyNext \/ G!LimitNext \/ UNCHANGED guardVars
         /\ S!TypeNext \/ S!CriterionNext \/ UNCHANGED eligibilityVars
         /\ C!MintNext \/ C!RoleNext \/ UNCHANGED certificateVars
         /\ G!MigrationNext \/ UNCHANGED migrationVars
<1>1. ASSUME UNCHANGED now PROVE now' \in Nat
  BY <1>1
<1>2. CASE UNCHANGED vars
  <2>1. UNCHANGED <<now, licensingVars, accountVars, guardVars, eligibilityVars,
                    certificateVars, migrationVars>>
    BY <1>2, Zenon DEF vars
  <2>2. QED BY <1>1, <2>1
<1>3. CASE Tick
  <2>1. now' = now + 1
    BY <1>3 DEF Tick
  <2>2. UNCHANGED <<licensingVars, accountVars, guardVars, eligibilityVars, certificateVars,
                    migrationVars>>
    BY <1>3, Zenon DEF Tick
  <2>3. QED BY <2>1, <2>2
<1>4. CASE /\ \/ L!LicenseNext \/ L!AccessNext \/ L!ReaderNext
              \/ L!MigrationNext \/ L!HoldingsNext \/ L!OfferNext
           /\ UNCHANGED <<now, accountVars, guardVars, eligibilityVars, certificateVars,
                          migrationVars>>
  BY <1>1, <1>4
<1>5. CASE /\ P!FineNext \/ P!LedgerNext \/ P!DepositNext \/ P!DamageNext
           /\ UNCHANGED <<now, licensingVars, guardVars, eligibilityVars, certificateVars,
                          migrationVars>>
  BY <1>1, <1>5
<1>6. CASE UNCHANGED <<now, licensingVars, accountVars, guardVars, eligibilityVars,
                       certificateVars, migrationVars>>
  BY <1>1, <1>6
<1>7. CASE /\ G!KeyNext \/ G!LimitNext
           /\ UNCHANGED <<licensingVars, accountVars, eligibilityVars, certificateVars,
                          migrationVars>>
  <2>1. UNCHANGED now
    BY <1>7, Zenon DEF G!KeyNext, G!LimitNext
  <2>2. QED BY <1>1, <1>7, <2>1
<1>8. CASE /\ S!TypeNext \/ S!CriterionNext
           /\ UNCHANGED <<licensingVars, accountVars, guardVars, certificateVars, migrationVars>>
  <2>1. UNCHANGED now
    BY <1>8, Zenon DEF S!TypeNext, S!CriterionNext
  <2>2. QED BY <1>1, <1>8, <2>1
<1>9. CASE /\ C!MintNext \/ C!RoleNext
           /\ UNCHANGED <<licensingVars, accountVars, guardVars, eligibilityVars, migrationVars>>
  <2>1. UNCHANGED now
    BY <1>9, Zenon DEF C!MintNext, C!RoleNext
  <2>2. QED BY <1>1, <1>9, <2>1
<1>10. CASE /\ G!MigrationNext
            /\ UNCHANGED <<now, licensingVars, accountVars, guardVars, eligibilityVars,
                           certificateVars>>
  BY <1>1, <1>10
<1>11. T!VaultNext \/ T!RoyaltyNext \/ T!PaymentNext \/ S!ReviewNext => UNCHANGED now
  <2>1. T!VaultNext => UNCHANGED now
    BY DEF T!VaultNext
  <2>2. T!RoyaltyNext => UNCHANGED now
    BY DEF T!RoyaltyNext
  <2>3. T!PaymentNext => UNCHANGED now
    BY DEF T!PaymentNext
  <2>4. S!ReviewNext => UNCHANGED now
    BY DEF S!ReviewNext
  <2>5. QED BY <2>1, <2>2, <2>3, <2>4
<1>12. ASSUME Next
       PROVE  \/ Tick
              \/ /\ \/ L!LicenseNext \/ L!AccessNext \/ L!ReaderNext
                    \/ L!MigrationNext \/ L!HoldingsNext \/ L!OfferNext
                 /\ UNCHANGED <<now, accountVars, guardVars, eligibilityVars, certificateVars,
                                migrationVars>>
              \/ /\ P!FineNext \/ P!LedgerNext \/ P!DepositNext \/ P!DamageNext
                 /\ UNCHANGED <<now, licensingVars, guardVars, eligibilityVars,
                                certificateVars, migrationVars>>
              \/ UNCHANGED <<now, licensingVars, accountVars, guardVars, eligibilityVars,
                             certificateVars, migrationVars>>
              \/ /\ G!KeyNext \/ G!LimitNext
                 /\ UNCHANGED <<licensingVars, accountVars, eligibilityVars, certificateVars,
                                migrationVars>>
              \/ /\ S!TypeNext \/ S!CriterionNext
                 /\ UNCHANGED <<licensingVars, accountVars, guardVars, certificateVars,
                                migrationVars>>
              \/ /\ C!MintNext \/ C!RoleNext
                 /\ UNCHANGED <<licensingVars, accountVars, guardVars, eligibilityVars,
                                migrationVars>>
              \/ /\ G!MigrationNext
                 /\ UNCHANGED <<now, licensingVars, accountVars, guardVars, eligibilityVars,
                                certificateVars>>
  BY <1>11, <1>12 DEF Next
<1>13. QED BY <1>2, <1>3, <1>4, <1>5, <1>6, <1>7, <1>8, <1>9, <1>10, <1>12, Zenon

LEMMA PlatformStep ==
  ASSUME PlatformInv, [Next]_vars PROVE PlatformInv' /\ StepStands
<1>1. now \in Nat /\ now' \in Nat
  BY OnePartMoves DEF PlatformInv, LicensingInv
<1>2. LicensingInv' /\ LicensingStands
  <2>1. ASSUME UNCHANGED licensingVars PROVE LicensingInv' /\ LicensingStands
    <3>1. UNCHANGED <<licenses, offers, grants, readers, offline, usedProofs>>
      BY <2>1 DEF licensingVars
    <3>2. UNCHANGED L!licensingVars
      BY <2>1 DEF licensingVars, L!licensingVars, L!licenseCore, L!licenseSide, L!seatSide,
         L!otherSide
    <3>3. LicensingInv'
      BY <1>1, <3>1 DEF PlatformInv, LicensingInv, DerivedInv
    <3>4. QED BY <3>2, <3>3 DEF LicensingStands
  <2>2. QED BY <1>1, <2>1, OnePartMoves, LicensingStep DEF PlatformInv
<1>3. AccountsInv' /\ AccountsStand
  <2>1. ASSUME UNCHANGED accountVars PROVE AccountsInv' /\ AccountsStand
    <3>1. UNCHANGED <<fines, loanDebt, damages>>
      BY <2>1 DEF accountVars
    <3>2. QED BY <3>1, AccountsElsewhere DEF PlatformInv, AccountsStand
  <2>2. QED BY <1>1, <2>1, OnePartMoves, AccountsStep DEF PlatformInv
<1>4. KeysInv' /\ BucketsInv' /\ GuardsStand
  <2>1. ASSUME UNCHANGED guardVars PROVE KeysInv' /\ BucketsInv' /\ GuardsStand
    <3>1. records' = records /\ pendingOf' = pendingOf
      BY <2>1 DEF guardVars
    <3>2. buckets' = buckets /\ bucketCount' = bucketCount
      BY <2>1 DEF guardVars
    <3>3. UNCHANGED G!keyVars
      BY <3>1 DEF G!keyVars
    <3>4. \A p : Pending(p)' = Pending(p)
      BY <3>1 DEF Pending
    <3>5. KeysInv'
      BY <3>1, <3>4 DEF PlatformInv, KeysInv
    <3>6. BucketsInv'
      BY <3>2 DEF PlatformInv, BucketsInv
    <3>7. QED BY <3>3, <3>5, <3>6 DEF GuardsStand
  <2>2. QED BY <1>1, <2>1, OnePartMoves, GuardsStep DEF PlatformInv
<1>5. RulesInv'
  <2>1. ASSUME UNCHANGED eligibilityVars PROVE RulesInv'
    BY <2>1 DEF PlatformInv, eligibilityVars, RulesInv
  <2>2. QED BY <1>1, <2>1, OnePartMoves, ScreeningStep DEF PlatformInv
<1>6. CertificatesInv' /\ CertificatesStand
  <2>1. ASSUME UNCHANGED certificateVars PROVE CertificatesInv' /\ CertificatesStand
    <3>1. UNCHANGED C!certificateVars
      BY <2>1 DEF certificateVars, C!certificateVars, C!roleVars, C!tokenVars
    <3>2. CertificatesInv'
      BY <2>1 DEF PlatformInv, CertificatesInv, certificateVars, C!TokenIdsUnique,
         C!NonceMintsOnce
    <3>3. QED BY <3>1, <3>2 DEF CertificatesStand
  <2>2. QED BY <1>1, <2>1, OnePartMoves, CertificatesStep DEF PlatformInv
<1>7. RunsInv' /\ LegacyInv' /\ MigrationStands
  <2>1. ASSUME UNCHANGED migrationVars PROVE RunsInv' /\ LegacyInv' /\ MigrationStands
    <3>1. UNCHANGED <<runs, openRuns, legacy, tracked, unmapped, reported>>
      BY <2>1 DEF migrationVars
    <3>2. UNCHANGED G!migrationVars
      BY <3>1 DEF G!migrationVars
    <3>3. OpenRuns' = OpenRuns /\ Tracked' = Tracked /\ MappedTotal' = MappedTotal
      BY <3>1 DEF OpenRuns, Tracked, MappedTotal, MappedBy
    <3>4. \A x : RunExact(x)' <=> RunExact(x)
      BY <3>1 DEF RunExact, Total, Kept
    <3>5. RunsInv' /\ LegacyInv'
      BY <3>1, <3>3, <3>4 DEF PlatformInv, RunsInv, LegacyInv
    <3>6. QED BY <3>2, <3>5 DEF MigrationStands
  <2>2. QED BY <1>1, <2>1, OnePartMoves, MigrationStep DEF PlatformInv
<1>8. QED BY <1>2, <1>3, <1>4, <1>5, <1>6, <1>7 DEF PlatformInv, StepStands

\* The inductive invariant of the licenses, accounts, guards, eligibility rules, certificates
\* and migrations, for any people, works, keys, inputs, limits and clock.
THEOREM PlatformInvariant == Spec => []PlatformInv
<1>1. Init => PlatformInv
  BY PlatformInitial
<1>2. PlatformInv /\ [Next]_vars => PlatformInv'
  BY PlatformStep
<1>3. QED BY <1>1, <1>2, PTL DEF Spec

\* Access ends with the license and grant it was derived from, and each grant used a proof of
\* its own; places and buckets are counted as they are taken; a migration's numbers are those
\* of the records it mapped; a rule asks for no criterion twice; and no proof mints two
\* certificates (derive_access_grant, create_key, map_record, mint_certificate).
THEOREM PlatformNothingUsedTwice == Spec => []NothingUsedTwice
<1>1. PlatformInv => NothingUsedTwice
  BY LicensingWithin, GuardsCounted, MigrationCounted, EvidenceLive, RulesGood
     DEF PlatformInv, CertificatesInv, NothingUsedTwice
<1>2. QED BY <1>1, PlatformInvariant, PTL

\* No step adds anything under a revoked license, raises a debt over the cap, charges resolved
\* damage, changes the outcome of a key, moves a certificate or takes a role without an open
\* proposal, rewrites a migrated record or moves a cursor back.
THEOREM PlatformSettledStands == Spec => SettledStands
<1>1. PlatformInv /\ [Next]_vars => StepStands
  BY PlatformStep
<1>2. Spec => L!RevocationCuts
  <2>1. StepStands => [LicenseCuts]_(L!licensingVars)
    BY DEF StepStands, LicensingStands
  <2>2. Spec => [][LicenseCuts]_(L!licensingVars)
    BY <1>1, <2>1, PlatformInvariant, PTL DEF Spec
  <2>3. QED BY <2>2, PTL DEF L!RevocationCuts, LicenseCuts
<1>3. Spec => P!CapOnGrowth /\ P!ChargedOnce
  <2>1. StepStands => [WithinCap]_(P!accountVars) /\ [ChargesStand]_(P!accountVars)
    BY DEF StepStands, AccountsStand
  <2>2. Spec => [][WithinCap]_(P!accountVars) /\ [][ChargesStand]_(P!accountVars)
    BY <1>1, <2>1, PlatformInvariant, PTL DEF Spec
  <2>3. QED BY <2>2, PTL DEF P!CapOnGrowth, P!ChargedOnce, WithinCap, ChargesStand
<1>4. Spec => G!OneOutcomePerKey
  <2>1. StepStands => [OutcomesKept]_(G!keyVars)
    BY DEF StepStands, GuardsStand
  <2>2. Spec => [][OutcomesKept]_(G!keyVars)
    BY <1>1, <2>1, PlatformInvariant, PTL DEF Spec
  <2>3. QED BY <2>2, PTL DEF G!OneOutcomePerKey, OutcomesKept
<1>5. Spec => C!RolesChangeByProposal
  <2>1. StepStands => [CertificatesKept /\ RolesProposed]_(C!certificateVars)
    BY DEF StepStands, CertificatesStand
  <2>2. Spec => [][CertificatesKept /\ RolesProposed]_(C!certificateVars)
    BY <1>1, <2>1, PlatformInvariant, PTL DEF Spec
  <2>3. QED BY <2>2, PTL DEF C!RolesChangeByProposal, CertificatesKept, RolesProposed
<1>6. Spec => G!HistoryKept
  <2>1. StepStands => [LegacyKept /\ RunsKept]_(G!migrationVars)
    BY DEF StepStands, MigrationStands
  <2>2. Spec => [][LegacyKept /\ RunsKept]_(G!migrationVars)
    BY <1>1, <2>1, PlatformInvariant, PTL DEF Spec
  <2>3. QED BY <2>2, PTL DEF G!HistoryKept, LegacyKept, RunsKept
<1>7. QED BY <1>2, <1>3, <1>4, <1>5, <1>6 DEF SettledStands

-----------------------------------------------------------------------------
(* All sums together *)

SumsInv ==
    /\ VaultsInv /\ RoyaltyInv /\ EarningsInv
    /\ DebtsInv /\ LedgerInv /\ HeldInv
    /\ BooksInv /\ RefundsInv
    /\ SupplyInv /\ VestingInv
    /\ HoldingsInv /\ ReviewsInv

LEMMA SumsInitial == Init => SumsInv
<1> SUFFICES ASSUME Init PROVE SumsInv
  OBVIOUS
<1>1. L!Init /\ P!Init /\ F!Init /\ T!Init /\ S!Init /\ K!Init
  BY DEF Init
<1>2. VaultsInv /\ RoyaltyInv /\ EarningsInv
  BY ONLY <1>1, VaultsInitial, RoyaltyInitial, EarningsInitial
<1>3. DebtsInv /\ LedgerInv /\ HeldInv
  BY ONLY <1>1, DebtsInitial, LedgerInitial, HeldInitial
<1>4. BooksInv /\ RefundsInv /\ SupplyInv /\ VestingInv
  BY ONLY <1>1, BooksInitial, RefundsInitial, SupplyInitial, VestingInitial
<1>5. HoldingsInv /\ ReviewsInv
  BY ONLY <1>1, HoldingsInitial, ReviewsInitial
<1>6. QED BY <1>2, <1>3, <1>4, <1>5 DEF SumsInv

\* The second half of OnePartMoves: the parts whose books are kept in sums.
LEMMA OneBookMoves ==
  ASSUME [Next]_vars
  PROVE  /\ \/ L!LicenseNext \/ L!AccessNext \/ L!ReaderNext
            \/ L!MigrationNext \/ L!HoldingsNext \/ L!OfferNext \/ UNCHANGED licensingVars
         /\ P!FineNext \/ P!LedgerNext \/ P!DepositNext \/ P!DamageNext \/ UNCHANGED accountVars
         /\ F!LedgerNext \/ F!ReturnNext \/ UNCHANGED financeVars
         /\ T!VaultNext \/ T!RoyaltyNext \/ T!PaymentNext \/ UNCHANGED treasuryVars
         /\ S!ReviewNext \/ UNCHANGED reviewVars
         /\ K!TokenNext \/ UNCHANGED tokenVars
         /\ K!VestingNext \/ UNCHANGED vestingVars
<1>1. CASE UNCHANGED vars
  BY <1>1, Zenon DEF vars
<1>2. CASE Next
  BY <1>2, Zenon DEF Next, Tick
<1>3. QED BY <1>1, <1>2

LEMMA TreasuryStep ==
  ASSUME VaultsInv, RoyaltyInv, EarningsInv,
         T!VaultNext \/ T!RoyaltyNext \/ T!PaymentNext \/ UNCHANGED treasuryVars
  PROVE  VaultsInv' /\ RoyaltyInv' /\ EarningsInv'
<1>1. UNCHANGED T!vaultVars => VaultsInv'
  BY VaultsElsewhere DEF T!vaultVars
<1>2. UNCHANGED T!royaltyVars => RoyaltyInv'
  BY RoyaltyElsewhere DEF T!royaltyVars
<1>3. UNCHANGED T!paymentVars => EarningsInv'
  BY EarningsElsewhere
<1>4. CASE UNCHANGED treasuryVars
  <2>1. UNCHANGED T!vaultVars /\ UNCHANGED T!royaltyVars /\ UNCHANGED T!paymentVars
    BY <1>4 DEF treasuryVars, T!vaultVars, T!royaltyVars, T!paymentVars
  <2>2. QED BY <1>1, <1>2, <1>3, <2>1
<1>5. CASE T!VaultNext
  <2>1. UNCHANGED T!royaltyVars /\ UNCHANGED T!paymentVars
    BY <1>5, Zenon DEF T!VaultNext, T!CreateVault, T!ApproveVault, T!RevokeApproval,
       T!EmergencyCancel
  <2>2. QED BY <1>2, <1>3, <1>5, <2>1, VaultsStep
<1>6. CASE T!RoyaltyNext
  <2>1. UNCHANGED T!vaultVars /\ UNCHANGED T!paymentVars
    BY <1>6, Zenon DEF T!RoyaltyNext, T!CreateManifest, T!Distribute, T!Withdraw
  <2>2. QED BY <1>1, <1>3, <1>6, <2>1, RoyaltyStep
<1>7. CASE T!PaymentNext
  <2>1. UNCHANGED T!vaultVars /\ UNCHANGED T!royaltyVars
    BY <1>7, Zenon DEF T!PaymentNext, T!SetFee, T!PayForCourse, T!Refund, T!WithdrawEarnings
  <2>2. QED BY <1>1, <1>2, <1>7, <2>1, EarningsStep
<1>8. QED BY <1>4, <1>5, <1>6, <1>7

LEMMA OwedStep ==
  ASSUME AccountsInv, DebtsInv, LedgerInv, HeldInv,
         P!FineNext \/ P!LedgerNext \/ P!DepositNext \/ P!DamageNext \/ UNCHANGED accountVars
  PROVE  DebtsInv' /\ LedgerInv' /\ HeldInv'
<1>1. UNCHANGED P!fineVars => DebtsInv'
  BY DebtsElsewhere DEF P!fineVars
<1>2. UNCHANGED P!ledgerVars => LedgerInv'
  BY LedgerElsewhere DEF P!ledgerVars
<1>3. UNCHANGED <<deposits, vault>> => HeldInv'
  BY HeldElsewhere
<1>4. UNCHANGED P!holdVars => UNCHANGED <<deposits, vault>>
  BY DEF P!holdVars
<1>5. CASE UNCHANGED accountVars
  <2>1. UNCHANGED P!fineVars /\ UNCHANGED P!ledgerVars /\ UNCHANGED <<deposits, vault>>
    BY <1>5 DEF accountVars, P!fineVars, P!ledgerVars
  <2>2. QED BY <1>1, <1>2, <1>3, <2>1
<1>6. CASE P!FineNext
  <2>1. UNCHANGED P!ledgerVars /\ UNCHANGED P!holdVars
    BY <1>6, Zenon DEF P!FineNext, P!SetPolicy, P!AssessFine, P!WaiveFine
  <2>2. QED BY <1>2, <1>3, <1>4, <1>6, <2>1, DebtsStep
<1>7. CASE P!LedgerNext
  <2>1. UNCHANGED P!fineVars /\ UNCHANGED P!holdVars
    BY <1>7, Zenon DEF P!LedgerNext, P!AddSupportedAsset, P!Assess, P!Waive, P!InitiatePayment,
       P!FailPayment, P!ConfirmPayment, P!RefundPayment, P!ReversePayment, P!UndoPayment
  <2>2. QED BY <1>1, <1>3, <1>4, <1>7, <2>1, LedgerStep
<1>8. CASE P!DepositNext
  <2>1. UNCHANGED P!fineVars /\ UNCHANGED P!ledgerVars
    BY <1>8, Zenon DEF P!DepositNext, P!LockDeposit, P!ReleaseDeposit, P!PartialCharge,
       P!FullCharge, P!PayOut
  <2>2. QED BY <1>1, <1>2, <1>8, <2>1, HeldStep
<1>9. CASE P!DamageNext
  <2>1. UNCHANGED P!fineVars /\ UNCHANGED P!ledgerVars /\ UNCHANGED <<deposits, vault>>
    BY <1>9, Zenon DEF P!DamageNext, P!SetLibrarian, P!Attest, P!Resolve, P!AppendCorrection,
       P!MarkCharged
  <2>2. QED BY <1>1, <1>2, <1>3, <2>1
<1>10. QED BY <1>5, <1>6, <1>7, <1>8, <1>9

LEMMA SumsStep ==
  ASSUME PlatformInv, SumsInv, [Next]_vars PROVE SumsInv'
<1>1. LicensingInv /\ AccountsInv /\ now \in Nat
  BY DEF PlatformInv, LicensingInv
<1>2. VaultsInv' /\ RoyaltyInv' /\ EarningsInv'
  <2>1. VaultsInv /\ RoyaltyInv /\ EarningsInv
    BY DEF SumsInv
  <2>2. QED BY <2>1, OneBookMoves, TreasuryStep
<1>3. DebtsInv' /\ LedgerInv' /\ HeldInv'
  <2>1. DebtsInv /\ LedgerInv /\ HeldInv
    BY DEF SumsInv
  <2>2. QED BY <1>1, <2>1, OneBookMoves, OwedStep
<1>4. BooksInv' /\ RefundsInv'
  <2>1. BooksInv /\ RefundsInv
    BY DEF SumsInv
  <2>2. UNCHANGED financeVars => UNCHANGED <<ledgers, feeConfigs, returns, financials>>
    BY DEF financeVars
  <2>3. CASE UNCHANGED financeVars
    BY <2>1, <2>2, <2>3, BooksElsewhere, RefundsElsewhere
  <2>4. CASE F!LedgerNext \/ F!ReturnNext
    BY <2>1, <2>4, BooksStep, RefundsStep
  <2>5. QED BY <2>3, <2>4, OneBookMoves
<1>5. SupplyInv' /\ VestingInv'
  <2>1. SupplyInv /\ VestingInv
    BY DEF SumsInv
  <2>2. /\ UNCHANGED tokenVars => UNCHANGED <<royalty, holdings>>
        /\ UNCHANGED vestingVars => UNCHANGED <<vestings, vestingTokens, vestingPaid>>
    BY DEF tokenVars, vestingVars
  <2>3. SupplyInv'
    BY <2>1, <2>2, OneBookMoves, SupplyElsewhere, SupplyStep
  <2>4. VestingInv'
    BY <1>1, <2>1, <2>2, OneBookMoves, VestingElsewhere, VestingStep
  <2>5. QED BY <2>3, <2>4
<1>6. HoldingsInv' /\ ReviewsInv'
  <2>1. HoldingsInv /\ ReviewsInv
    BY DEF SumsInv
  <2>2. UNCHANGED licensingVars => UNCHANGED <<licenses, allocations, seatTotals, seatLimits,
                                                entitlements, entitlementKeys>>
    BY DEF licensingVars
  <2>3. HoldingsInv'
    BY <1>1, <2>1, <2>2, OneBookMoves, HoldingsElsewhere, HoldingsStep
  <2>4. ReviewsInv'
    BY <1>1, <2>1, OneBookMoves, ReviewsElsewhere, ReviewsStep
  <2>5. QED BY <2>3, <2>4
<1>7. QED BY <1>2, <1>3, <1>4, <1>5, <1>6 DEF SumsInv

\* What is kept apart adds up, for any people, amounts, fees, shares, weights and bounds: the
\* tokens held cover the vaults, deposits and earnings to the unit; debts, balances, refunds,
\* seats and entitlements follow from their entries; royalties are shared, and tokens moved and
\* vested, without loss; and scores rank comparable reviews consistently (approve_vault, distribute,
\* pay_for_course, confirm_payment, initiate_refund, transfer, claim, allocate_seats,
\* revoke_entitlement, aggregate_score).
THEOREM PlatformAddsUp == Spec => []AddsUp
<1>1. Init => PlatformInv /\ SumsInv
  BY PlatformInitial, SumsInitial
<1>2. PlatformInv /\ SumsInv /\ [Next]_vars => (PlatformInv /\ SumsInv)'
  BY PlatformStep, SumsStep
<1>3. PlatformInv /\ SumsInv => AddsUp
  <2> SUFFICES ASSUME PlatformInv, SumsInv PROVE AddsUp
    OBVIOUS
  <2>1. LicensingInv
    BY DEF PlatformInv
  <2>2. T!VaultsBacked /\ T!RoyaltiesAddUp /\ T!EarningsCovered
    BY VaultsGood, RoyaltyGood, EarningsGood DEF SumsInv
  <2>3. P!DebtIsFines /\ P!LedgerExact /\ P!DepositsCovered
    BY DebtsGood, LedgerGood, HeldGood DEF SumsInv
  <2>4. F!BooksBalance /\ F!RefundsAddUp
    BY BooksGood, RefundsGood DEF SumsInv
  <2>5. K!SupplyConserved /\ K!VestingPaysOnce
    BY SupplyGood, VestingGood DEF SumsInv
  <2>6. L!HoldingsExact
    BY <2>1, HoldingsGood DEF SumsInv
  <2>7. S!ScoresComparable /\ S!RankingConsistent
    BY ReviewsGood DEF SumsInv
  <2>8. QED BY <2>2, <2>3, <2>4, <2>5, <2>6, <2>7 DEF AddsUp
<1>4. QED BY <1>1, <1>2, <1>3, PTL DEF Spec
=============================================================================
