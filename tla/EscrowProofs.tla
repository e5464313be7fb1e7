---------------------------- MODULE EscrowProofs ----------------------------
(***************************************************************************)
(* Proofs about Escrow for any set of accounts and tokens, any amounts and *)
(* any number of escrows.                                                  *)
(***************************************************************************)
EXTENDS Escrow, SumTheorems, SequenceTheorems

-----------------------------------------------------------------------------
(* Arithmetic and balances *)

\* compute_fee_and_payout (release.rs): under the 50% cap the truncated fee is a
\* natural number and at most what is left for the seller.
LEMMA FeeBound ==
    ASSUME NEW n \in Nat, NEW bps \in 0..MAX_FEE_BPS
    PROVE  /\ ComputeFee(n, bps) \in Nat
           /\ ComputeFee(n, bps) <= n - ComputeFee(n, bps)
<1> DEFINE p == n * bps
<1>1. p \in Nat /\ p <= n * 5000
    BY DEF MAX_FEE_BPS
<1>2. p \div 10000 \in Nat /\ 10000 * (p \div 10000) <= p
    <2> HIDE DEF p
    <2>1. QED BY <1>1
<1>3. 2 * (p \div 10000) <= n
    <2> HIDE DEF p
    <2>1. QED BY <1>1, <1>2
<1>4. QED
    BY <1>2, <1>3 DEF ComputeFee

\* A covered transfer keeps every balance a natural number; the contract's own
\* balance changes only in the token moved, and by no more than the amount.
LEMMA MovedType ==
    ASSUME NEW b \in [Tokens -> [Holders -> Nat]], NEW t \in Tokens,
           NEW from \in Holders, NEW to \in Holders, NEW n \in Nat,
           b[t][from] >= n
    PROVE  /\ Moved(b, t, from, to, n) \in [Tokens -> [Holders -> Nat]]
           /\ \A u \in Tokens \ {t} : Moved(b, t, from, to, n)[u] = b[u]
           /\ from # to => /\ Moved(b, t, from, to, n)[t][from] = b[t][from] - n
                           /\ Moved(b, t, from, to, n)[t][to] = b[t][to] + n
           /\ from = to => Moved(b, t, from, to, n)[t][from] = b[t][from]
           /\ \A h \in Holders \ {from, to} : Moved(b, t, from, to, n)[t][h] = b[t][h]
<1> DEFINE m == [b EXCEPT ![t][from] = @ - n]
<1>1. m \in [Tokens -> [Holders -> Nat]]
    OBVIOUS
<1>2. Moved(b, t, from, to, n) = [m EXCEPT ![t][to] = @ + n]
    BY DEF Moved
<1>3. QED
    BY <1>1, <1>2

\* A transfer of t leaves every other token alone.
LEMMA MovedOther ==
    ASSUME NEW b \in [Tokens -> [Holders -> Nat]], NEW t \in Tokens, NEW from, NEW to,
           NEW n, NEW u \in Tokens, u # t
    PROVE  Moved(b, t, from, to, n)[u] = b[u]
BY DEF Moved

\* The contract's own balance after a deposit and after a payment.
LEMMA ContractMoved ==
    ASSUME NEW b \in [Tokens -> [Holders -> Nat]], NEW t \in Tokens,
           NEW h \in Holders, h # Contract, NEW n \in Nat
    PROVE  /\ Moved(b, t, h, Contract, n)[t][Contract] = b[t][Contract] + n
           /\ Moved(b, t, Contract, h, n)[t][Contract] = b[t][Contract] - n
BY DEF Moved, Holders

\* Rewriting one stored record keeps the sequence typed and its length.
LEMMA UpdateSeq ==
    ASSUME NEW S, NEW s \in Seq(S), NEW i \in 1..Len(s), NEW e \in S
    PROVE  /\ [s EXCEPT ![i] = e] \in Seq(S)
           /\ Len([s EXCEPT ![i] = e]) = Len(s)
           /\ [s EXCEPT ![i] = e][i] = e
           /\ \A j \in 1..Len(s) : j # i => [s EXCEPT ![i] = e][j] = s[j]
OBVIOUS

-----------------------------------------------------------------------------
(* Type correctness *)

Payout == [buyer : Nat, seller : Nat, fee : Nat]

\* Adding natural numbers to a payout history gives a payout history.
LEMMA BookType ==
    ASSUME NEW p \in Payout, NEW b \in Nat, NEW s \in Nat, NEW f \in Nat
    PROVE  Book(p, b, s, f) \in Payout
BY DEF Payout, Book

\* A stored escrow and its payout history are typed records.
LEMMA RecordAt ==
    ASSUME TypeOK, NEW id \in Ids
    PROVE  /\ escrows[id] \in EscrowRecord
           /\ escrows[id].buyer \in Accounts
           /\ escrows[id].seller \in Holders
           /\ escrows[id].token \in Tokens
           /\ escrows[id].amount \in Nat
           /\ escrows[id].original_amount \in Nat
           /\ id \in 1..Len(paid)
           /\ paid \in Seq(Payout)
           /\ paid[id] \in Payout
<1>1. escrows \in Seq(EscrowRecord) /\ paid \in Seq(Payout) /\ Len(paid) = Len(escrows)
    BY DEF TypeOK, Payout
<1>2. id \in 1..Len(escrows)
    BY DEF Ids
<1>3. escrows[id] \in EscrowRecord /\ paid[id] \in Payout
    BY <1>1, <1>2
<1>4. QED
    BY <1>1, <1>2, <1>3 DEF EscrowRecord

\* What PaySeller (both releases) does, in terms of natural numbers.
LEMMA PaySellerType ==
    ASSUME TypeOK, NEW id \in Ids, NEW n \in Nat, PaySeller(id, n)
    PROVE  /\ bal' \in [Tokens -> [Holders -> Nat]]
           /\ fees' \in [Tokens -> Nat]
           /\ feeHistory' \in Seq(FeeRecord)
           /\ paid' \in Seq(Payout) /\ Len(paid') = Len(paid)
<1> DEFINE e   == escrows[id]
           fee == ComputeFee(n, feeBps)
           q   == Book(paid[id], 0, n - fee, fee)
<1>1. e.token \in Tokens /\ e.seller \in Holders
    BY RecordAt
<1>2. fee \in Nat /\ n - fee \in Nat
    <2>1. feeBps \in 0..MAX_FEE_BPS
        BY DEF TypeOK
    <2>2. fee \in Nat /\ fee <= n - fee
        BY <2>1, FeeBound
    <2> HIDE DEF fee
    <2>3. QED
        BY <2>2
<1>3. bal' \in [Tokens -> [Holders -> Nat]]
    <2>1. bal' = Moved(bal, e.token, Contract, e.seller, n - fee)
        BY DEF PaySeller
    <2>2. bal[e.token][Contract] >= n - fee
        BY DEF PaySeller, Covers
    <2>3. bal \in [Tokens -> [Holders -> Nat]] /\ Contract \in Holders
        BY DEF TypeOK, Holders
    <2> HIDE DEF e, fee
    <2>4. QED
        BY <1>1, <1>2, <2>1, <2>2, <2>3, MovedType
<1>4. fees' \in [Tokens -> Nat]
    <2>1. fees \in [Tokens -> Nat]
        BY DEF TypeOK
    <2>2. fees' = [fees EXCEPT ![e.token] = @ + fee]
        BY DEF PaySeller
    <2> HIDE DEF e, fee
    <2>3. QED
        BY <1>1, <1>2, <2>1, <2>2
<1>5. feeHistory' \in Seq(FeeRecord)
    <2>1. [escrow_id |-> id, token |-> e.token, amount |-> fee, timestamp |-> now]
            \in FeeRecord
        BY <1>1, <1>2 DEF TypeOK, FeeRecord, Ids
    <2>2. feeHistory \in Seq(FeeRecord)
        BY DEF TypeOK
    <2>3. feeHistory' = Append(feeHistory, [escrow_id |-> id, token |-> e.token,
                                            amount |-> fee, timestamp |-> now])
        BY DEF PaySeller, AppendFeeRecord
    <2> HIDE DEF e, fee
    <2>4. QED
        BY <2>1, <2>2, <2>3
<1>6. paid' \in Seq(Payout) /\ Len(paid') = Len(paid)
    <2>1. paid \in Seq(Payout) /\ id \in 1..Len(paid) /\ paid[id] \in Payout
        BY RecordAt
    <2>3. q \in Payout
        BY <1>2, <2>1, BookType
    <2>4. paid' = [paid EXCEPT ![id] = q]
        BY DEF PaySeller
    <2> HIDE DEF q
    <2>5. QED
        BY <2>1, <2>3, <2>4, UpdateSeq
<1>7. QED
    BY <1>3, <1>4, <1>5, <1>6

\* Init puts every variable in its type.
LEMMA TypeInit == Init => TypeOK
<1> SUFFICES ASSUME Init PROVE TypeOK
    OBVIOUS
<1> USE EscrowConstants DEF Init
<1>1. bal \in [Tokens -> [Holders -> Nat]]
    OBVIOUS
<1>2. index \in Indices
    BY DEF Indices
<1>3. feeBps \in 0..MAX_FEE_BPS
    BY DEF MAX_FEE_BPS, DEFAULT_PROTOCOL_FEE_BPS
<1>4. escrows \in Seq(EscrowRecord) /\ paid \in Seq(Payout) /\ feeHistory \in Seq(FeeRecord)
    OBVIOUS
<1>5. QED
    BY <1>1, <1>2, <1>3, <1>4 DEF TypeOK, Payout

\* SaveEscrow rewrites one record and keeps its terms.
LEMMA SaveEscrowType ==
    ASSUME TypeOK, NEW id \in Ids, NEW status \in EscrowStatus, NEW amount \in Nat,
           SaveEscrow(id, status, amount)
    PROVE  /\ escrows' \in Seq(EscrowRecord)
           /\ Len(escrows') = Len(escrows)
           /\ escrows'[id].status = status
           /\ escrows'[id].amount = amount
           /\ escrows'[id].token = escrows[id].token
           /\ escrows'[id].original_amount = escrows[id].original_amount
           /\ escrows'[id].buyer = escrows[id].buyer
           /\ escrows'[id].seller = escrows[id].seller
           /\ escrows'[id].expiration = escrows[id].expiration
           /\ \A j \in Ids : j # id => escrows'[j] = escrows[j]
<1> DEFINE e == [escrows[id] EXCEPT !.status = status, !.amount = amount]
<1>1. /\ e \in EscrowRecord /\ e.status = status /\ e.amount = amount
      /\ e.token = escrows[id].token /\ e.original_amount = escrows[id].original_amount
      /\ e.buyer = escrows[id].buyer /\ e.seller = escrows[id].seller
      /\ e.expiration = escrows[id].expiration
    <2>1. escrows[id] \in EscrowRecord
        BY RecordAt
    <2>2. QED
        BY <2>1 DEF EscrowRecord
<1>2. escrows' = [escrows EXCEPT ![id] = e]
    BY DEF SaveEscrow
<1>3. escrows \in Seq(EscrowRecord) /\ id \in 1..Len(escrows)
    BY DEF TypeOK, Ids
<1>4. /\ escrows' \in Seq(EscrowRecord)
      /\ Len(escrows') = Len(escrows)
      /\ escrows'[id] = e
      /\ \A j \in 1..Len(escrows) : j # id => escrows'[j] = escrows[j]
    <2> HIDE DEF e
    <2>1. QED BY <1>1, <1>2, <1>3, UpdateSeq
<1>5. QED
    BY <1>1, <1>4 DEF Ids

\* Booking a payout rewrites one history entry.
LEMMA BookStep ==
    ASSUME TypeOK, NEW id \in Ids, NEW b \in Nat, NEW s \in Nat, NEW f \in Nat,
           paid' = [paid EXCEPT ![id] = Book(@, b, s, f)]
    PROVE  /\ paid' \in Seq(Payout) /\ Len(paid') = Len(paid)
           /\ paid'[id] = Book(paid[id], b, s, f)
           /\ \A j \in Ids : j # id => paid'[j] = paid[j]
<1> DEFINE q == Book(paid[id], b, s, f)
<1>1. paid \in Seq(Payout) /\ id \in 1..Len(paid) /\ paid[id] \in Payout
    BY RecordAt
<1>2. q \in Payout
    BY <1>1, BookType
<1>3. paid' = [paid EXCEPT ![id] = q]
    OBVIOUS
<1>4. Len(paid) = Len(escrows)
    BY DEF TypeOK
<1> HIDE DEF q
<1>5. /\ paid' \in Seq(Payout) /\ Len(paid') = Len(paid) /\ paid'[id] = q
      /\ \A j \in 1..Len(paid) : j # id => paid'[j] = paid[j]
    BY <1>1, <1>2, <1>3, UpdateSeq
<1>6. QED
    BY <1>4, <1>5 DEF q, Ids

\* The configuration calls change one setting each; the fee cap is checked by
\* set_protocol_fee_bps, the accrued fees by withdraw_fees.
LEMMA TypeConfigure == TypeOK /\ Configure => TypeOK'
<1> SUFFICES ASSUME TypeOK, NEW caller \in Accounts,
                    \/ \E new \in Officers : SetAdmin(caller, new)
                    \/ \E t \in Tokens : WhitelistToken(caller, t)
                    \/ \E new \in Officers : SetArbiter(caller, new)
                    \/ \E bps \in FeeRates : SetProtocolFeeBps(caller, bps)
                    \/ \E t \in Tokens, r \in Holders, n \in Amounts :
                           WithdrawFees(caller, t, r, n)
             PROVE  TypeOK'
    BY DEF Configure
<1> USE EscrowConstants
<1>1. CASE \E new \in Officers : SetAdmin(caller, new)
    BY <1>1 DEF SetAdmin, TypeOK
<1>2. CASE \E t \in Tokens : WhitelistToken(caller, t)
    BY <1>2 DEF WhitelistToken, TypeOK
<1>3. CASE \E new \in Officers : SetArbiter(caller, new)
    BY <1>3 DEF SetArbiter, TypeOK
<1>4. CASE \E bps \in FeeRates : SetProtocolFeeBps(caller, bps)
    <2>1. PICK bps \in FeeRates : SetProtocolFeeBps(caller, bps)
        BY <1>4
    <2>2. feeBps' \in 0..MAX_FEE_BPS
        BY <2>1 DEF SetProtocolFeeBps, MAX_FEE_BPS
    <2>3. QED
        BY <2>1, <2>2 DEF SetProtocolFeeBps, TypeOK
<1>5. CASE \E t \in Tokens, r \in Holders, n \in Amounts : WithdrawFees(caller, t, r, n)
    <2>1. PICK t \in Tokens, r \in Holders, n \in Amounts : WithdrawFees(caller, t, r, n)
        BY <1>5
    <2>2. n \in Nat /\ n <= fees[t] /\ bal[t][Contract] >= n /\ Contract \in Holders
        <3>1. n > 0 /\ n \in Int
            BY <2>1 DEF WithdrawFees
        <3>2. n <= fees[t] /\ bal[t][Contract] >= n /\ Contract \in Holders
            BY <2>1 DEF WithdrawFees, FeesCover, Covers, Holders
        <3>3. QED
            BY <3>1, <3>2
    <2>3. bal \in [Tokens -> [Holders -> Nat]] /\ fees \in [Tokens -> Nat]
        BY DEF TypeOK
    <2>4. bal' \in [Tokens -> [Holders -> Nat]]
        BY <2>1, <2>2, <2>3, MovedType DEF WithdrawFees
    <2>5. fees' \in [Tokens -> Nat]
        <3>1. fees' = [fees EXCEPT ![t] = fees[t] - n]
            BY <2>1 DEF WithdrawFees
        <3>2. fees[t] - n \in Nat
            BY <2>2, <2>3
        <3>3. QED
            BY <2>3, <3>1, <3>2
    <2>6. QED
        BY <2>1, <2>4, <2>5 DEF WithdrawFees, config, TypeOK
<1>6. QED
    BY <1>1, <1>2, <1>3, <1>4, <1>5

\* create_escrow appends a typed record, an empty payout history and index entries.
LEMMA TypeCreate ==
    ASSUME TypeOK, NEW buyer \in Accounts, NEW s \in Holders, NEW t \in Tokens,
           NEW n \in Deposits, NEW exp \in Expirations, CreateEscrow(buyer, s, t, n, exp)
    PROVE  TypeOK'
<1> DEFINE e == [buyer |-> buyer, seller |-> s, token |-> t, amount |-> n,
                 original_amount |-> n, status |-> "Created", expiration |-> exp]
           id == Len(escrows) + 1
<1>1. e \in EscrowRecord
    BY EscrowConstants DEF CreateEscrow, EscrowRecord, EscrowStatus
<1>2. escrows \in Seq(EscrowRecord) /\ paid \in Seq(Payout) /\ Len(paid) = Len(escrows)
    BY DEF TypeOK, Payout
<1>3. escrows' = Append(escrows, e) /\ paid' = Append(paid, NothingPaid)
    BY DEF CreateEscrow
<1>4. NothingPaid \in Payout
    BY DEF NothingPaid, Payout
<1>5. /\ escrows' \in Seq(EscrowRecord) /\ paid' \in Seq(Payout)
      /\ Len(paid') = Len(escrows')
    <2> HIDE DEF e
    <2>1. QED BY <1>1, <1>2, <1>3, <1>4
<1>6. index' \in Indices
    <2>1. index' = [index EXCEPT !.token[t] = Append(@, id),
                                 !.buyer[buyer] = Append(@, id),
                                 !.seller[s] = Append(@, id)]
        BY DEF CreateEscrow, AppendToIndices
    <2>2. /\ index \in Indices
          /\ index.token \in [Tokens -> Seq(Nat)]
          /\ index.buyer \in [Accounts -> Seq(Nat)]
          /\ index.seller \in [Holders -> Seq(Nat)]
        BY DEF TypeOK, Indices
    <2>3. id \in Nat
        BY <1>2
    <2> HIDE DEF id
    <2>4. /\ [index.token EXCEPT ![t] = Append(@, id)] \in [Tokens -> Seq(Nat)]
          /\ [index.buyer EXCEPT ![buyer] = Append(@, id)] \in [Accounts -> Seq(Nat)]
          /\ [index.seller EXCEPT ![s] = Append(@, id)] \in [Holders -> Seq(Nat)]
        BY <2>2, <2>3
    <2>5. index' = [token  |-> [index.token EXCEPT ![t] = Append(@, id)],
                    buyer  |-> [index.buyer EXCEPT ![buyer] = Append(@, id)],
                    seller |-> [index.seller EXCEPT ![s] = Append(@, id)]]
        BY <2>1, <2>2 DEF Indices
    <2>6. QED
        BY <2>4, <2>5 DEF Indices
<1>7. UNCHANGED <<now, config, fees, volume, feeHistory, bal>>
    BY DEF CreateEscrow
<1>8. QED
    BY <1>5, <1>6, <1>7 DEF TypeOK, Payout, config

\* The calls on one existing escrow.
EscrowStep(caller, id) ==
    \/ FundEscrow(caller, id)
    \/ ReleaseEscrow(caller, id)
    \/ \E n \in Amounts : PartialRelease(caller, id, n)
    \/ Dispute(caller, id)
    \/ RefundEscrow(caller, id)
    \/ \E b, s, f \in Amounts : ResolveDispute(caller, id, b, s, f)

\* Every call on an existing escrow keeps the types: amounts never go below zero
\* because each call compares what it takes with what is there.
LEMMA TypeEscrowStep ==
    ASSUME TypeOK, NEW caller \in Accounts, NEW id \in Ids, EscrowStep(caller, id)
    PROVE  TypeOK'
<1> DEFINE e == escrows[id]
<1>0. /\ e.buyer \in Holders /\ e.seller \in Holders /\ e.token \in Tokens
      /\ e.amount \in Nat /\ Contract \in Holders
    BY RecordAt DEF Holders
<1>a. /\ bal \in [Tokens -> [Holders -> Nat]] /\ fees \in [Tokens -> Nat]
      /\ volume \in Nat
    BY EscrowConstants DEF TypeOK
<1>1. CASE FundEscrow(caller, id)
    <2>1. SaveEscrow(id, "Funded", e.amount) /\ "Funded" \in EscrowStatus
        BY <1>1 DEF FundEscrow, EscrowStatus
    <2>2. escrows' \in Seq(EscrowRecord) /\ Len(escrows') = Len(escrows)
        BY <1>0, <2>1, SaveEscrowType
    <2>3. bal' \in [Tokens -> [Holders -> Nat]]
        BY <1>1, <1>0, <1>a, MovedType DEF FundEscrow, Covers
    <2>4. volume' \in 0..MaxI128
        BY <1>1, <1>0, <1>a, EscrowConstants DEF FundEscrow
    <2>5. QED
        BY <1>1, <2>2, <2>3, <2>4 DEF FundEscrow, TypeOK, config
<1>2. CASE ReleaseEscrow(caller, id)
    <2>1. SaveEscrow(id, "Completed", 0) /\ "Completed" \in EscrowStatus
        BY <1>2 DEF ReleaseEscrow, EscrowStatus
    <2>2. escrows' \in Seq(EscrowRecord) /\ Len(escrows') = Len(escrows)
        BY <2>1, SaveEscrowType
    <2>3. PaySeller(id, e.amount)
        BY <1>2 DEF ReleaseEscrow
    <2>4. QED
        BY <1>0, <1>2, <2>2, <2>3, PaySellerType DEF ReleaseEscrow, TypeOK, config, Payout
<1>3. CASE \E n \in Amounts : PartialRelease(caller, id, n)
    <2>1. PICK n \in Amounts : PartialRelease(caller, id, n)
        BY <1>3
    <2> DEFINE st == IF n = e.amount THEN "Completed" ELSE "Funded"
    <2>2. n \in Nat /\ e.amount - n \in Nat
        BY <1>0, <2>1, EscrowConstants DEF PartialRelease
    <2>3. SaveEscrow(id, st, e.amount - n) /\ st \in EscrowStatus
        BY <2>1 DEF PartialRelease, EscrowStatus
    <2>4. escrows' \in Seq(EscrowRecord) /\ Len(escrows') = Len(escrows)
        BY <2>2, <2>3, SaveEscrowType
    <2>5. PaySeller(id, n)
        BY <2>1 DEF PartialRelease
    <2>6. QED
        BY <2>1, <2>2, <2>4, <2>5, PaySellerType DEF PartialRelease, TypeOK, config, Payout
<1>4. CASE Dispute(caller, id)
    <2>1. SaveEscrow(id, "Disputed", e.amount) /\ "Disputed" \in EscrowStatus
        BY <1>4 DEF Dispute, EscrowStatus
    <2>2. escrows' \in Seq(EscrowRecord) /\ Len(escrows') = Len(escrows)
        BY <1>0, <2>1, SaveEscrowType
    <2>3. QED
        BY <1>4, <2>2 DEF Dispute, TypeOK, config
<1>5. CASE RefundEscrow(caller, id)
    <2>1. SaveEscrow(id, "Cancelled", 0) /\ "Cancelled" \in EscrowStatus
        BY <1>5 DEF RefundEscrow, EscrowStatus
    <2>2. escrows' \in Seq(EscrowRecord) /\ Len(escrows') = Len(escrows)
        BY <2>1, SaveEscrowType
    <2>3. bal' \in [Tokens -> [Holders -> Nat]]
        BY <1>5, <1>0, <1>a, MovedType DEF RefundEscrow, Covers
    <2>4. paid' \in Seq(Payout) /\ Len(paid') = Len(paid)
        BY <1>5, <1>0, BookStep DEF RefundEscrow
    <2>5. QED
        BY <1>5, <2>2, <2>3, <2>4 DEF RefundEscrow, TypeOK, config, Payout
<1>6. CASE \E b, s, f \in Amounts : ResolveDispute(caller, id, b, s, f)
    <2>1. PICK b, s, f \in Amounts : ResolveDispute(caller, id, b, s, f)
        BY <1>6
    <2>2. b \in Nat /\ s \in Nat /\ f \in Nat /\ bal[e.token][Contract] >= b + s
        BY <2>1, EscrowConstants DEF ResolveDispute, AllocationBounded, Covers
    <2>3. SaveEscrow(id, "Completed", 0) /\ "Completed" \in EscrowStatus
        BY <2>1 DEF ResolveDispute, EscrowStatus
    <2>4. escrows' \in Seq(EscrowRecord) /\ Len(escrows') = Len(escrows)
        BY <2>3, SaveEscrowType
    <2>5. bal' \in [Tokens -> [Holders -> Nat]]
        <3> DEFINE m == Moved(bal, e.token, Contract, e.buyer, b)
        <3>1. e.buyer # Contract
            BY RecordAt, EscrowConstants
        <3>2. /\ m \in [Tokens -> [Holders -> Nat]]
              /\ m[e.token][Contract] = bal[e.token][Contract] - b
            <4>1. bal[e.token][Contract] \in Nat /\ bal[e.token][Contract] >= b
                BY <1>0, <1>a, <2>2
            <4> HIDE DEF e
            <4>2. QED
                BY <1>0, <1>a, <2>2, <3>1, <4>1, MovedType
        <3>b. m[e.token][Contract] >= s
            <4>1. bal[e.token][Contract] \in Nat
                BY <1>0, <1>a
            <4> HIDE DEF m, e
            <4>2. QED
                BY <2>2, <3>2, <4>1
        <3>3. bal' = Moved(m, e.token, Contract, e.seller, s)
            BY <2>1 DEF ResolveDispute
        <3> HIDE DEF m
        <3>4. QED
            BY <1>0, <2>2, <3>2, <3>b, <3>3, MovedType
    <2>6. paid' \in Seq(Payout) /\ Len(paid') = Len(paid)
        BY <2>1, <2>2, BookStep DEF ResolveDispute
    <2>7. fees' \in [Tokens -> Nat]
        <3>1. fees' = [fees EXCEPT ![e.token] = fees[e.token] + f]
            BY <2>1 DEF ResolveDispute
        <3>2. fees[e.token] + f \in Nat
            BY <1>0, <1>a, <2>2
        <3>3. QED
            BY <1>0, <1>a, <3>1, <3>2
    <2>8. QED
        BY <2>1, <2>4, <2>5, <2>6, <2>7 DEF ResolveDispute, TypeOK, config, Payout
<1>7. QED
    BY <1>1, <1>2, <1>3, <1>4, <1>5, <1>6 DEF EscrowStep

\* No step of the contract, of other token holders or of the clock leaves the types.
LEMMA TypeNext == TypeOK /\ [Next]_vars => TypeOK'
<1> SUFFICES ASSUME TypeOK, [Next]_vars PROVE TypeOK'
    OBVIOUS
<1>1. CASE Configure
    BY <1>1, TypeConfigure
<1>2. CASE Operate
    <2>1. PICK caller \in Accounts :
            \/ \E s \in Holders, t \in Tokens, n \in Deposits, exp \in Expirations :
                   CreateEscrow(caller, s, t, n, exp)
            \/ \E id \in Ids : EscrowStep(caller, id)
        BY <1>2, Zenon DEF Operate, EscrowStep
    <2>2. QED
        BY <2>1, TypeCreate, TypeEscrowStep
<1>3. CASE \E t \in Tokens, from \in Accounts, to \in Holders, n \in ExternalAmounts :
              TokenTransfer(t, from, to, n)
    <2>1. PICK t \in Tokens, from \in Accounts, to \in Holders, n \in ExternalAmounts :
              TokenTransfer(t, from, to, n)
        BY <1>3
    <2>2. bal' \in [Tokens -> [Holders -> Nat]]
        BY <2>1, MovedType, EscrowConstants DEF TokenTransfer, Covers, Holders, TypeOK
    <2>3. QED
        BY <2>1, <2>2 DEF TokenTransfer, TypeOK, config
<1>4. CASE AdvanceTime
    BY <1>4 DEF AdvanceTime, TypeOK, config
<1>5. CASE UNCHANGED vars
    BY <1>5 DEF vars, config, TypeOK
<1>6. QED
    BY <1>1, <1>2, <1>3, <1>4, <1>5 DEF Next

\* Type correctness of the escrow contract, for all constants: among others, no
\* balance, fee pool or payout ever becomes negative, the stored fee rate stays
\* under its cap and the volume counter within i128.
THEOREM TypeCorrect == Spec => []TypeOK
BY TypeInit, TypeNext, PTL DEF Spec

-----------------------------------------------------------------------------
(* Solvency *)

\* The total locked in token t.
TotalLocked(t) == Sum(Locked(t), Len(escrows))

\* What a typed record holds of a token is a natural number.
LEMMA LockedInType ==
    ASSUME NEW s \in Seq(EscrowRecord), NEW i \in 1..Len(s), NEW t
    PROVE  LockedIn(t, s[i]) \in Nat
<1>1. s[i] \in EscrowRecord
    OBVIOUS
<1>2. s[i].amount \in Nat
    BY <1>1 DEF EscrowRecord
<1>3. QED
    BY <1>2 DEF LockedIn

\* Rewriting escrow id changes the total locked by the change of that escrow.
LEMMA LockedUpdate ==
    ASSUME TypeOK, TypeOK', NEW id \in Ids, Len(escrows') = Len(escrows),
           \A j \in Ids : j # id => escrows'[j] = escrows[j], NEW t \in Tokens
    PROVE  /\ TotalLocked(t)' = TotalLocked(t) + LockedIn(t, escrows'[id])
                                               - LockedIn(t, escrows[id])
           /\ TotalLocked(t) \in Nat
           /\ LockedIn(t, escrows[id]) \in Nat
           /\ LockedIn(t, escrows'[id]) \in Nat
<1> DEFINE f == Locked(t)
           g == Locked(t)'
           n == Len(escrows)
<1>1. /\ escrows \in Seq(EscrowRecord) /\ escrows' \in Seq(EscrowRecord)
      /\ n \in Nat /\ id \in 1..n
    BY DEF TypeOK, Ids
<1>2. \A i \in 1..n : f[i] \in Nat /\ g[i] \in Nat
    <2>1. ASSUME NEW i \in 1..n PROVE f[i] \in Nat /\ g[i] \in Nat
        <3>1. f[i] = LockedIn(t, escrows[i]) /\ g[i] = LockedIn(t, escrows'[i])
            BY DEF Locked, Ids, LockedIn, IsLocked
        <3>2. LockedIn(t, escrows[i]) \in Nat /\ LockedIn(t, escrows'[i]) \in Nat
            BY <1>1, LockedInType
        <3>3. QED
            BY <3>1, <3>2
    <2>2. QED BY <2>1
<1>3. f[id] = LockedIn(t, escrows[id]) /\ g[id] = LockedIn(t, escrows'[id])
    BY DEF Locked, Ids, LockedIn, IsLocked
<1>4. \A i \in 1..n : i # id => f[i] = g[i]
    BY DEF Locked, Ids, LockedIn, IsLocked
<1>5. TotalLocked(t) = Sum(f, n) /\ TotalLocked(t)' = Sum(g, n)
    BY DEF TotalLocked, Sum
<1>6. Sum(f, n) \in Nat /\ Sum(g, n) = Sum(f, n) + g[id] - f[id]
    <2> HIDE DEF f, g, n
    <2>1. \A i \in 1..n : f[i] \in Int /\ g[i] \in Int
        BY <1>2
    <2>2. Sum(g, n) = Sum(f, n) + g[id] - f[id]
        BY <1>1, <1>4, <2>1, SumUpdate
    <2>3. Sum(f, n) \in Nat
        BY <1>1, <1>2, SumMember
    <2>4. QED
        BY <2>2, <2>3
<1>7. f[id] \in Nat /\ g[id] \in Nat
    BY <1>1, <1>2
<1> HIDE DEF f, g, n
<1>8. QED
    BY <1>3, <1>5, <1>6, <1>7

\* A call on escrow id keeps the contract solvent when, in every token, the
\* contract's balance gains at least what its debts gain.
LEMMA SolvencyStep ==
    ASSUME TypeOK, TypeOK', Solvency, NEW id \in Ids, Len(escrows') = Len(escrows),
           \A j \in Ids : j # id => escrows'[j] = escrows[j],
           \A t \in Tokens :
               bal'[t][Contract] - bal[t][Contract] >=
                   (LockedIn(t, escrows'[id]) - LockedIn(t, escrows[id])) + (fees'[t] - fees[t])
    PROVE  Solvency'
<1> SUFFICES ASSUME NEW t \in Tokens
             PROVE  bal'[t][Contract] >= TotalLocked(t)' + fees'[t]
    BY DEF Solvency, TotalLocked
<1>1. /\ bal[t][Contract] \in Nat /\ bal'[t][Contract] \in Nat
      /\ fees[t] \in Nat /\ fees'[t] \in Nat
    BY DEF TypeOK, Holders
<1>2. bal[t][Contract] >= TotalLocked(t) + fees[t]
    BY DEF Solvency, TotalLocked
<1>3. /\ TotalLocked(t)' = TotalLocked(t) + LockedIn(t, escrows'[id])
                                          - LockedIn(t, escrows[id])
      /\ TotalLocked(t) \in Nat
      /\ LockedIn(t, escrows[id]) \in Nat
      /\ LockedIn(t, escrows'[id]) \in Nat
    BY LockedUpdate
<1>4. bal'[t][Contract] - bal[t][Contract] >=
          (LockedIn(t, escrows'[id]) - LockedIn(t, escrows[id])) + (fees'[t] - fees[t])
    OBVIOUS
<1> DEFINE B == bal[t][Contract]      BB == bal'[t][Contract]
           F == fees[t]               FF == fees'[t]
           T == TotalLocked(t)        TT == TotalLocked(t)'
           L == LockedIn(t, escrows[id])
           LL == LockedIn(t, escrows'[id])
<1> HIDE DEF B, BB, F, FF, T, TT, L, LL
<1>5. /\ B \in Nat /\ BB \in Nat /\ F \in Nat /\ FF \in Nat
      /\ T \in Nat /\ L \in Nat /\ LL \in Nat
      /\ TT = T + LL - L /\ B >= T + F /\ BB - B >= (LL - L) + (FF - F)
    BY <1>1, <1>2, <1>3, <1>4 DEF B, BB, F, FF, T, TT, L, LL
<1>6. BB >= TT + FF
    BY <1>5
<1>7. QED
    BY <1>6 DEF BB, TT, FF

\* A call that touches no escrow record leaves the total locked.
LEMMA LockedUnchanged ==
    ASSUME escrows' = escrows, NEW t
    PROVE  TotalLocked(t)' = TotalLocked(t)
BY DEF TotalLocked, Locked, Ids, LockedIn, IsLocked, Sum

\* Paying n out of a funded escrow, net of the fee, lowers what the contract owes
\* by at least what leaves its balance (a seller that is the contract itself
\* included).
LEMMA SolvencyPaySeller ==
    ASSUME TypeOK, TypeOK', Solvency, NEW id \in Ids, NEW n \in Nat,
           escrows[id].status = "Funded", n <= escrows[id].amount,
           PaySeller(id, n),
           NEW status \in EscrowStatus, status = "Funded" \/ n = escrows[id].amount,
           SaveEscrow(id, status, escrows[id].amount - n)
    PROVE  Solvency'
<1> DEFINE e   == escrows[id]
           fee == ComputeFee(n, feeBps)
<1> DEFINE rest == e.amount - n
<1>1. /\ e \in EscrowRecord /\ e.token \in Tokens /\ e.seller \in Holders
      /\ e.amount \in Nat /\ rest \in Nat
    BY RecordAt
<1>2. fee \in Nat /\ n - fee \in Nat
    <2>1. feeBps \in 0..MAX_FEE_BPS
        BY DEF TypeOK
    <2>2. fee \in Nat /\ fee <= n - fee
        BY <2>1, FeeBound
    <2> HIDE DEF fee
    <2>3. QED BY <2>2
<1>3. /\ Len(escrows') = Len(escrows)
      /\ escrows'[id].status = status /\ escrows'[id].amount = rest
      /\ escrows'[id].token = e.token
      /\ \A j \in Ids : j # id => escrows'[j] = escrows[j]
    <2>1. SaveEscrow(id, status, rest)
        OBVIOUS
    <2> HIDE DEF rest
    <2>2. QED BY <1>1, <2>1, SaveEscrowType
<1>4. bal \in [Tokens -> [Holders -> Nat]] /\ fees \in [Tokens -> Nat] /\ Contract \in Holders
    BY DEF TypeOK, Holders
<1>5. /\ bal' = Moved(bal, e.token, Contract, e.seller, n - fee)
      /\ fees' = [fees EXCEPT ![e.token] = fees[e.token] + fee]
      /\ bal[e.token][Contract] >= n - fee
    BY DEF PaySeller, Covers
<1>6. ASSUME NEW t \in Tokens
      PROVE  bal'[t][Contract] - bal[t][Contract] >=
                 (LockedIn(t, escrows'[id]) - LockedIn(t, escrows[id])) + (fees'[t] - fees[t])
    <2>1. LockedIn(t, escrows'[id]) =
              IF e.token = t /\ status \in {"Funded", "Disputed"} THEN rest ELSE 0
        BY <1>3 DEF LockedIn, IsLocked
    <2>2. LockedIn(t, e) = IF e.token = t THEN e.amount ELSE 0
        BY DEF LockedIn, IsLocked
    <2>3. bal[t][Contract] \in Nat /\ fees[t] \in Nat
        BY <1>4
    <2>4. CASE t = e.token
        <3>1. bal'[t][Contract] >= bal[t][Contract] - (n - fee) /\ bal'[t][Contract] \in Nat
            <4> HIDE DEF e, fee
            <4>1. CASE e.seller = Contract
                BY <1>1, <1>2, <1>4, <1>5, <2>3, <2>4, <4>1, MovedType
            <4>2. CASE e.seller # Contract
                BY <1>1, <1>2, <1>4, <1>5, <2>3, <2>4, <4>2, MovedType
            <4>3. QED BY <4>1, <4>2
        <3>2. fees'[t] = fees[t] + fee
            BY <1>1, <1>4, <1>5, <2>4
        <3>3. LockedIn(t, escrows'[id]) = e.amount - n
            BY <1>1, <2>1, <2>4
        <3>4. LockedIn(t, e) = e.amount
            BY <2>2, <2>4
        <3> HIDE DEF fee
        <3>5. QED
            BY <1>1, <1>2, <2>3, <3>1, <3>2, <3>3, <3>4
    <2>5. CASE t # e.token
        <3>1. bal'[t] = bal[t]
            <4> DEFINE net == n - fee
            <4>1. /\ bal' = Moved(bal, e.token, Contract, e.seller, net)
                  /\ bal[e.token][Contract] >= net /\ net \in Nat
                BY <1>2, <1>5
            <4> HIDE DEF e, net
            <4>2. QED BY <1>1, <1>4, <2>5, <4>1, MovedType
        <3>2. fees'[t] = fees[t]
            BY <1>4, <1>5, <2>5
        <3>3. QED
            BY <2>1, <2>2, <2>3, <2>5, <3>1, <3>2
    <2>6. QED BY <2>4, <2>5
<1>7. QED
    BY <1>3, <1>6, SolvencyStep

\* Every call on an existing escrow keeps the contract solvent.
LEMMA SolvencyEscrowStep ==
    ASSUME TypeOK, TypeOK', Solvency, NEW caller \in Accounts, NEW id \in Ids,
           EscrowStep(caller, id)
    PROVE  Solvency'
<1> DEFINE e == escrows[id]
<1>0. /\ e.buyer \in Holders /\ e.buyer # Contract /\ e.seller \in Holders
      /\ e.token \in Tokens /\ e.amount \in Nat /\ Contract \in Holders
    BY RecordAt, EscrowConstants DEF Holders
<1>a. /\ bal \in [Tokens -> [Holders -> Nat]] /\ fees \in [Tokens -> Nat]
      /\ bal' \in [Tokens -> [Holders -> Nat]]
    BY DEF TypeOK
<1>1. CASE FundEscrow(caller, id)
    <2>1. SaveEscrow(id, "Funded", e.amount) /\ "Funded" \in EscrowStatus
        BY <1>1 DEF FundEscrow, EscrowStatus
    <2>2. /\ Len(escrows') = Len(escrows) /\ escrows'[id].status = "Funded"
          /\ escrows'[id].amount = e.amount /\ escrows'[id].token = e.token
          /\ \A j \in Ids : j # id => escrows'[j] = escrows[j]
        BY <1>0, <2>1, SaveEscrowType
    <2>3. e.status = "Created" /\ fees' = fees /\ bal[e.token][e.buyer] >= e.amount
        BY <1>1 DEF FundEscrow, Fundable, Covers
    <2>4. /\ bal'[e.token][Contract] = bal[e.token][Contract] + e.amount
          /\ \A t \in Tokens \ {e.token} : bal'[t] = bal[t]
        <3>1. bal' = Moved(bal, e.token, e.buyer, Contract, e.amount)
            BY <1>1 DEF FundEscrow
        <3>a. bal[e.token][e.buyer] >= e.amount
            BY <2>3
        <3> DEFINE tok == e.token   buyer == e.buyer   n == e.amount
        <3>2. bal'[tok][Contract] = bal[tok][Contract] + n
            <4>1. /\ bal' = Moved(bal, tok, buyer, Contract, n) /\ bal[tok][buyer] >= n
                  /\ tok \in Tokens /\ buyer \in Holders /\ n \in Nat /\ buyer # Contract
                BY <1>0, <3>1, <3>a
            <4> HIDE DEF tok, buyer, n, e
            <4>2. Moved(bal, tok, buyer, Contract, n)[tok][Contract] = bal[tok][Contract] + n
                BY <1>a, <4>1, ContractMoved
            <4>3. QED BY <4>1, <4>2
        <3> HIDE DEF e
        <3>3. ASSUME NEW t \in Tokens, t # e.token PROVE bal'[t] = bal[t]
            BY <1>0, <1>a, <3>1, <3>3, MovedOther
        <3>4. QED
            BY <3>2, <3>3
    <2>5. ASSUME NEW t \in Tokens
          PROVE  bal'[t][Contract] - bal[t][Contract] >=
                   (LockedIn(t, escrows'[id]) - LockedIn(t, escrows[id])) + (fees'[t] - fees[t])
        <3>1. /\ LockedIn(t, escrows'[id]) = IF t = e.token THEN e.amount ELSE 0
              /\ LockedIn(t, e) = 0
            BY <2>2, <2>3 DEF LockedIn, IsLocked
        <3>2. bal[t][Contract] \in Nat /\ fees[t] \in Nat
            BY <1>0, <1>a
        <3>3. CASE t = e.token
            BY <1>0, <2>3, <2>4, <3>1, <3>2, <3>3
        <3>4. CASE t # e.token
            BY <2>3, <2>4, <3>1, <3>2, <3>4
        <3>5. QED BY <3>3, <3>4
    <2>6. QED
        BY <2>2, <2>5, SolvencyStep
<1>2. CASE ReleaseEscrow(caller, id)
    <2>1. SaveEscrow(id, "Completed", e.amount - e.amount) /\ "Completed" \in EscrowStatus
        BY <1>0, <1>2 DEF ReleaseEscrow, EscrowStatus
    <2>2. e.status = "Funded" /\ PaySeller(id, e.amount)
        BY <1>2 DEF ReleaseEscrow, Releasable
    <2>3. QED
        BY <1>0, <2>1, <2>2, SolvencyPaySeller
<1>3. CASE \E n \in Amounts : PartialRelease(caller, id, n)
    <2>1. PICK n \in Amounts : PartialRelease(caller, id, n)
        BY <1>3
    <2>2. n \in Nat /\ n <= e.amount /\ e.status = "Funded" /\ PaySeller(id, n)
        BY <2>1, EscrowConstants DEF PartialRelease, Releasable
    <2>3. CASE n = e.amount
        <3>1. SaveEscrow(id, "Completed", e.amount - n) /\ "Completed" \in EscrowStatus
            BY <2>1, <2>3 DEF PartialRelease, EscrowStatus
        <3>2. QED
            BY <2>2, <2>3, <3>1, SolvencyPaySeller
    <2>4. CASE n # e.amount
        <3>1. SaveEscrow(id, "Funded", e.amount - n) /\ "Funded" \in EscrowStatus
            BY <2>1, <2>4 DEF PartialRelease, EscrowStatus
        <3>2. QED
            BY <2>2, <3>1, SolvencyPaySeller
    <2>5. QED BY <2>3, <2>4
<1>4. CASE Dispute(caller, id)
    <2>1. SaveEscrow(id, "Disputed", e.amount) /\ "Disputed" \in EscrowStatus
        BY <1>4 DEF Dispute, EscrowStatus
    <2>2. /\ Len(escrows') = Len(escrows) /\ escrows'[id].status = "Disputed"
          /\ escrows'[id].amount = e.amount /\ escrows'[id].token = e.token
          /\ \A j \in Ids : j # id => escrows'[j] = escrows[j]
        BY <1>0, <2>1, SaveEscrowType
    <2>3. e.status = "Funded" /\ fees' = fees /\ bal' = bal
        BY <1>4 DEF Dispute
    <2>4. ASSUME NEW t \in Tokens
          PROVE  bal'[t][Contract] - bal[t][Contract] >=
                   (LockedIn(t, escrows'[id]) - LockedIn(t, escrows[id])) + (fees'[t] - fees[t])
        <3>1. LockedIn(t, escrows'[id]) = LockedIn(t, e)
            BY <2>2, <2>3 DEF LockedIn, IsLocked
        <3>2. bal[t][Contract] \in Nat /\ fees[t] \in Nat /\ LockedIn(t, e) \in Nat
            BY <1>0, <1>a DEF LockedIn
        <3>3. QED
            BY <2>3, <3>1, <3>2
    <2>5. QED
        BY <2>2, <2>4, SolvencyStep
<1>5. CASE RefundEscrow(caller, id)
    <2>1. SaveEscrow(id, "Cancelled", 0) /\ "Cancelled" \in EscrowStatus
        BY <1>5 DEF RefundEscrow, EscrowStatus
    <2>2. /\ Len(escrows') = Len(escrows) /\ escrows'[id].status = "Cancelled"
          /\ escrows'[id].token = e.token
          /\ \A j \in Ids : j # id => escrows'[j] = escrows[j]
        BY <2>1, SaveEscrowType
    <2>3. e.status = "Funded" /\ fees' = fees /\ bal[e.token][Contract] >= e.amount
        BY <1>5 DEF RefundEscrow, Covers
    <2>4. /\ bal'[e.token][Contract] = bal[e.token][Contract] - e.amount
          /\ \A t \in Tokens \ {e.token} : bal'[t] = bal[t]
        <3>1. bal' = Moved(bal, e.token, Contract, e.buyer, e.amount)
            BY <1>5 DEF RefundEscrow
        <3>a. bal[e.token][Contract] >= e.amount
            BY <2>3
        <3> DEFINE tok == e.token   buyer == e.buyer   n == e.amount
        <3>2. bal'[tok][Contract] = bal[tok][Contract] - n
            <4>1. /\ bal' = Moved(bal, tok, Contract, buyer, n) /\ bal[tok][Contract] >= n
                  /\ tok \in Tokens /\ buyer \in Holders /\ n \in Nat /\ buyer # Contract
                BY <1>0, <3>1, <3>a
            <4> HIDE DEF tok, buyer, n, e
            <4>2. Moved(bal, tok, Contract, buyer, n)[tok][Contract] = bal[tok][Contract] - n
                BY <1>a, <4>1, ContractMoved
            <4>3. QED BY <4>1, <4>2
        <3> HIDE DEF e
        <3>3. ASSUME NEW t \in Tokens, t # e.token PROVE bal'[t] = bal[t]
            BY <1>0, <1>a, <3>1, <3>3, MovedOther
        <3>4. QED
            BY <3>2, <3>3
    <2>5. ASSUME NEW t \in Tokens
          PROVE  bal'[t][Contract] - bal[t][Contract] >=
                   (LockedIn(t, escrows'[id]) - LockedIn(t, escrows[id])) + (fees'[t] - fees[t])
        <3>1. /\ LockedIn(t, escrows'[id]) = 0
              /\ LockedIn(t, e) = IF t = e.token THEN e.amount ELSE 0
            BY <2>2, <2>3 DEF LockedIn, IsLocked
        <3>2. bal[t][Contract] \in Nat /\ fees[t] \in Nat
            BY <1>0, <1>a
        <3>3. CASE t = e.token
            BY <1>0, <2>3, <2>4, <3>1, <3>2, <3>3
        <3>4. CASE t # e.token
            BY <2>3, <2>4, <3>1, <3>2, <3>4
        <3>5. QED BY <3>3, <3>4
    <2>6. QED
        BY <2>2, <2>5, SolvencyStep
<1>6. CASE \E b, s, f \in Amounts : ResolveDispute(caller, id, b, s, f)
    <2>1. PICK b, s, f \in Amounts : ResolveDispute(caller, id, b, s, f)
        BY <1>6
    <2>2. /\ b \in Nat /\ s \in Nat /\ f \in Nat /\ b + s + f <= e.amount
          /\ bal[e.token][Contract] >= b + s
        BY <2>1, EscrowConstants DEF ResolveDispute, AllocationBounded, Covers
    <2>3. SaveEscrow(id, "Completed", 0) /\ "Completed" \in EscrowStatus
        BY <2>1 DEF ResolveDispute, EscrowStatus
    <2>4. /\ Len(escrows') = Len(escrows) /\ escrows'[id].status = "Completed"
          /\ escrows'[id].token = e.token
          /\ \A j \in Ids : j # id => escrows'[j] = escrows[j]
        BY <2>3, SaveEscrowType
    <2>5. e.status = "Disputed" /\ fees' = [fees EXCEPT ![e.token] = fees[e.token] + f]
        BY <2>1 DEF ResolveDispute
    <2>6. /\ bal'[e.token][Contract] >= bal[e.token][Contract] - (b + s)
          /\ \A t \in Tokens \ {e.token} : bal'[t] = bal[t]
        <3> DEFINE m == Moved(bal, e.token, Contract, e.buyer, b)
        <3>1. bal[e.token][Contract] \in Nat /\ bal[e.token][Contract] >= b
            BY <1>0, <1>a, <2>2
        <3>2. /\ m \in [Tokens -> [Holders -> Nat]]
              /\ m[e.token][Contract] = bal[e.token][Contract] - b
              /\ \A t \in Tokens \ {e.token} : m[t] = bal[t]
            <4> HIDE DEF e
            <4>1. m \in [Tokens -> [Holders -> Nat]]
                BY <1>0, <1>a, <2>2, <3>1, MovedType
            <4>2. m[e.token][Contract] = bal[e.token][Contract] - b
                BY <1>0, <1>a, <2>2, <3>1, MovedType
            <4>3. \A t \in Tokens \ {e.token} : m[t] = bal[t]
                BY <1>0, <1>a DEF Moved
            <4>4. QED BY <4>1, <4>2, <4>3
        <3>3. bal' = Moved(m, e.token, Contract, e.seller, s)
            BY <2>1 DEF ResolveDispute
        <3> HIDE DEF m, e
        <3>4. m[e.token][Contract] \in Nat /\ m[e.token][Contract] >= s
            BY <1>0, <2>2, <3>1, <3>2
        <3>5. /\ \A t \in Tokens \ {e.token} : bal'[t] = m[t]
              /\ e.seller = Contract => bal'[e.token][Contract] = m[e.token][Contract]
              /\ e.seller # Contract => bal'[e.token][Contract] = m[e.token][Contract] - s
            BY <1>0, <2>2, <3>2, <3>3, <3>4, MovedType
        <3>6. bal'[e.token][Contract] >= bal[e.token][Contract] - (b + s)
            <4>1. CASE e.seller = Contract
                BY <2>2, <3>1, <3>2, <3>4, <3>5, <4>1
            <4>2. CASE e.seller # Contract
                BY <2>2, <3>1, <3>2, <3>4, <3>5, <4>2
            <4>3. QED BY <4>1, <4>2
        <3>7. QED
            BY <3>2, <3>5, <3>6
    <2>7. ASSUME NEW t \in Tokens
          PROVE  bal'[t][Contract] - bal[t][Contract] >=
                   (LockedIn(t, escrows'[id]) - LockedIn(t, escrows[id])) + (fees'[t] - fees[t])
        <3>1. /\ LockedIn(t, escrows'[id]) = 0
              /\ LockedIn(t, e) = IF t = e.token THEN e.amount ELSE 0
            BY <2>4, <2>5 DEF LockedIn, IsLocked
        <3>2. bal[t][Contract] \in Nat /\ bal'[t][Contract] \in Nat /\ fees[t] \in Nat
            BY <1>0, <1>a
        <3>3. fees'[t] = IF t = e.token THEN fees[t] + f ELSE fees[t]
            BY <1>0, <1>a, <2>5
        <3>4. CASE t = e.token
            BY <1>0, <2>2, <2>6, <3>1, <3>2, <3>3, <3>4
        <3>5. CASE t # e.token
            BY <2>6, <3>1, <3>2, <3>3, <3>5
        <3>6. QED BY <3>4, <3>5
    <2>8. QED
        BY <2>4, <2>7, SolvencyStep
<1>7. QED
    BY <1>1, <1>2, <1>3, <1>4, <1>5, <1>6 DEF EscrowStep

\* A call that touches no escrow keeps the contract solvent when its balance loses
\* no more than the fee pool does.
LEMMA SolvencyIdle ==
    ASSUME TypeOK, TypeOK', Solvency, escrows' = escrows,
           \A t \in Tokens : bal'[t][Contract] - bal[t][Contract] >= fees'[t] - fees[t]
    PROVE  Solvency'
<1> SUFFICES ASSUME NEW t \in Tokens
             PROVE  bal'[t][Contract] >= TotalLocked(t)' + fees'[t]
    BY DEF Solvency, TotalLocked
<1>1. /\ bal[t][Contract] \in Nat /\ bal'[t][Contract] \in Nat
      /\ fees[t] \in Nat /\ fees'[t] \in Nat
    BY DEF TypeOK, Holders
<1>2. bal[t][Contract] >= TotalLocked(t) + fees[t]
    BY DEF Solvency, TotalLocked
<1>3. TotalLocked(t)' = TotalLocked(t)
    BY LockedUnchanged
<1>4. TotalLocked(t) \in Int
    <2>1. \A i \in 1..Len(escrows) : Locked(t)[i] \in Int
        <3>1. escrows \in Seq(EscrowRecord)
            BY DEF TypeOK
        <3>2. ASSUME NEW i \in 1..Len(escrows) PROVE Locked(t)[i] \in Int
            BY <3>1, LockedInType DEF Locked, Ids
        <3>3. QED BY <3>2
    <2>2. Len(escrows) \in Nat
        BY DEF TypeOK
    <2>3. QED
        BY <2>1, <2>2, SumType DEF TotalLocked
<1>5. QED
    BY <1>1, <1>2, <1>3, <1>4

\* A new escrow holds nothing yet.
LEMMA SolvencyCreate ==
    ASSUME TypeOK, TypeOK', Solvency, NEW buyer, NEW s, NEW tok, NEW n, NEW exp,
           CreateEscrow(buyer, s, tok, n, exp)
    PROVE  Solvency'
<1> SUFFICES ASSUME NEW t \in Tokens
             PROVE  bal'[t][Contract] >= TotalLocked(t)' + fees'[t]
    BY DEF Solvency, TotalLocked
<1> DEFINE k == Len(escrows)
           f == Locked(t)
           g == Locked(t)'
           e == [buyer |-> buyer, seller |-> s, token |-> tok, amount |-> n,
                 original_amount |-> n, status |-> "Created", expiration |-> exp]
<1>1. /\ escrows \in Seq(EscrowRecord) /\ escrows' = Append(escrows, e)
      /\ bal' = bal /\ fees' = fees /\ k \in Nat
    BY DEF TypeOK, CreateEscrow
<1>2. e.status = "Created"
    OBVIOUS
<1>3. /\ Len(escrows') = k + 1 /\ escrows'[k + 1] = e
      /\ \A i \in 1..k : escrows'[i] = escrows[i]
    <2> HIDE DEF e
    <2>1. QED BY <1>1
<1>4. g[k + 1] = 0
    <2> HIDE DEF e
    <2>1. k + 1 \in 1..Len(escrows')
        BY <1>1, <1>3
    <2>2. QED BY <1>2, <1>3, <2>1 DEF Locked, Ids, LockedIn, IsLocked
<1>5. \A i \in 1..k : f[i] = g[i] /\ f[i] \in Int
    <2>1. ASSUME NEW i \in 1..k PROVE f[i] = g[i] /\ f[i] \in Int
        <3>1. i \in 1..Len(escrows') /\ escrows'[i] = escrows[i]
            BY <1>1, <1>3
        <3>2. f[i] = LockedIn(t, escrows[i]) /\ g[i] = LockedIn(t, escrows[i])
            BY <3>1 DEF Locked, Ids, LockedIn, IsLocked
        <3>3. LockedIn(t, escrows[i]) \in Nat
            BY <1>1, LockedInType
        <3>4. QED BY <3>2, <3>3
    <2>2. QED BY <2>1
<1>6. TotalLocked(t) = Sum(f, k) /\ TotalLocked(t)' = Sum(g, k + 1)
    BY <1>3 DEF TotalLocked, Sum
<1>7. Sum(g, k + 1) = Sum(f, k)
    <2> HIDE DEF f, g, k
    <2>1. Sum(g, k + 1) = Sum(g, k) + g[k + 1]
        BY <1>1, SumSucc
    <2>2. Sum(f, k) = Sum(g, k)
        BY <1>1, <1>5, SumExt
    <2>3. Sum(f, k) \in Int
        BY <1>1, <1>5, SumType
    <2>4. QED
        BY <1>4, <2>1, <2>2, <2>3
<1>8. bal[t][Contract] >= TotalLocked(t) + fees[t]
    BY DEF Solvency, TotalLocked
<1>9. QED
    BY <1>1, <1>6, <1>7, <1>8

\* Solvency is inductive relative to the types.
LEMMA SolvencyNext == TypeOK /\ TypeOK' /\ Solvency /\ [Next]_vars => Solvency'
<1> SUFFICES ASSUME TypeOK, TypeOK', Solvency, [Next]_vars PROVE Solvency'
    OBVIOUS
<1>0. /\ bal \in [Tokens -> [Holders -> Nat]] /\ fees \in [Tokens -> Nat]
      /\ Contract \in Holders
    BY DEF TypeOK, Holders
<1>a. ASSUME escrows' = escrows, fees' = fees, bal' = bal PROVE Solvency'
    <2>1. \A t \in Tokens : bal'[t][Contract] - bal[t][Contract] >= fees'[t] - fees[t]
        BY <1>0, <1>a
    <2>2. QED BY <1>a, <2>1, SolvencyIdle
<1>1. CASE Configure
    <2>1. CASE escrows' = escrows /\ fees' = fees /\ bal' = bal
        BY <1>a, <2>1
    <2>2. CASE \E caller \in Accounts, t \in Tokens, r \in Holders, n \in Amounts :
                  WithdrawFees(caller, t, r, n)
        <3>1. PICK tok \in Tokens, r \in Holders, n \in Amounts :
                  \E caller \in Accounts : WithdrawFees(caller, tok, r, n)
            BY <2>2
        <3>2. /\ n \in Nat /\ bal[tok][Contract] >= n
              /\ bal' = Moved(bal, tok, Contract, r, n)
              /\ fees' = [fees EXCEPT ![tok] = fees[tok] - n] /\ escrows' = escrows
            BY <3>1, EscrowConstants DEF WithdrawFees, Covers
        <3>3. ASSUME NEW t \in Tokens
              PROVE  bal'[t][Contract] - bal[t][Contract] >= fees'[t] - fees[t]
            <4>1. bal[t][Contract] \in Nat /\ fees[t] \in Nat
                BY <1>0
            <4>2. CASE t # tok
                <5>1. bal'[t] = bal[t]
                    BY <1>0, <3>2, <4>2, MovedOther
                <5>2. fees'[t] = fees[t]
                    BY <1>0, <3>2, <4>2
                <5>3. QED BY <4>1, <5>1, <5>2
            <4>3. CASE t = tok
                <5>1. fees'[t] = fees[t] - n
                    BY <1>0, <3>2, <4>3
                <5>2. CASE r = Contract
                    <6>1. bal'[t][Contract] = bal[t][Contract]
                        BY <1>0, <3>2, <4>3, <5>2, MovedType
                    <6>2. QED BY <3>2, <4>1, <5>1, <6>1
                <5>3. CASE r # Contract
                    <6>1. Moved(bal, tok, Contract, r, n)[tok][Contract] = bal[tok][Contract] - n
                        BY <1>0, <3>2, <5>3, ContractMoved
                    <6>2. bal'[t][Contract] = bal[t][Contract] - n
                        BY <3>2, <4>3, <6>1
                    <6>3. QED BY <3>2, <4>1, <5>1, <6>2
                <5>4. QED BY <5>2, <5>3
            <4>4. QED BY <4>2, <4>3
        <3>4. QED BY <3>2, <3>3, SolvencyIdle
    <2>3. QED
        BY <1>1, <2>1, <2>2 DEF Configure, SetAdmin, WhitelistToken, SetArbiter, SetProtocolFeeBps
<1>2. CASE Operate
    <2>1. PICK caller \in Accounts :
            \/ \E s \in Holders, t \in Tokens, n \in Deposits, exp \in Expirations :
                   CreateEscrow(caller, s, t, n, exp)
            \/ \E id \in Ids : EscrowStep(caller, id)
        BY <1>2, Zenon DEF Operate, EscrowStep
    <2>2. QED
        BY <2>1, SolvencyCreate, SolvencyEscrowStep
<1>3. CASE \E t \in Tokens, from \in Accounts, to \in Holders, n \in ExternalAmounts :
              TokenTransfer(t, from, to, n)
    <2>1. PICK tok \in Tokens, from \in Accounts, to \in Holders, n \in ExternalAmounts :
              TokenTransfer(tok, from, to, n)
        BY <1>3
    <2>2. /\ n \in Nat /\ from \in Holders /\ from # Contract /\ bal[tok][from] >= n
          /\ bal' = Moved(bal, tok, from, to, n) /\ fees' = fees /\ escrows' = escrows
        BY <2>1, EscrowConstants DEF TokenTransfer, Covers, Holders
    <2>3. ASSUME NEW t \in Tokens
          PROVE  bal'[t][Contract] - bal[t][Contract] >= fees'[t] - fees[t]
        <3>1. bal[t][Contract] \in Nat /\ fees[t] \in Nat
            BY <1>0
        <3>2. CASE t # tok
            <4>1. bal'[t] = bal[t]
                BY <1>0, <2>2, <3>2, MovedOther
            <4>2. QED BY <2>2, <3>1, <4>1
        <3>3. CASE t = tok /\ to = Contract
            <4>1. Moved(bal, tok, from, Contract, n)[tok][Contract] = bal[tok][Contract] + n
                BY <1>0, <2>2, ContractMoved
            <4>2. QED BY <2>2, <3>1, <3>3, <4>1
        <3>4. CASE t = tok /\ to # Contract
            <4>1. Moved(bal, tok, from, to, n)[tok][Contract] = bal[tok][Contract]
                BY <1>0, <2>2, <3>4 DEF Moved
            <4>2. QED BY <2>2, <3>1, <3>4, <4>1
        <3>5. QED BY <3>2, <3>3, <3>4
    <2>4. QED BY <2>2, <2>3, SolvencyIdle
<1>4. CASE AdvanceTime
    BY <1>a, <1>4 DEF AdvanceTime
<1>5. CASE UNCHANGED vars
    BY <1>a, <1>5 DEF vars
<1>6. QED
    BY <1>1, <1>2, <1>3, <1>4, <1>5 DEF Next

\* The contract is solvent at the start.
LEMMA SolvencyInit == Init => Solvency
<1> SUFFICES ASSUME Init, NEW t \in Tokens
             PROVE  bal[t][Contract] >= Sum(Locked(t), Len(escrows)) + fees[t]
    BY DEF Solvency
<1>1. Len(escrows) = 0 /\ bal[t][Contract] = 0 /\ fees[t] = 0
    BY DEF Init, Holders
<1>2. QED
    BY <1>1, SumZero

\* However many escrows are open in however many tokens, and whatever order their
\* releases, disputes, resolutions, refunds and the fee withdrawals come in, the
\* contract can pay everything it still owes.
THEOREM EscrowSolvent == Spec => []Solvency
<1>1. Init => TypeOK /\ Solvency
    BY TypeInit, SolvencyInit
<1>2. TypeOK /\ Solvency /\ [Next]_vars => (TypeOK /\ Solvency)'
    BY TypeNext, SolvencyNext
<1>3. QED
    BY <1>1, <1>2, PTL DEF Spec

\* What every pending claim on the contract needs of the token contract.
ClaimsCovered ==
    /\ \A i \in Ids : IsLocked(escrows[i]) => Covers(escrows[i].token, Contract, escrows[i].amount)
    /\ \A t \in Tokens : Covers(t, Contract, fees[t])

\* A total of natural numbers covers each of its entries.
LEMMA SolvencyCovers == TypeOK /\ Solvency => ClaimsCovered
<1> SUFFICES ASSUME TypeOK, Solvency PROVE ClaimsCovered
    OBVIOUS
<1>1. /\ escrows \in Seq(EscrowRecord) /\ Len(escrows) \in Nat
      /\ bal \in [Tokens -> [Holders -> Nat]] /\ fees \in [Tokens -> Nat]
      /\ Contract \in Holders
    <2>1. Contract \in Holders
        BY DEF Holders
    <2>2. QED BY <2>1 DEF TypeOK
<1>2. ASSUME NEW t \in Tokens
      PROVE  /\ \A i \in 1..Len(escrows) : Locked(t)[i] \in Nat
             /\ bal[t][Contract] >= Sum(Locked(t), Len(escrows)) + fees[t]
             /\ bal[t][Contract] \in Nat /\ fees[t] \in Nat
    <2>1. ASSUME NEW i \in 1..Len(escrows) PROVE Locked(t)[i] \in Nat
        BY <1>1, LockedInType DEF Locked, Ids
    <2>2. QED
        BY <1>1, <2>1 DEF Solvency
<1>3. ASSUME NEW i \in Ids, IsLocked(escrows[i])
      PROVE  bal[escrows[i].token][Contract] >= escrows[i].amount
    <2> DEFINE t == escrows[i].token   f == Locked(t)   n == Len(escrows)
    <2>1. t \in Tokens /\ i \in 1..n /\ escrows[i].amount \in Nat
        BY RecordAt DEF Ids
    <2>2. f[i] = escrows[i].amount
        BY <1>3 DEF Locked, LockedIn
    <2>3. /\ \A j \in 1..n : f[j] \in Nat
          /\ bal[t][Contract] >= Sum(f, n) + fees[t]
          /\ bal[t][Contract] \in Nat /\ fees[t] \in Nat
        BY <1>2, <2>1
    <2>4. Sum(f, n) \in Nat /\ f[i] <= Sum(f, n)
        <3> HIDE DEF f, n
        <3>1. n \in Nat
            BY <1>1 DEF n
        <3>2. QED BY <2>1, <2>3, <3>1, SumMember
    <2>5. bal[t][Contract] >= f[i]
        <3> HIDE DEF f, n, t
        <3>1. f[i] \in Nat
            BY <2>1, <2>3
        <3>2. QED BY <2>3, <2>4, <3>1
    <2>6. QED BY <2>2, <2>5
<1>4. ASSUME NEW t \in Tokens PROVE bal[t][Contract] >= fees[t]
    <2> DEFINE f == Locked(t)   n == Len(escrows)
    <2>1. /\ \A j \in 1..n : f[j] \in Nat
          /\ bal[t][Contract] >= Sum(f, n) + fees[t]
          /\ bal[t][Contract] \in Nat /\ fees[t] \in Nat
        BY <1>2
    <2>2. Sum(f, n) \in Nat
        <3> HIDE DEF f, n
        <3>1. n \in Nat
            BY <1>1 DEF n
        <3>2. CASE n = 0
            BY <3>2, SumZero
        <3>3. CASE n # 0
            <4>1. 1 \in 1..n
                BY <3>1, <3>3
            <4>2. QED BY <2>1, <3>1, <4>1, SumMember
        <3>4. QED BY <3>2, <3>3
    <2> HIDE DEF f, n
    <2>3. QED BY <2>1, <2>2
<1>5. QED
    BY <1>3, <1>4 DEF ClaimsCovered, Covers

\* The token contract never refuses a claim for want of funds: at every instant the
\* contract's balance covers the whole of any one funded or disputed escrow, and
\* covers the accrued fees -- the guard Covers of release_escrow, partial_release,
\* refund_escrow, resolve_dispute and withdraw_fees is never what stops them.
THEOREM EveryClaimCovered == Spec => []ClaimsCovered
BY EscrowSolvent, TypeCorrect, SolvencyCovers, PTL

-----------------------------------------------------------------------------
(* What a call on one escrow does to its record and to its payouts *)

\* Nothing but the record and the payouts of escrow id changes, and its terms stay.
TouchesOnly(id) ==
    /\ Len(escrows') = Len(escrows)
    /\ \A j \in Ids : j # id => escrows'[j] = escrows[j] /\ paid'[j] = paid[j]
    /\ escrows'[id].buyer = escrows[id].buyer
    /\ escrows'[id].seller = escrows[id].seller
    /\ escrows'[id].token = escrows[id].token
    /\ escrows'[id].original_amount = escrows[id].original_amount
    /\ escrows'[id].expiration = escrows[id].expiration

\* The record of escrow id goes from status a to status b with n left, and b, s and
\* f more are paid to the buyer, to the seller and as a fee.
Pays(id, from, to, n, b, s, f) ==
    /\ escrows[id].status = from
    /\ escrows'[id].status = to
    /\ escrows'[id].amount = n
    /\ paid'[id].buyer = paid[id].buyer + b
    /\ paid'[id].seller = paid[id].seller + s
    /\ paid'[id].fee = paid[id].fee + f

Funds(id) == Pays(id, "Created", "Funded", escrows[id].amount, 0, 0, 0)

\* A release of n of which fee is kept.
Releases(id, n, fee) ==
    LET rest == escrows[id].amount - n IN
    /\ rest \in Nat
    /\ fee <= n - fee
    /\ Pays(id, "Funded", IF rest = 0 THEN "Completed" ELSE "Funded", rest, 0, n - fee, fee)

Disputes(id) == Pays(id, "Funded", "Disputed", escrows[id].amount, 0, 0, 0)

Refunds(id) == Pays(id, "Funded", "Cancelled", 0, escrows[id].amount, 0, 0)

Resolves(id, b, s, f) ==
    /\ b + s + f <= escrows[id].amount
    /\ Pays(id, "Disputed", "Completed", 0, b, s, f)

\* A call that leaves the payouts alone pays nothing.
LEMMA PaysNothing ==
    ASSUME TypeOK, NEW id \in Ids, paid' = paid
    PROVE  /\ paid'[id].buyer = paid[id].buyer + 0
           /\ paid'[id].seller = paid[id].seller + 0
           /\ paid'[id].fee = paid[id].fee + 0
<1>1. paid[id] \in Payout
    BY RecordAt
<1>2. QED
    BY <1>1 DEF Payout

\* Both releases pay the seller and book the fee on one escrow.
LEMMA PaySellerEffect ==
    ASSUME TypeOK, NEW id \in Ids, NEW n \in Nat, NEW status \in EscrowStatus,
           n <= escrows[id].amount, escrows[id].status = "Funded",
           status = IF n = escrows[id].amount THEN "Completed" ELSE "Funded",
           PaySeller(id, n), SaveEscrow(id, status, escrows[id].amount - n)
    PROVE  /\ TouchesOnly(id)
           /\ \E fee \in Nat : Releases(id, n, fee)
<1> DEFINE fee  == ComputeFee(n, feeBps)
           rest == escrows[id].amount - n
<1>1. fee \in Nat /\ fee <= n - fee /\ n - fee \in Nat
    <2>1. feeBps \in 0..MAX_FEE_BPS
        BY DEF TypeOK
    <2>2. fee \in Nat /\ fee <= n - fee
        BY <2>1, FeeBound
    <2> HIDE DEF fee
    <2>3. QED BY <2>2
<1>2. rest \in Nat /\ (rest = 0 <=> n = escrows[id].amount)
    BY RecordAt
<1>3. /\ Len(escrows') = Len(escrows)
      /\ escrows'[id].status = status /\ escrows'[id].amount = rest
      /\ escrows'[id].token = escrows[id].token
      /\ escrows'[id].original_amount = escrows[id].original_amount
      /\ escrows'[id].buyer = escrows[id].buyer
      /\ escrows'[id].seller = escrows[id].seller
      /\ escrows'[id].expiration = escrows[id].expiration
      /\ \A j \in Ids : j # id => escrows'[j] = escrows[j]
    <2>1. SaveEscrow(id, status, rest)
        OBVIOUS
    <2> HIDE DEF rest
    <2>2. QED BY <1>2, <2>1, SaveEscrowType
<1>4. /\ paid'[id] = Book(paid[id], 0, n - fee, fee)
      /\ \A j \in Ids : j # id => paid'[j] = paid[j]
    <2> DEFINE net == n - fee   none == 0
    <2>1. /\ paid' = [paid EXCEPT ![id] = Book(@, none, net, fee)]
          /\ net \in Nat /\ none \in Nat /\ fee \in Nat
        BY <1>1 DEF PaySeller
    <2> HIDE DEF net, fee, none
    <2>2. /\ paid'[id] = Book(paid[id], none, net, fee)
          /\ \A j \in Ids : j # id => paid'[j] = paid[j]
        BY <2>1, BookStep, Zenon
    <2>3. QED BY <2>2 DEF net, none
<1>5. TouchesOnly(id)
    BY <1>3, <1>4 DEF TouchesOnly
<1>6. Releases(id, n, fee)
    <2> HIDE DEF fee
    <2>1. /\ paid'[id].buyer = paid[id].buyer + 0
          /\ paid'[id].seller = paid[id].seller + (n - fee)
          /\ paid'[id].fee = paid[id].fee + fee
        BY <1>4 DEF Book
    <2>2. QED
        BY <1>1, <1>2, <1>3, <2>1 DEF Releases, Pays
<1>7. QED
    BY <1>1, <1>5, <1>6

\* Every call on an existing escrow is one of five effects on that escrow alone.
LEMMA EscrowStepEffect ==
    ASSUME TypeOK, NEW caller \in Accounts, NEW id \in Ids, EscrowStep(caller, id)
    PROVE  /\ TouchesOnly(id)
           /\ \/ Funds(id)
              \/ \E n, fee \in Nat : Releases(id, n, fee)
              \/ Disputes(id)
              \/ Refunds(id)
              \/ \E b, s, f \in Nat : Resolves(id, b, s, f)
<1> DEFINE e == escrows[id]
<1>0. e.amount \in Nat
    BY RecordAt
<1>1. CASE FundEscrow(caller, id)
    <2>1. SaveEscrow(id, "Funded", e.amount) /\ "Funded" \in EscrowStatus
        BY <1>1 DEF FundEscrow, EscrowStatus
    <2>2. e.status = "Created" /\ paid' = paid
        BY <1>1 DEF FundEscrow, Fundable
    <2>3. TouchesOnly(id)
        BY <1>0, <2>1, <2>2, SaveEscrowType DEF TouchesOnly
    <2>4. escrows'[id].status = "Funded" /\ escrows'[id].amount = e.amount
        BY <1>0, <2>1, SaveEscrowType
    <2>5. Funds(id)
        BY <2>2, <2>4, PaysNothing DEF Funds, Pays
    <2>6. QED BY <2>3, <2>5
<1>2. CASE ReleaseEscrow(caller, id)
    <2>1. /\ SaveEscrow(id, "Completed", e.amount - e.amount) /\ "Completed" \in EscrowStatus
          /\ PaySeller(id, e.amount) /\ e.status = "Funded"
        <3>1. e.amount - e.amount = 0
            BY <1>0
        <3>2. QED
            BY <1>2, <3>1 DEF ReleaseEscrow, Releasable, EscrowStatus
    <2>2. TouchesOnly(id) /\ \E fee \in Nat : Releases(id, e.amount, fee)
        BY <1>0, <2>1, PaySellerEffect
    <2>3. QED BY <1>0, <2>2
<1>3. CASE \E n \in Amounts : PartialRelease(caller, id, n)
    <2>1. PICK n \in Amounts : PartialRelease(caller, id, n)
        BY <1>3
    <2> DEFINE st == IF n = e.amount THEN "Completed" ELSE "Funded"
    <2>2. n \in Nat /\ n <= e.amount
        BY <1>0, <2>1, EscrowConstants DEF PartialRelease
    <2>3. /\ SaveEscrow(id, st, e.amount - n) /\ st \in EscrowStatus
          /\ PaySeller(id, n) /\ e.status = "Funded"
        BY <2>1 DEF PartialRelease, Releasable, EscrowStatus
    <2>4. TouchesOnly(id) /\ \E fee \in Nat : Releases(id, n, fee)
        BY <2>2, <2>3, PaySellerEffect
    <2>5. QED BY <2>2, <2>4
<1>4. CASE Dispute(caller, id)
    <2>1. SaveEscrow(id, "Disputed", e.amount) /\ "Disputed" \in EscrowStatus
        BY <1>4 DEF Dispute, EscrowStatus
    <2>2. e.status = "Funded" /\ paid' = paid
        BY <1>4 DEF Dispute
    <2>3. TouchesOnly(id)
        BY <1>0, <2>1, <2>2, SaveEscrowType DEF TouchesOnly
    <2>4. escrows'[id].status = "Disputed" /\ escrows'[id].amount = e.amount
        BY <1>0, <2>1, SaveEscrowType
    <2>5. Disputes(id)
        BY <2>2, <2>4, PaysNothing DEF Disputes, Pays
    <2>6. QED BY <2>3, <2>5
<1>5. CASE RefundEscrow(caller, id)
    <2>1. SaveEscrow(id, "Cancelled", 0) /\ "Cancelled" \in EscrowStatus
        BY <1>5 DEF RefundEscrow, EscrowStatus
    <2>2. e.status = "Funded" /\ paid' = [paid EXCEPT ![id] = Book(@, e.amount, 0, 0)]
        BY <1>5 DEF RefundEscrow
    <2>3. /\ paid'[id] = Book(paid[id], e.amount, 0, 0)
          /\ \A j \in Ids : j # id => paid'[j] = paid[j]
        <3> DEFINE n == e.amount   none == 0
        <3>1. /\ n \in Nat /\ none \in Nat
              /\ paid' = [paid EXCEPT ![id] = Book(@, n, none, none)]
            BY <1>0, <2>2
        <3> HIDE DEF n, none
        <3>2. /\ paid'[id] = Book(paid[id], n, none, none)
              /\ \A j \in Ids : j # id => paid'[j] = paid[j]
            BY <3>1, BookStep
        <3>3. QED BY <3>2 DEF n, none
    <2>4. TouchesOnly(id)
        BY <2>1, <2>3, SaveEscrowType DEF TouchesOnly
    <2>5. escrows'[id].status = "Cancelled" /\ escrows'[id].amount = 0
        BY <2>1, SaveEscrowType
    <2>6. Refunds(id)
        BY <2>2, <2>3, <2>5 DEF Refunds, Pays, Book
    <2>7. QED BY <2>4, <2>6
<1>6. CASE \E b, s, f \in Amounts : ResolveDispute(caller, id, b, s, f)
    <2>1. PICK b, s, f \in Amounts : ResolveDispute(caller, id, b, s, f)
        BY <1>6
    <2>2. b \in Nat /\ s \in Nat /\ f \in Nat /\ b + s + f <= e.amount
        BY <2>1, EscrowConstants DEF ResolveDispute, AllocationBounded
    <2>3. SaveEscrow(id, "Completed", 0) /\ "Completed" \in EscrowStatus
        BY <2>1 DEF ResolveDispute, EscrowStatus
    <2>4. e.status = "Disputed" /\ paid' = [paid EXCEPT ![id] = Book(@, b, s, f)]
        BY <2>1 DEF ResolveDispute
    <2>5. /\ paid'[id] = Book(paid[id], b, s, f)
          /\ \A j \in Ids : j # id => paid'[j] = paid[j]
        BY <2>2, <2>4, BookStep
    <2>6. TouchesOnly(id)
        BY <2>3, <2>5, SaveEscrowType DEF TouchesOnly
    <2>7. escrows'[id].status = "Completed" /\ escrows'[id].amount = 0
        BY <2>3, SaveEscrowType
    <2>8. Resolves(id, b, s, f)
        BY <2>2, <2>4, <2>5, <2>7 DEF Resolves, Pays, Book
    <2>9. QED BY <2>2, <2>6, <2>8
<1>7. QED
    BY <1>1, <1>2, <1>3, <1>4, <1>5, <1>6 DEF EscrowStep

\* A new escrow leaves the earlier ones and their payouts alone.
LEMMA CreateEffect ==
    ASSUME TypeOK, NEW buyer \in Accounts, NEW seller, NEW t, NEW n \in Deposits, NEW exp,
           CreateEscrow(buyer, seller, t, n, exp)
    PROVE  /\ Ids' = Ids \cup {Len(escrows) + 1}
           /\ \A j \in Ids : escrows'[j] = escrows[j] /\ paid'[j] = paid[j]
           /\ LET e == escrows'[Len(escrows) + 1] IN
              /\ e.status = "Created"
              /\ e.amount = n /\ e.original_amount = n /\ n \in Nat /\ n > 0
           /\ paid'[Len(escrows) + 1] = NothingPaid
<1> DEFINE k == Len(escrows)
           e == [buyer |-> buyer, seller |-> seller, token |-> t, amount |-> n,
                 original_amount |-> n, status |-> "Created", expiration |-> exp]
<1>1. /\ escrows \in Seq(EscrowRecord) /\ paid \in Seq(Payout)
      /\ k \in Nat /\ Len(paid) = k
    BY DEF TypeOK, Payout
<1>2. escrows' = Append(escrows, e) /\ paid' = Append(paid, NothingPaid)
    BY DEF CreateEscrow
<1>3. /\ Len(escrows') = k + 1 /\ escrows'[k + 1] = e /\ paid'[k + 1] = NothingPaid
      /\ \A j \in 1..k : escrows'[j] = escrows[j] /\ paid'[j] = paid[j]
    <2> HIDE DEF e
    <2>1. QED BY <1>1, <1>2
<1>4. Ids' = Ids \cup {k + 1}
    BY <1>1, <1>3 DEF Ids
<1>5. n \in Nat /\ n > 0
    BY EscrowConstants DEF CreateEscrow
<1>6. QED
    BY <1>3, <1>4, <1>5 DEF Ids

\* Every other step leaves all records and payouts as they are.
LEMMA StepKinds ==
    ASSUME [Next]_vars
    PROVE  \/ UNCHANGED <<escrows, paid>>
           \/ \E caller \in Accounts, s \in Holders, t \in Tokens, n \in Deposits,
                 exp \in Expirations : CreateEscrow(caller, s, t, n, exp)
           \/ \E caller \in Accounts : \E id \in Ids : EscrowStep(caller, id)
<1>1. CASE Configure
    BY <1>1 DEF Configure, SetAdmin, WhitelistToken, SetArbiter, SetProtocolFeeBps, WithdrawFees
<1>2. CASE Operate
    BY <1>2, Zenon DEF Operate, EscrowStep
<1>3. CASE \E t \in Tokens, from \in Accounts, to \in Holders, n \in ExternalAmounts :
              TokenTransfer(t, from, to, n)
    BY <1>3 DEF TokenTransfer
<1>4. CASE AdvanceTime
    BY <1>4 DEF AdvanceTime
<1>5. CASE UNCHANGED vars
    BY <1>5 DEF vars
<1>6. QED
    BY <1>1, <1>2, <1>3, <1>4, <1>5 DEF Next

-----------------------------------------------------------------------------
(* Conservation *)

\* The part of Conservation about escrow i, and what makes it inductive: a deposit
\* is positive from the start (create_escrow), which is why a funded escrow is.
Conserved(i) ==
    LET e == escrows[i] IN
    /\ e.original_amount > 0
    /\ e.status = "Created" => e.amount = e.original_amount /\ PaidOut(i) = 0
    /\ IsLocked(e) => /\ e.amount > 0
                      /\ e.amount + PaidOut(i) = e.original_amount
                      /\ paid[i].buyer = 0
    /\ e.status = "Cancelled" => e.amount = 0 /\ PaidOut(i) = e.original_amount
    /\ e.status = "Completed" => e.amount = 0 /\ PaidOut(i) <= e.original_amount

ConservationInv == \A i \in Ids : Conserved(i)

\* The numbers Conserved is about.
LEMMA PaidTypes ==
    ASSUME TypeOK, NEW i \in Ids
    PROVE  /\ escrows[i].amount \in Nat /\ escrows[i].original_amount \in Nat
           /\ escrows[i].status \in EscrowStatus
           /\ paid[i].buyer \in Nat /\ paid[i].seller \in Nat /\ paid[i].fee \in Nat
<1>1. escrows[i] \in EscrowRecord /\ paid[i] \in Payout
    BY RecordAt
<1>2. QED
    BY <1>1 DEF EscrowRecord, Payout

\* An escrow whose record and payouts stay is still accounted for.
LEMMA ConservedUnchanged ==
    ASSUME NEW i, Conserved(i), escrows'[i] = escrows[i], paid'[i] = paid[i]
    PROVE  Conserved(i)'
BY DEF Conserved, PaidOut, IsLocked

\* Each of the five effects keeps the account of its escrow balanced.
LEMMA ConservedEffect ==
    ASSUME TypeOK, TypeOK', NEW id \in Ids, Conserved(id), TouchesOnly(id),
           \/ Funds(id)
           \/ \E n, fee \in Nat : Releases(id, n, fee)
           \/ Disputes(id)
           \/ Refunds(id)
           \/ \E b, s, f \in Nat : Resolves(id, b, s, f)
    PROVE  Conserved(id)'
<1> DEFINE e == escrows[id]    p == paid[id]
           d == escrows'[id]   q == paid'[id]
<1>1. /\ e.amount \in Nat /\ e.original_amount \in Nat
      /\ p.buyer \in Nat /\ p.seller \in Nat /\ p.fee \in Nat
    BY PaidTypes
<1>2. d.original_amount = e.original_amount
    BY DEF TouchesOnly
<1>3. PaidOut(id)' = q.buyer + q.seller + q.fee
    BY DEF PaidOut
<1>4. PaidOut(id) = p.buyer + p.seller + p.fee
    BY DEF PaidOut
<1>5. Conserved(id)' <=>
        /\ d.original_amount > 0
        /\ d.status = "Created" => d.amount = d.original_amount /\ PaidOut(id)' = 0
        /\ d.status \in {"Funded", "Disputed"} =>
                /\ d.amount > 0 /\ d.amount + PaidOut(id)' = d.original_amount
                /\ q.buyer = 0
        /\ d.status = "Cancelled" => d.amount = 0 /\ PaidOut(id)' = d.original_amount
        /\ d.status = "Completed" => d.amount = 0 /\ PaidOut(id)' <= d.original_amount
    BY DEF Conserved, IsLocked
<1>6. CASE Funds(id)
    <2>1. /\ e.amount = e.original_amount /\ PaidOut(id) = 0 /\ e.original_amount > 0
          /\ d.status = "Funded" /\ d.amount = e.amount
          /\ q.buyer = p.buyer + 0 /\ q.seller = p.seller + 0 /\ q.fee = p.fee + 0
        BY <1>6 DEF Funds, Pays, Conserved
    <2> HIDE DEF d, e, p, q
    <2>2. p.buyer = 0 /\ p.seller = 0 /\ p.fee = 0
        <3>1. p.buyer + p.seller + p.fee = 0
            BY <1>4, <2>1
        <3>2. QED BY ONLY <1>1, <3>1
    <2>a. PaidOut(id)' = 0 /\ q.buyer = 0
        BY <1>3, <2>1, <2>2
    <2>3. QED
        BY <1>1, <1>2, <1>5, <2>1, <2>a
<1>7. CASE \E n, fee \in Nat : Releases(id, n, fee)
    <2>1. PICK n \in Nat, fee \in Nat : Releases(id, n, fee)
        BY <1>7
    <2>2. /\ e.status = "Funded" /\ e.amount + PaidOut(id) = e.original_amount
          /\ p.buyer = 0 /\ e.original_amount > 0
        BY <2>1 DEF Releases, Pays, Conserved, IsLocked
    <2>3. /\ d.status = IF d.amount = 0 THEN "Completed" ELSE "Funded"
          /\ d.amount \in Nat /\ d.amount = e.amount - n
          /\ q.buyer = p.buyer + 0 /\ q.seller = p.seller + (n - fee) /\ q.fee = p.fee + fee
        BY <2>1 DEF Releases, Pays
    <2>4. PaidOut(id)' = PaidOut(id) + n /\ PaidOut(id) \in Nat /\ q.buyer = 0
        BY <1>1, <1>3, <1>4, <2>2, <2>3
    <2>5. d.amount + PaidOut(id)' = d.original_amount
        BY <1>1, <1>2, <2>2, <2>3, <2>4
    <2> HIDE DEF d, e, p, q
    <2>6. QED
        BY <1>1, <1>2, <1>5, <2>2, <2>3, <2>4, <2>5
<1>8. CASE Disputes(id)
    BY <1>1, <1>2, <1>3, <1>4, <1>5, <1>8 DEF Disputes, Pays, Conserved, IsLocked
<1>9. CASE Refunds(id)
    BY <1>1, <1>2, <1>3, <1>4, <1>5, <1>9 DEF Refunds, Pays, Conserved, IsLocked
<1>10. CASE \E b, s, f \in Nat : Resolves(id, b, s, f)
    <2>1. PICK b \in Nat, s \in Nat, f \in Nat : Resolves(id, b, s, f)
        BY <1>10
    <2>2. /\ e.amount + PaidOut(id) = e.original_amount /\ e.original_amount > 0
          /\ b + s + f <= e.amount /\ d.status = "Completed" /\ d.amount = 0
          /\ q.buyer = p.buyer + b /\ q.seller = p.seller + s /\ q.fee = p.fee + f
        BY <2>1 DEF Resolves, Pays, Conserved, IsLocked
    <2>3. PaidOut(id)' <= e.original_amount
        BY <1>1, <1>3, <1>4, <2>2
    <2> HIDE DEF d, e, p, q
    <2>4. QED
        BY <1>1, <1>2, <1>5, <2>2, <2>3
<1>11. QED
    BY <1>6, <1>7, <1>8, <1>9, <1>10

\* Conservation with the positive deposits is inductive relative to the types.
LEMMA ConservationNext ==
    TypeOK /\ TypeOK' /\ ConservationInv /\ [Next]_vars => ConservationInv'
<1> SUFFICES ASSUME TypeOK, TypeOK', ConservationInv, [Next]_vars, NEW i \in Ids'
             PROVE  Conserved(i)'
    BY DEF ConservationInv
<1>1. CASE UNCHANGED <<escrows, paid>>
    <2>1. i \in Ids
        BY <1>1 DEF Ids
    <2>2. QED BY <1>1, <2>1, ConservedUnchanged DEF ConservationInv
<1>2. CASE \E caller \in Accounts, s \in Holders, t \in Tokens, n \in Deposits,
              exp \in Expirations : CreateEscrow(caller, s, t, n, exp)
    <2>1. PICK caller \in Accounts, s \in Holders, t \in Tokens, n \in Deposits,
               exp \in Expirations : CreateEscrow(caller, s, t, n, exp)
        BY <1>2
    <2> DEFINE k == Len(escrows) + 1
    <2>2. /\ i \in Ids \/ i = k
          /\ \A j \in Ids : escrows'[j] = escrows[j] /\ paid'[j] = paid[j]
          /\ escrows'[k].status = "Created"
          /\ escrows'[k].amount = n /\ escrows'[k].original_amount = n /\ n > 0
          /\ paid'[k] = NothingPaid
        BY <2>1, CreateEffect
    <2>3. CASE i \in Ids
        BY <2>2, <2>3, ConservedUnchanged DEF ConservationInv
    <2>4. CASE i = k
        <3>1. PaidOut(i)' = 0
            BY <2>2, <2>4 DEF PaidOut, NothingPaid
        <3> HIDE DEF k
        <3>2. QED BY <2>2, <2>4, <3>1 DEF Conserved, IsLocked
    <2>5. QED BY <2>2, <2>3, <2>4
<1>3. CASE \E caller \in Accounts : \E id \in Ids : EscrowStep(caller, id)
    <2>1. PICK caller \in Accounts, id \in Ids : EscrowStep(caller, id)
        BY <1>3
    <2>2. /\ TouchesOnly(id)
          /\ \/ Funds(id)
             \/ \E n, fee \in Nat : Releases(id, n, fee)
             \/ Disputes(id)
             \/ Refunds(id)
             \/ \E b, s, f \in Nat : Resolves(id, b, s, f)
        BY <2>1, EscrowStepEffect
    <2>3. i \in Ids /\ \A j \in Ids : j # id => escrows'[j] = escrows[j] /\ paid'[j] = paid[j]
        BY <2>2 DEF TouchesOnly, Ids
    <2>4. CASE i = id
        <3>1. Conserved(id)
            BY DEF ConservationInv
        <3>2. Conserved(id)'
            BY <2>2, <3>1, ConservedEffect
        <3>3. QED BY <2>4, <3>2
    <2>5. CASE i # id
        BY <2>3, <2>5, ConservedUnchanged DEF ConservationInv
    <2>6. QED BY <2>4, <2>5
<1>4. QED
    BY <1>1, <1>2, <1>3, StepKinds

\* Per escrow, nothing is ever paid before the deposit, twice, or beyond it: what
\* is still locked and what was paid out always add up to the deposit, and once the
\* escrow is closed nothing is left in it.
THEOREM EscrowConserves == Spec => []Conservation
<1>1. Init => TypeOK /\ ConservationInv
    BY TypeInit DEF Init, ConservationInv, Ids
<1>2. TypeOK /\ ConservationInv /\ [Next]_vars => (TypeOK /\ ConservationInv)'
    BY TypeNext, ConservationNext
<1>3. ConservationInv => Conservation
    BY DEF ConservationInv, Conserved, Conservation
<1>4. QED
    BY <1>1, <1>2, <1>3, PTL DEF Spec

-----------------------------------------------------------------------------
(* Fees *)

\* FeeNeverExceedsPayout is inductive relative to the types: each release adds at
\* most as much to the fee as to the seller (FeeBound), whatever the rate was.
LEMMA FeesNext ==
    TypeOK /\ FeeNeverExceedsPayout /\ [Next]_vars => FeeNeverExceedsPayout'
<1> SUFFICES ASSUME TypeOK, FeeNeverExceedsPayout, [Next]_vars, NEW i \in Ids',
                    escrows'[i].status # "Completed"
             PROVE  paid'[i].fee <= paid'[i].seller
    BY DEF FeeNeverExceedsPayout
<1>1. CASE UNCHANGED <<escrows, paid>>
    BY <1>1 DEF FeeNeverExceedsPayout, Ids
<1>2. CASE \E caller \in Accounts, s \in Holders, t \in Tokens, n \in Deposits,
              exp \in Expirations : CreateEscrow(caller, s, t, n, exp)
    <2>1. /\ i \in Ids \/ i = Len(escrows) + 1
          /\ \A j \in Ids : escrows'[j] = escrows[j] /\ paid'[j] = paid[j]
          /\ paid'[Len(escrows) + 1] = NothingPaid
        BY <1>2, CreateEffect
    <2>2. QED
        BY <2>1 DEF FeeNeverExceedsPayout, NothingPaid
<1>3. CASE \E caller \in Accounts : \E id \in Ids : EscrowStep(caller, id)
    <2>1. PICK caller \in Accounts, id \in Ids : EscrowStep(caller, id)
        BY <1>3
    <2>2. /\ TouchesOnly(id)
          /\ \/ Funds(id)
             \/ \E n, fee \in Nat : Releases(id, n, fee)
             \/ Disputes(id)
             \/ Refunds(id)
             \/ \E b, s, f \in Nat : Resolves(id, b, s, f)
        BY <2>1, EscrowStepEffect
    <2>3. i \in Ids /\ \A j \in Ids : j # id => escrows'[j] = escrows[j] /\ paid'[j] = paid[j]
        BY <2>2 DEF TouchesOnly, Ids
    <2>4. CASE i # id
        BY <2>3, <2>4 DEF FeeNeverExceedsPayout
    <2>5. CASE i = id
        <3>1. paid[id].fee \in Nat /\ paid[id].seller \in Nat
            BY PaidTypes
        <3>2. escrows[id].status # "Completed" => paid[id].fee <= paid[id].seller
            BY DEF FeeNeverExceedsPayout
        <3>3. CASE Funds(id) \/ Disputes(id) \/ Refunds(id)
            BY <2>5, <3>1, <3>2, <3>3 DEF Funds, Disputes, Refunds, Pays
        <3>4. CASE \E n, fee \in Nat : Releases(id, n, fee)
            <4>1. PICK n \in Nat, fee \in Nat : Releases(id, n, fee)
                BY <3>4
            <4>2. /\ paid'[id].seller = paid[id].seller + (n - fee)
                  /\ paid'[id].fee = paid[id].fee + fee
                  /\ fee <= n - fee /\ paid[id].fee <= paid[id].seller
                BY <3>2, <4>1 DEF Releases, Pays
            <4>3. QED BY <2>5, <3>1, <4>2
        <3>5. CASE \E b, s, f \in Nat : Resolves(id, b, s, f)
            BY <2>5, <3>5 DEF Resolves, Pays
        <3>6. QED BY <2>2, <3>3, <3>4, <3>5
    <2>6. QED BY <2>4, <2>5
<1>4. QED
    BY <1>1, <1>2, <1>3, StepKinds

\* However often the admin changes the rate between two partial releases, and
\* however the amounts truncate, an escrow no arbiter has closed has paid its
\* seller at least as much as it has paid in fees.
THEOREM FeesBounded == Spec => []FeeNeverExceedsPayout
<1>1. Init => TypeOK /\ FeeNeverExceedsPayout
    BY TypeInit DEF Init, FeeNeverExceedsPayout, Ids
<1>2. TypeOK /\ FeeNeverExceedsPayout /\ [Next]_vars => (TypeOK /\ FeeNeverExceedsPayout)'
    BY TypeNext, FeesNext
<1>3. QED
    BY <1>1, <1>2, PTL DEF Spec

-----------------------------------------------------------------------------
(* The life of an escrow *)

\* The effects change the status along the transition map only, and none of them
\* starts from a closed escrow.
LEMMA EffectFollowsMap ==
    ASSUME NEW id, \/ Funds(id)
                   \/ \E n, fee \in Nat : Releases(id, n, fee)
                   \/ Disputes(id)
                   \/ Refunds(id)
                   \/ \E b, s, f \in Nat : Resolves(id, b, s, f)
    PROVE  /\ escrows[id].status # escrows'[id].status =>
                  AssertTransitionAllowed(escrows[id].status, escrows'[id].status)
           /\ escrows[id].status \notin {"Completed", "Cancelled"}
<1>1. CASE Funds(id)
    BY <1>1 DEF Funds, Pays, AssertTransitionAllowed
<1>2. CASE \E n, fee \in Nat : Releases(id, n, fee)
    BY <1>2 DEF Releases, Pays, AssertTransitionAllowed
<1>3. CASE Disputes(id)
    BY <1>3 DEF Disputes, Pays, AssertTransitionAllowed
<1>4. CASE Refunds(id)
    BY <1>4 DEF Refunds, Pays, AssertTransitionAllowed
<1>5. CASE \E b, s, f \in Nat : Resolves(id, b, s, f)
    BY <1>5 DEF Resolves, Pays, AssertTransitionAllowed
<1>6. QED
    BY <1>1, <1>2, <1>3, <1>4, <1>5

\* Every step of the contract is one the life of an escrow allows.
LEMMA LifecycleNext == TypeOK /\ [Next]_vars => LifecycleStep
<1> SUFFICES ASSUME TypeOK, [Next]_vars, NEW i \in Ids
             PROVE  /\ escrows[i].status # escrows'[i].status =>
                          AssertTransitionAllowed(escrows[i].status, escrows'[i].status)
                    /\ escrows'[i].buyer = escrows[i].buyer
                    /\ escrows'[i].seller = escrows[i].seller
                    /\ escrows'[i].token = escrows[i].token
                    /\ escrows'[i].original_amount = escrows[i].original_amount
                    /\ escrows'[i].expiration = escrows[i].expiration
                    /\ escrows[i].status \in {"Completed", "Cancelled"} =>
                          escrows[i] = escrows'[i] /\ paid'[i] = paid[i]
    BY DEF LifecycleStep
<1>1. CASE UNCHANGED <<escrows, paid>>
    BY <1>1
<1>2. CASE \E caller \in Accounts, s \in Holders, t \in Tokens, n \in Deposits,
              exp \in Expirations : CreateEscrow(caller, s, t, n, exp)
    <2>1. escrows'[i] = escrows[i] /\ paid'[i] = paid[i]
        BY <1>2, CreateEffect
    <2>2. QED BY <2>1
<1>3. CASE \E caller \in Accounts : \E id \in Ids : EscrowStep(caller, id)
    <2>1. PICK caller \in Accounts, id \in Ids : EscrowStep(caller, id)
        BY <1>3
    <2>2. TouchesOnly(id)
        BY <2>1, EscrowStepEffect
    <2>3. CASE i # id
        BY <2>2, <2>3 DEF TouchesOnly
    <2>4. CASE i = id
        <3>1. /\ escrows[id].status # escrows'[id].status =>
                    AssertTransitionAllowed(escrows[id].status, escrows'[id].status)
              /\ escrows[id].status \notin {"Completed", "Cancelled"}
            BY <2>1, EscrowStepEffect, EffectFollowsMap
        <3>2. QED BY <2>2, <2>4, <3>1 DEF TouchesOnly
    <2>5. QED BY <2>3, <2>4
<1>4. QED
    BY <1>1, <1>2, <1>3, StepKinds

\* fund_escrow, release_escrow and partial_release write the status without
\* consulting the transition map of escrow_state.rs, and still no call ever leaves
\* it, changes the terms of an escrow, or touches one that is closed.
THEOREM EscrowLifecycle == Spec => LifecycleFollowsMap
<1>1. TypeOK /\ [Next]_vars => [LifecycleStep]_vars
    BY LifecycleNext
<1>2. QED
    BY <1>1, TypeCorrect, PTL DEF Spec, LifecycleFollowsMap
=============================================================================
