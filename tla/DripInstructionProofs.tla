------------------------ MODULE DripInstructionProofs ------------------------
(***************************************************************************)
(* What holds of the inside of an instruction, for every value of the      *)
(* constants: its steps come to one action of DripVault or to none, and    *)
(* the tokens it moves go where they belong.                               *)
(***************************************************************************)
EXTENDS DripInstruction, DripBalanceProofs, SequenceTheorems

-----------------------------------------------------------------------------
(* The inductive invariant *)

\* The accounts a treasury or a referrer can have.
AccountsOfB == {x \in Destinations : TokenOf(x) = "B"}

\* Between instructions.  A position's referrer is an account for token B, because the
\* deposit checked it.
Between ==
    /\ TypeInv
    /\ wallet \in [Wallets -> Amount]
    /\ nft_mint \in [Positions -> NftMintType]
    /\ referrer \in [Positions -> Destinations \cup {NoHolder}]
    /\ NftsMintedOnce
    /\ \A p \in Positions : position[p].status = "open" => referrer[p] \in AccountsOfB

\* The parts of an instruction under way, and of the copies it works on.
Shaped ==
    /\ tx = [ix |-> tx.ix, signer |-> tx.signer, v |-> tx.v, given |-> tx.given,
             acc |-> tx.acc, calls |-> tx.calls, then |-> tx.then]
    /\ tx.acc = [vault |-> tx.acc.vault, vault_period |-> tx.acc.vault_period,
                 position |-> tx.acc.position, referrer |-> tx.acc.referrer,
                 nft_holder |-> tx.acc.nft_holder, nft_mint |-> tx.acc.nft_mint,
                 amount |-> tx.acc.amount]

\* They hold what their types can hold.
Copied ==
    /\ tx.acc.vault \in [Vaults -> VaultType]
    /\ tx.acc.vault_period \in [Vaults -> [PeriodIds -> PeriodType]]
    /\ tx.acc.position \in [Positions -> PositionType]
    /\ tx.acc.amount \in [TokenAccounts -> Amount]

\* What the vaults' token accounts hold, by the instruction's copies.
InVaults(amount) == [v \in Vaults |-> [t \in Tokens |-> amount[<<v, t>>]]]

Shown == InVaults(tx.acc.amount)

\* A deposit: what its validation found, the position it wrote, and how far its
\* calls have come.
DepositValid(p, v, end, amount, n) ==
    LET periodic == PeriodicDripAmount(amount, n) IN
    /\ FreshMint(p)
    /\ vault[v].exists
    /\ IsPeriod(end, v, vault[v].last_drip_period + n)
    /\ n > 0 /\ amount > 0 /\ periodic > 0
    /\ vault[v].drip_amount + periodic < Two64
    /\ Data(end).dar + periodic < Two64

DepositWritten(p, v, depositor, end, amount, n, ref) ==
    LET periodic == PeriodicDripAmount(amount, n) IN
    /\ tx.acc.vault = [vault EXCEPT ![v].drip_amount = @ + periodic]
    /\ tx.acc.vault_period =
         [vault_period EXCEPT ![end.vault][end.period_id].dar = @ + periodic]
    /\ tx.acc.position = [position EXCEPT ![p] =
         [status |-> "open", vault |-> v, deposited_token_a_amount |-> amount,
          withdrawn_token_b_amount |-> 0,
          drip_period_id_before_deposit |-> vault[v].last_drip_period,
          number_of_swaps |-> n, periodic_drip_amount |-> periodic]]
    /\ tx.acc.referrer = [referrer EXCEPT ![p] = ref]

DepositAt(p, b, holder, supply, authority) ==
    /\ Shown = b
    /\ tx.acc.nft_holder = [nft_holder EXCEPT ![p] = holder]
    /\ tx.acc.nft_mint = [nft_mint EXCEPT ![p] = [supply |-> supply, authority |-> authority]]

DepositCalling(p, v, depositor, amount, source) ==
    LET pay      == Transfer(source, <<v, "A">>, depositor, amount)
        mint     == NftCall("mint", p, v)
        metadata == NftCall("metadata", p, v)
        revoke   == NftCall("revoke", p, v)
        grown    == [balance EXCEPT ![v]["A"] = @ + amount]
    IN  \/ /\ tx.calls \in {<<pay, mint, metadata, revoke>>, <<pay, mint, revoke>>}
           /\ DepositAt(p, balance, NoHolder, 0, v)
        \/ /\ tx.calls \in {<<mint, metadata, revoke>>, <<mint, revoke>>}
           /\ DepositAt(p, grown, NoHolder, 0, v)
        \/ /\ tx.calls \in {<<metadata, revoke>>, <<revoke>>}
           /\ DepositAt(p, grown, depositor, 1, v)
        \/ /\ tx.calls = <<>>
           /\ DepositAt(p, grown, depositor, 1, NoAuthority)

Depositing ==
    \E p \in Positions, v \in Vaults, depositor \in Users, end \in PeriodAccounts,
       amount \in DepositAmounts, n \in SwapCounts, source \in Wallets,
       ref \in AccountsOfB :
        /\ tx.v = v /\ tx.given = [mint |-> p, depositor |-> depositor]
        /\ tx.then = "exit"
        /\ DepositValid(p, v, end, amount, n)
        /\ DepositWritten(p, v, depositor, end, amount, n, ref)
        /\ DepositCalling(p, v, depositor, amount, source)

\* A drip: the fee is paid, the pool takes some A and returns some B, and the
\* verification lets only an exact fill pass.
DripValid(v, last, current, swap) ==
    /\ vault[v].exists
    /\ IsPeriod(last, v, vault[v].last_drip_period)
    /\ IsPeriod(current, v, vault[v].last_drip_period + 1)
    /\ vault[v].drip_amount > 0
    /\ now >= vault[v].drip_activation_timestamp
    /\ SwapAllowed(v, swap)
    /\ Data(current).dar <= vault[v].drip_amount

DripWritten(v, current) ==
    /\ tx.acc.vault = [vault EXCEPT
         ![v].drip_amount = @ - Data(current).dar,
         ![v].last_drip_period = current.period_id,
         ![v].drip_activation_timestamp =
             ActivationTimestamp(now, Config(v).granularity, TRUE)]
    /\ tx.acc.position = position
    /\ tx.acc.referrer = referrer
    /\ tx.acc.nft_holder = nft_holder
    /\ tx.acc.nft_mint = nft_mint

NobodyLost == \A w \in Wallets : tx.acc.amount[w] >= wallet[w]

PriceWritten(v, last, current, received) ==
    LET price == ComputePrice(received, SwapAmount(v))
    IN  /\ NewTwapDefined(Data(last).twap, current.period_id, price)
        /\ tx.acc.vault_period = [vault_period EXCEPT
             ![current.vault][current.period_id].twap =
                 NewTwap(Data(last).twap, current.period_id, price),
             ![current.vault][current.period_id].drip_timestamp = now]

DripCalling(v, last, current, swap) ==
    LET fee == SpreadOnDrip(v)
    IN  \/ /\ \E swap_a, swap_b \in Wallets, to \in PayoutAccounts :
                \/ /\ tx.calls = <<Transfer(<<v, "A">>, to, v, fee),
                                   SwapCall(v, swap, swap_a, swap_b)>>
                   /\ Shown = balance
                \/ /\ tx.calls = <<SwapCall(v, swap, swap_a, swap_b)>>
                   /\ CanPay(balance, v, "A", to, fee)
                   /\ Shown = Paid(balance, v, "A", to, fee)
           /\ NobodyLost
           /\ tx.then = "verify"
           /\ tx.acc.vault_period = vault_period
        \/ \E to \in PayoutAccounts, taken \in 0 .. SwapAmount(v), received \in ReceivedAmounts :
              LET paid == Paid(balance, v, "A", to, fee) IN
              /\ tx.calls = <<>>
              /\ CanPay(balance, v, "A", to, fee)
              /\ taken <= paid[v]["A"]
              /\ Shown = [paid EXCEPT ![v]["A"] = @ - taken, ![v]["B"] = @ + received]
              /\ swap \in Swaps
              /\ \A w \in Wallets : tx.acc.amount[w] < wallet[w] => WalletOwner[w] = swap
              /\ \/ tx.then = "verify" /\ tx.acc.vault_period = vault_period
                 \/ /\ tx.then = "exit"
                    /\ SwapCompleted(v, balance[v]["A"] - paid[v]["A"] + taken, received)
                    /\ PriceWritten(v, last, current, received)

Dripping ==
    \E v \in Vaults, last \in PeriodAccounts, current \in PeriodAccounts,
       swap \in Swaps \cup {DefaultKey} :
        /\ tx.v = v
        /\ tx.given = [last |-> last, current |-> current, swap |-> swap,
                       drip_amount |-> vault[v].drip_amount, swap_amount |-> SwapAmount(v),
                       spread |-> SpreadOnDrip(v), balance |-> balance[v]]
        /\ DripValid(v, last, current, swap)
        /\ DripWritten(v, current)
        /\ DripCalling(v, last, current, swap)

\* Up to three calls still to be made, one after the other: `due` are the numbers of
\* those that are.
InRow(due, a, b, c) == SomeIf(1 \in due, a) \o SomeIf(2 \in due, b) \o SomeIf(3 \in due, c)

\* A withdrawal of x, before fees: still to be paid are the treasury, if 1 is due, the
\* holder, if 2 is, and the referrer, if 3 is.
CallsDueB(p, v, x, user_b, due) ==
    InRow(due, Transfer(<<v, "B">>, TreasuryOf[v], v, TreasuryShare(v, x)),
               Transfer(<<v, "B">>, user_b, v, NetOfFees(v, x)),
               Transfer(<<v, "B">>, referrer[p], v, ReferrerShare(v, x)))

Payees(p, v, user_b) ==
    [treasury |-> TreasuryOf[v], user_b |-> user_b, referrer |-> referrer[p]]

\* What the vaults hold meanwhile, and that what has been paid could be.
PaidSoFar(v, x, to, due) ==
    IF 1 \in due THEN balance
    ELSE IF 2 \in due THEN AfterTreasury(v, x, to)
    ELSE IF 3 \in due THEN AfterHolder(v, x, to)
    ELSE AfterReferrer(v, x, to)

CouldPay(v, x, to, due) ==
    /\ 1 \notin due /\ TreasuryShare(v, x) > 0 =>
         CanPay(balance, v, "B", to.treasury, TreasuryShare(v, x))
    /\ 2 \notin due =>
         CanPay(AfterTreasury(v, x, to), v, "B", to.user_b, NetOfFees(v, x))
    /\ 3 \notin due /\ ReferrerShare(v, x) > 0 =>
         CanPay(AfterHolder(v, x, to), v, "B", to.referrer, ReferrerShare(v, x))

InOrderB(v, x, due) ==
    /\ 1 \in due => 2 \in due /\ TreasuryShare(v, x) > 0
    /\ 2 \in due => (3 \in due <=> ReferrerShare(v, x) > 0)

\* Who has received something, and that the fees have arrived, in accounts other than the
\* vault's own.
Received(recipients) ==
    \A x \in TokenAccounts : tx.acc.amount[x] > Held(x) => x \in recipients

FeesArrived(p, v, x, due) ==
    \A y \in {TreasuryOf[v], referrer[p]} \ {<<v, "B">>} :
        tx.acc.amount[y] - Held(y)
          >= (IF 1 \notin due /\ y = TreasuryOf[v] THEN TreasuryShare(v, x) ELSE 0)
             + (IF 2 \notin due /\ 3 \notin due /\ y = referrer[p]
                THEN ReferrerShare(v, x) ELSE 0)

WithdrawalWritten(p, x) ==
    tx.acc.position = [position EXCEPT ![p].withdrawn_token_b_amount = @ + x]

ClosedWritten(p, x) ==
    tx.acc.position = [position EXCEPT ![p].withdrawn_token_b_amount = @ + x,
                                       ![p].status = "closed"]

PayingB(p, v, i, j, user_b, due) ==
    LET x  == BeforeFees(p, v, i, j)
        to == Payees(p, v, user_b)
    IN
    /\ tx.v = v
    /\ ValidWithdrawal(p, v, i, j)
    /\ InOrderB(v, x, due)
    /\ tx.calls = CallsDueB(p, v, x, user_b, due)
    /\ to \in PayeesB
    /\ PaidSoFar(v, x, to, due) \in Balances
    /\ Shown = PaidSoFar(v, x, to, due)
    /\ CouldPay(v, x, to, due)
    /\ WithdrawalWritten(p, x)
    /\ tx.acc.vault = vault
    /\ tx.acc.vault_period = vault_period
    /\ tx.acc.referrer = referrer
    /\ tx.acc.nft_holder = nft_holder
    /\ tx.acc.nft_mint = nft_mint
    /\ Received({TreasuryOf[v], user_b, referrer[p]})
    /\ FeesArrived(p, v, x, due)

WithdrawingB ==
    \E p \in Positions, v \in Vaults, i \in PeriodAccounts, j \in PeriodAccounts,
       user_b \in PayoutAccounts, due \in SUBSET (1 .. 3) :
        /\ tx.then = "exit"
        /\ tx.signer \in Signers
        /\ NetOfFees(v, BeforeFees(p, v, i, j)) > 0
        /\ nft_holder[p] = tx.signer
        /\ PayingB(p, v, i, j, user_b, due)

\* A close, while the B is paid out; then the A is to be refunded, if 1 is due, the NFT
\* to be burned, if 2 is, and its account to be closed, if 3 is.
CloseGiven(p, v, i, j, expiry, user_a, user_b) ==
    /\ tx.signer \in Signers
    /\ tx.given = [mint |-> p, i |-> i, j |-> j, expiry |-> expiry, user_a |-> user_a]
    /\ MayClose(p, v, tx.signer, user_a, user_b)
    /\ IsPeriod(expiry, v, Expiry(p))

ClosingB ==
    \E p \in Positions, v \in Vaults, i \in PeriodAccounts, j \in PeriodAccounts,
       expiry \in PeriodAccounts, user_a \in PayoutAccounts, user_b \in PayoutAccounts,
       due \in SUBSET (1 .. 3) :
        /\ tx.then = "refund"
        /\ CloseGiven(p, v, i, j, expiry, user_a, user_b)
        /\ PayingB(p, v, i, j, user_b, due)

RefundOf(p, i, j) ==
    WithdrawTokenA(i.period_id, j.period_id,
                   position[p].number_of_swaps, position[p].periodic_drip_amount)

ReductionWritten(p, v, j, expiry) ==
    IF j.period_id < expiry.period_id
    THEN /\ position[p].periodic_drip_amount <= vault[v].drip_amount
         /\ position[p].periodic_drip_amount <= Data(expiry).dar
         /\ tx.acc.vault = [vault EXCEPT
              ![v].drip_amount = @ - position[p].periodic_drip_amount]
         /\ tx.acc.vault_period = [vault_period EXCEPT
              ![expiry.vault][expiry.period_id].dar = @ - position[p].periodic_drip_amount]
    ELSE tx.acc.vault = vault /\ tx.acc.vault_period = vault_period

CallsDueA(p, v, refund, user_a, due) ==
    InRow(due, Transfer(<<v, "A">>, user_a, v, refund),
               NftCall("burn", p, tx.signer),
               NftCall("close", p, tx.signer))

InOrderA(p, refund, due) ==
    /\ 1 \in due => refund > 0 /\ (2 \in due <=> nft_holder[p] = tx.signer)
    /\ 2 \in due => 3 \in due
    /\ 3 \in due => nft_holder[p] = tx.signer

\* The holder's NFT is burned, an admin leaves the holder's where it is.
NftWritten(p, due) ==
    IF nft_holder[p] = tx.signer /\ 2 \notin due
    THEN /\ tx.acc.nft_holder = [nft_holder EXCEPT ![p] = NoHolder]
         /\ tx.acc.nft_mint = [nft_mint EXCEPT ![p].supply = @ - 1]
    ELSE tx.acc.nft_holder = nft_holder /\ tx.acc.nft_mint = nft_mint

RefundingA(p, v, i, j, expiry, user_a, user_b, due) ==
    LET x      == BeforeFees(p, v, i, j)
        to     == Payees(p, v, user_b)
        paid   == AfterReferrer(v, x, to)
        refund == RefundOf(p, i, j)
    IN
    /\ tx.v = v
    /\ ValidWithdrawal(p, v, i, j)
    /\ WithdrawTokenADefined(i.period_id, j.period_id,
           position[p].number_of_swaps, position[p].periodic_drip_amount)
    /\ InOrderA(p, refund, due)
    /\ tx.calls = CallsDueA(p, v, refund, user_a, due)
    /\ to \in PayeesB
    /\ CanPayB(v, x, to)
    /\ paid \in Balances
    /\ 1 \notin due /\ refund > 0 => CanPay(paid, v, "A", user_a, refund)
    /\ Shown = IF 1 \in due THEN paid ELSE Paid(paid, v, "A", user_a, refund)
    /\ ReductionWritten(p, v, j, expiry)
    /\ tx.acc.referrer = referrer
    /\ NftWritten(p, due)
    /\ Received({TreasuryOf[v], user_b, referrer[p], user_a})
    /\ FeesArrived(p, v, x, {})

ClosingA ==
    \E p \in Positions, v \in Vaults, i \in PeriodAccounts, j \in PeriodAccounts,
       expiry \in PeriodAccounts, user_a \in PayoutAccounts, user_b \in PayoutAccounts,
       due \in SUBSET (1 .. 3) :
        /\ CloseGiven(p, v, i, j, expiry, user_a, user_b)
        /\ RefundingA(p, v, i, j, expiry, user_a, user_b, due)
        /\ \/ tx.then = "close" /\ WithdrawalWritten(p, BeforeFees(p, v, i, j))
           \/ /\ tx.then = "exit" /\ tx.calls = <<>>
              /\ ClosedWritten(p, BeforeFees(p, v, i, j))

\* The admin empties a token account with one transfer.
EmptyingAt(v, token, destination) ==
    LET held == balance[v][token] IN
    \/ /\ tx.calls = <<Transfer(<<v, token>>, destination, v, held)>>
       /\ Shown = balance
    \/ /\ tx.calls = <<>>
       /\ CanPay(balance, v, token, destination, held)
       /\ Shown = Paid(balance, v, token, destination, held)

Emptying ==
    \E v \in Vaults, token \in Tokens, destination \in PayoutAccounts :
        /\ tx.v = v
        /\ tx.then = "exit"
        /\ vault[v].exists
        /\ tx.signer \in Signers
        /\ tx.signer = Config(v).admin
        /\ token \in AdminTakes
        /\ vault[v].drip_amount = 0
        /\ balance[v][token] > 0
        /\ tx.acc.vault = vault
        /\ tx.acc.vault_period = vault_period
        /\ tx.acc.position = position
        /\ tx.acc.referrer = referrer
        /\ tx.acc.nft_holder = nft_holder
        /\ tx.acc.nft_mint = nft_mint
        /\ EmptyingAt(v, token, destination)

Underway ==
    /\ Shaped
    /\ Copied
    /\ Depositing \/ Dripping \/ WithdrawingB \/ ClosingB \/ ClosingA \/ Emptying

InstructionInv == Between /\ (tx = Idle \/ Underway)
-----------------------------------------------------------------------------
(* Lists of calls *)

\* The lists of calls the program builds, written out.
LEMMA Joined ==
    ASSUME NEW a, NEW b, NEW c, NEW d
    PROVE  /\ <<>> \o <<a>> = <<a>> /\ <<a>> \o <<>> = <<a>> /\ <<>> \o <<>> = <<>>
           /\ <<a, b>> \o <<>> = <<a, b>>
           /\ <<a>> \o <<b>> = <<a, b>>
           /\ <<a, b>> \o <<c>> = <<a, b, c>>
           /\ <<a, b, c>> \o <<d>> = <<a, b, c, d>>
<1> DEFINE S == {a, b, c, d}
<1>1. /\ <<>> \in Seq(S) /\ <<a>> \in Seq(S) /\ <<b>> \in Seq(S) /\ <<c>> \in Seq(S)
      /\ <<d>> \in Seq(S) /\ <<a, b>> \in Seq(S) /\ <<a, b, c>> \in Seq(S)
      /\ <<a, b, c, d>> \in Seq(S)
    OBVIOUS
<1>2. /\ <<>> \o <<a>> = <<a>> /\ <<a>> \o <<>> = <<a>> /\ <<>> \o <<>> = <<>>
      /\ <<a, b>> \o <<>> = <<a, b>>
    BY <1>1, ConcatEmptySeq
<1>3. <<a>> \o <<b>> = <<a, b>>
    <2> DEFINE s == <<a>> \o <<b>>
    <2>1. s \in Seq(S) /\ Len(s) = 2
        BY <1>1
    <2>2. \A i \in 1 .. Len(s) : s[i] = <<a, b>>[i]
        BY <1>1, <2>1
    <2> HIDE DEF s
    <2>3. s = <<a, b>>
        BY <1>1, <2>1, <2>2, SeqEqual
    <2> QED BY <2>3 DEF s
<1>4. <<a, b>> \o <<c>> = <<a, b, c>>
    <2> DEFINE s == <<a, b>> \o <<c>>
    <2>1. s \in Seq(S) /\ Len(s) = 3
        BY <1>1
    <2>2. \A i \in 1 .. Len(s) : s[i] = <<a, b, c>>[i]
        BY <1>1, <2>1
    <2> HIDE DEF s
    <2>3. s = <<a, b, c>>
        BY <1>1, <2>1, <2>2, SeqEqual
    <2> QED BY <2>3 DEF s
<1>5. <<a, b, c>> \o <<d>> = <<a, b, c, d>>
    <2> DEFINE s == <<a, b, c>> \o <<d>>
    <2>1. s \in Seq(S) /\ Len(s) = 4
        BY <1>1
    <2>2. \A i \in 1 .. Len(s) : s[i] = <<a, b, c, d>>[i]
        BY <1>1, <2>1
    <2> HIDE DEF s
    <2>3. s = <<a, b, c, d>>
        BY <1>1, <2>1, <2>2, SeqEqual
    <2> QED BY <2>3 DEF s
<1> QED BY <1>2, <1>3, <1>4, <1>5

\* The calls that are still to be made, written out.
LEMMA RowWritten ==
    ASSUME NEW a, NEW b, NEW c, NEW due
    PROVE  InRow(due, a, b, c) =
        IF 1 \in due
        THEN IF 2 \in due THEN IF 3 \in due THEN <<a, b, c>> ELSE <<a, b>>
                          ELSE IF 3 \in due THEN <<a, c>> ELSE <<a>>
        ELSE IF 2 \in due THEN IF 3 \in due THEN <<b, c>> ELSE <<b>>
                          ELSE IF 3 \in due THEN <<c>> ELSE <<>>
<1> DEFINE one == SomeIf(1 \in due, a)
           two == SomeIf(2 \in due, b)
           three == SomeIf(3 \in due, c)
           row == InRow(due, a, b, c)
<1>1. row = (one \o two) \o three
    BY DEF InRow
<1>2. /\ 1 \in due => one = <<a>>
      /\ 1 \notin due => one = <<>>
      /\ 2 \in due => two = <<b>>
      /\ 2 \notin due => two = <<>>
      /\ 3 \in due => three = <<c>>
      /\ 3 \notin due => three = <<>>
    BY DEF SomeIf
<1>3. /\ <<>> \o <<a>> = <<a>> /\ <<>> \o <<b>> = <<b>> /\ <<>> \o <<c>> = <<c>>
      /\ <<a>> \o <<>> = <<a>> /\ <<b>> \o <<>> = <<b>> /\ <<>> \o <<>> = <<>>
      /\ <<a>> \o <<b>> = <<a, b>> /\ <<a>> \o <<c>> = <<a, c>> /\ <<b>> \o <<c>> = <<b, c>>
      /\ <<a, b>> \o <<>> = <<a, b>> /\ <<a, b>> \o <<c>> = <<a, b, c>>
    BY Joined, Zenon
<1> HIDE DEF row, one, two, three
<1>4. row = IF 1 \in due
        THEN IF 2 \in due THEN IF 3 \in due THEN <<a, b, c>> ELSE <<a, b>>
                          ELSE IF 3 \in due THEN <<a, c>> ELSE <<a>>
        ELSE IF 2 \in due THEN IF 3 \in due THEN <<b, c>> ELSE <<b>>
                          ELSE IF 3 \in due THEN <<c>> ELSE <<>>
    BY <1>1, <1>2, <1>3
<1> QED BY <1>4 DEF row

\* The next call is the first that is still to be made, and when it has returned
\* the others are left.
LEMMA CallsInRow ==
    ASSUME NEW a, NEW b, NEW c, NEW due
    PROVE  /\ InRow(due, a, b, c) = <<>> <=> 1 \notin due /\ 2 \notin due /\ 3 \notin due
           /\ 1 \in due => /\ Head(InRow(due, a, b, c)) = a
                           /\ \A left : left = due \ {1} =>
                                Tail(InRow(due, a, b, c)) = InRow(left, a, b, c)
           /\ 1 \notin due /\ 2 \in due =>
                           /\ Head(InRow(due, a, b, c)) = b
                           /\ \A left : left = due \ {2} =>
                                Tail(InRow(due, a, b, c)) = InRow(left, a, b, c)
           /\ 1 \notin due /\ 2 \notin due /\ 3 \in due =>
                           /\ Head(InRow(due, a, b, c)) = c
                           /\ \A left : left = due \ {3} =>
                                Tail(InRow(due, a, b, c)) = InRow(left, a, b, c)
<1> DEFINE At(s) == InRow(s, a, b, c)
<1>2. ASSUME NEW s
      PROVE  At(s) =
        IF 1 \in s
        THEN IF 2 \in s THEN IF 3 \in s THEN <<a, b, c>> ELSE <<a, b>>
                        ELSE IF 3 \in s THEN <<a, c>> ELSE <<a>>
        ELSE IF 2 \in s THEN IF 3 \in s THEN <<b, c>> ELSE <<b>>
                        ELSE IF 3 \in s THEN <<c>> ELSE <<>>
    BY RowWritten DEF At
<1> HIDE DEF At
<1>3. /\ Head(<<a>>) = a /\ Head(<<a, b>>) = a /\ Head(<<a, c>>) = a /\ Head(<<a, b, c>>) = a
      /\ Head(<<b>>) = b /\ Head(<<b, c>>) = b /\ Head(<<c>>) = c
      /\ Tail(<<a>>) = <<>> /\ Tail(<<b>>) = <<>> /\ Tail(<<c>>) = <<>>
      /\ Tail(<<a, b>>) = <<b>> /\ Tail(<<a, c>>) = <<c>> /\ Tail(<<b, c>>) = <<c>>
      /\ Tail(<<a, b, c>>) = <<b, c>>
    OBVIOUS
<1>4. /\ <<a>> # <<>> /\ <<a, b>> # <<>> /\ <<a, c>> # <<>> /\ <<a, b, c>> # <<>>
      /\ <<b>> # <<>> /\ <<b, c>> # <<>> /\ <<c>> # <<>>
    OBVIOUS
<1>5. At(due) = <<>> <=> 1 \notin due /\ 2 \notin due /\ 3 \notin due
    BY <1>2, <1>4, Zenon
<1>6. CASE 1 \in due
    <2>1. 1 \notin due \ {1} /\ (2 \in due \ {1} <=> 2 \in due) /\ (3 \in due \ {1} <=> 3 \in due)
        OBVIOUS
    <2>2. Head(At(due)) = a /\ Tail(At(due)) = At(due \ {1})
        BY <1>2, <1>3, <1>6, <2>1, Zenon
    <2> QED BY <1>5, <1>6, <2>2 DEF At
<1>7. CASE 1 \notin due /\ 2 \in due
    <2>1. 1 \notin due \ {2} /\ 2 \notin due \ {2} /\ (3 \in due \ {2} <=> 3 \in due)
        BY <1>7
    <2>2. Head(At(due)) = b /\ Tail(At(due)) = At(due \ {2})
        BY <1>2, <1>3, <1>7, <2>1, Zenon
    <2> QED BY <1>5, <1>7, <2>2 DEF At
<1>8. CASE 1 \notin due /\ 2 \notin due /\ 3 \in due
    <2>1. 1 \notin due \ {3} /\ 2 \notin due \ {3} /\ 3 \notin due \ {3}
        BY <1>8
    <2>2. Head(At(due)) = c /\ Tail(At(due)) = At(due \ {3})
        BY <1>2, <1>3, <1>8, <2>1, Zenon
    <2> QED BY <1>5, <1>8, <2>2 DEF At
<1>9. CASE 1 \notin due /\ 2 \notin due /\ 3 \notin due
    BY <1>5, <1>9 DEF At
<1> QED BY <1>6, <1>7, <1>8, <1>9

-----------------------------------------------------------------------------
(* Token accounts *)

\* A vault's two token accounts, and those of different vaults, are different accounts,
\* and none is a wallet.
LEMMA TokenAccountFacts ==
    ASSUME NEW v \in Vaults, NEW t \in Tokens
    PROVE  /\ <<v, t>> \in TokenAccounts
           /\ <<v, t>> \notin Wallets
           /\ TokenOf(<<v, t>>) = t
           /\ OwnerOf(<<v, t>>) = v
           /\ \A w \in Vaults, s \in Tokens : <<v, t>> = <<w, s>> => v = w /\ t = s
           /\ Wallets \subseteq TokenAccounts
           /\ "A" \in Tokens /\ "B" \in Tokens
<1>1. <<v, t>> \notin Wallets
    BY WalletAssumption
<1> QED BY <1>1 DEF TokenAccounts, VaultAccounts, TokenOf, OwnerOf, Tokens

\* A wallet is a token account, and not one of the vaults'.
LEMMA WalletFacts ==
    ASSUME NEW v \in Vaults, NEW t \in Tokens, NEW w \in Wallets
    PROVE  w \in TokenAccounts /\ <<v, t>> \in TokenAccounts /\ <<v, t>> # w
<1>1. <<v, t>> \in TokenAccounts /\ <<v, t>> \notin Wallets /\ Wallets \subseteq TokenAccounts
    BY TokenAccountFacts
<1> QED BY <1>1

\* Every destination is one of the token accounts, whoever's it is.
LEMMA DestinationFacts ==
    /\ PayoutAccounts \subseteq TokenAccounts
    /\ AccountsOfB \subseteq Destinations /\ AccountsOfB \subseteq TokenAccounts
    /\ \A v \in Vaults : TreasuryOf[v] \in AccountsOfB
    /\ \A v \in Vaults : \A x \in AccountsOfB : x # <<v, "A">>
    /\ NoHolder \notin Destinations
<1>1. /\ Destinations \subseteq TokenAccounts /\ NoHolder \notin TokenAccounts
      /\ TreasuryOf \in [Vaults -> {x \in Destinations : TokenOf(x) = "B"}]
    BY WalletAssumption
<1>2. PayoutAccounts \subseteq Destinations
    BY DEF PayoutAccounts
<1>3. ASSUME NEW v \in Vaults, NEW x \in AccountsOfB
      PROVE  x # <<v, "A">>
    <2>1. TokenOf(<<v, "A">>) = "A"
        BY TokenAccountFacts DEF Tokens
    <2> QED BY <2>1 DEF AccountsOfB
<1> QED BY <1>1, <1>2, <1>3 DEF AccountsOfB

\* What a token account of the vaults' holds, and any other.
LEMMA HeldFacts ==
    /\ \A v \in Vaults, t \in Tokens : Held(<<v, t>>) = balance[v][t]
    /\ \A w \in Wallets : Held(w) = wallet[w]
    /\ TypeOK /\ wallet \in [Wallets -> Amount] =>
          \A x \in TokenAccounts : Held(x) \in Amount /\ Held(x) \in Nat
<1>1. ASSUME NEW v \in Vaults, NEW t \in Tokens
      PROVE  Held(<<v, t>>) = balance[v][t]
    <2>1. <<v, t>> \notin Wallets
        BY TokenAccountFacts
    <2> QED BY <2>1 DEF Held
<1>2. \A w \in Wallets : Held(w) = wallet[w]
    BY DEF Held
<1>3. ASSUME TypeOK, wallet \in [Wallets -> Amount], NEW x \in TokenAccounts
      PROVE  Held(x) \in Amount
    <2>1. CASE x \in Wallets
        BY <1>2, <1>3, <2>1
    <2>2. CASE x \notin Wallets
        <3>1. PICK v \in Vaults, t \in Tokens : x = <<v, t>>
            BY <2>2 DEF TokenAccounts, VaultAccounts
        <3>2. balance[v][t] \in Amount
            BY <1>3 DEF TypeOK
        <3> QED BY <1>1, <3>1, <3>2
    <2> QED BY <2>1, <2>2
<1> QED BY <1>1, <1>2, <1>3, CheckedAmounts

\* A transfer between two accounts takes from the one what it gives the other.
LEMMA MovedAmounts ==
    ASSUME NEW amount \in [TokenAccounts -> Amount],
           NEW from \in TokenAccounts, NEW to \in TokenAccounts, from # to,
           NEW n \in Nat, n <= amount[from], amount[to] + n < Two64
    PROVE  /\ Moved(amount, from, to, n) \in [TokenAccounts -> Amount]
           /\ Moved(amount, from, to, n)[from] = amount[from] - n
           /\ Moved(amount, from, to, n)[to] = amount[to] + n
           /\ \A x \in TokenAccounts :
                x # from /\ x # to => Moved(amount, from, to, n)[x] = amount[x]
<1> DEFINE taken == [amount EXCEPT ![from] = @ - n]
<1>1. amount[from] \in Amount /\ amount[to] \in Amount /\ amount[from] \in Nat /\ amount[to] \in Nat
    BY CheckedAmounts
<1>2. amount[from] - n \in Amount /\ amount[to] + n \in Amount
    BY <1>1, CheckedAmounts
<1>3. /\ taken \in [TokenAccounts -> Amount]
      /\ taken[from] = amount[from] - n /\ taken[to] = amount[to]
      /\ \A x \in TokenAccounts : x # from => taken[x] = amount[x]
    BY <1>2
<1>4. Moved(amount, from, to, n) = [taken EXCEPT ![to] = @ + n]
    BY DEF Moved
<1> HIDE DEF taken
<1> QED BY <1>2, <1>3, <1>4

\* The vaults hold b when each of their accounts holds its part of it.
LEMMA InVaultsIs ==
    ASSUME NEW amount, NEW b \in Balances
    PROVE  InVaults(amount) = b
             <=> \A v \in Vaults, t \in Tokens : amount[<<v, t>>] = b[v][t]
<1>1. b = [v \in Vaults |-> b[v]] /\ \A v \in Vaults : b[v] = [t \in Tokens |-> b[v][t]]
    BY DEF Balances
<1>2. ASSUME InVaults(amount) = b, NEW v \in Vaults, NEW t \in Tokens
      PROVE  amount[<<v, t>>] = b[v][t]
    <2>1. InVaults(amount)[v][t] = amount[<<v, t>>]
        BY DEF InVaults
    <2> QED BY <1>2, <2>1
<1>3. ASSUME \A v \in Vaults, t \in Tokens : amount[<<v, t>>] = b[v][t]
      PROVE  InVaults(amount) = b
    <2>1. \A v \in Vaults : [t \in Tokens |-> amount[<<v, t>>]] = b[v]
        BY <1>1, <1>3
    <2> QED BY <1>1, <2>1 DEF InVaults
<1> QED BY <1>2, <1>3

\* The vaults' balances, one of them replaced.
LEMMA BalanceReplaced ==
    ASSUME NEW b \in Balances, NEW v \in Vaults, NEW t \in Tokens, NEW n \in Amount
    PROVE  /\ [b EXCEPT ![v][t] = n] \in Balances
           /\ \A w \in Vaults, s \in Tokens :
                [b EXCEPT ![v][t] = n][w][s] = IF w = v /\ s = t THEN n ELSE b[w][s]
<1>1. b = [w \in Vaults |-> b[w]] /\ b[v] \in [Tokens -> Amount]
    BY DEF Balances
<1> DEFINE one == [b[v] EXCEPT ![t] = n]
           c   == [b EXCEPT ![v][t] = n]
<1>2. one \in [Tokens -> Amount] /\ \A s \in Tokens : one[s] = IF s = t THEN n ELSE b[v][s]
    BY <1>1
<1>3. c = [b EXCEPT ![v] = one]
    OBVIOUS
<1> HIDE DEF one, c
<1>4. c \in Balances /\ \A w \in Vaults : c[w] = IF w = v THEN one ELSE b[w]
    BY <1>1, <1>2, <1>3 DEF Balances
<1>5. c \in Balances
      /\ \A w \in Vaults, s \in Tokens : c[w][s] = IF w = v /\ s = t THEN n ELSE b[w][s]
    BY <1>2, <1>4
<1> QED BY <1>5 DEF c

\* From an account to itself it takes nothing.
LEMMA MovedInFull ==
    ASSUME NEW amount \in [TokenAccounts -> Amount],
           NEW from \in TokenAccounts, NEW to \in TokenAccounts, NEW n \in Nat,
           n <= amount[from], to # from => amount[to] + n < Two64
    PROVE  /\ Moved(amount, from, to, n) \in [TokenAccounts -> Amount]
           /\ \A x \in TokenAccounts :
                Moved(amount, from, to, n)[x] = amount[x] - (IF x = from THEN n ELSE 0)
                                                  + (IF x = to THEN n ELSE 0)
<1>1. \A x \in TokenAccounts : amount[x] \in Amount /\ amount[x] \in Nat
    BY CheckedAmounts
<1>2. CASE from # to
    BY <1>1, <1>2, MovedAmounts
<1>3. CASE from = to
    <2> DEFINE taken == [amount EXCEPT ![from] = @ - n]
               after == [taken EXCEPT ![from] = @ + n]
    <2>1. /\ taken = [x \in TokenAccounts |-> taken[x]]
          /\ \A x \in TokenAccounts :
                taken[x] = IF x = from THEN amount[from] - n ELSE amount[x]
        OBVIOUS
    <2>2. Moved(amount, from, to, n) = after
        BY <1>3 DEF Moved
    <2> HIDE DEF taken
    <2>3. /\ after = [x \in TokenAccounts |-> after[x]]
          /\ \A x \in TokenAccounts :
                after[x] = IF x = from THEN taken[from] + n ELSE taken[x]
        BY <2>1
    <2> HIDE DEF after
    <2>4. ASSUME NEW x \in TokenAccounts
          PROVE  after[x] = amount[x] /\ amount[x] = amount[x] - (IF x = from THEN n ELSE 0)
                                                       + (IF x = to THEN n ELSE 0)
        BY <1>1, <1>3, <2>1, <2>3
    <2> QED BY <1>1, <2>2, <2>3, <2>4
<1> QED BY <1>2, <1>3

-----------------------------------------------------------------------------
(* The calls *)

CallStep ==
    \/ CallTransfer \/ CallMint \/ CallMetadata \/ CallRevoke
    \/ CallBurn \/ CallCloseAccount \/ CallSwapStep

\* What an instruction's step leaves alone: the accounts, until it ends, and what it
\* was given.
Unwritten ==
    UNCHANGED <<now, proto_config, vault, vault_period, position, nft_holder, balance,
                wallet, nft_mint, referrer>>

Inside == Unwritten /\ UNCHANGED <<tx.ix, tx.signer, tx.v, tx.given>>

\* The copies no call can change.
OwnCopiesKept ==
    UNCHANGED <<tx.acc.vault, tx.acc.vault_period, tx.acc.position, tx.acc.referrer>>

\* A call that has returned is done with, and goes no further than token accounts and
\* position NFTs.
LEMMA CallReturns ==
    ASSUME Shaped, CallStep
    PROVE  /\ tx.calls # <<>>
           /\ CallOk(NextCall)
           /\ Shaped'
           /\ Inside
           /\ OwnCopiesKept
           /\ tx'.then = tx.then
           /\ tx'.calls = Tail(tx.calls)
<1>1. ASSUME NEW acc, Returned(acc),
             acc = [vault |-> tx.acc.vault, vault_period |-> tx.acc.vault_period,
                    position |-> tx.acc.position, referrer |-> tx.acc.referrer,
                    nft_holder |-> acc.nft_holder, nft_mint |-> acc.nft_mint,
                    amount |-> acc.amount]
      PROVE  /\ Shaped'
             /\ Inside
             /\ OwnCopiesKept
             /\ tx'.then = tx.then
             /\ tx'.calls = Tail(tx.calls)
    <2>1. tx' = [ix |-> tx.ix, signer |-> tx.signer, v |-> tx.v, given |-> tx.given,
                 acc |-> acc, calls |-> Tail(tx.calls), then |-> tx.then]
        BY <1>1 DEF Returned, Shaped
    <2>2. Unwritten
        BY <1>1 DEF Returned, vars, Unwritten
    <2> QED BY <1>1, <2>1, <2>2 DEF Shaped, Inside, OwnCopiesKept
<1>2. ASSUME CallTransfer
      PROVE  /\ tx.calls # <<>> /\ CallOk(NextCall) /\ Shaped' /\ Inside
             /\ OwnCopiesKept /\ tx'.then = tx.then /\ tx'.calls = Tail(tx.calls)
    <2> DEFINE acc == [tx.acc EXCEPT
                 !.amount = Moved(@, NextCall.from, NextCall.to, NextCall.amount)]
    <2>1. Returned(acc) /\ tx.calls # <<>> /\ CallOk(NextCall)
        BY <1>2 DEF CallTransfer, Calling
    <2>2. acc = [vault |-> tx.acc.vault, vault_period |-> tx.acc.vault_period,
                 position |-> tx.acc.position, referrer |-> tx.acc.referrer,
                 nft_holder |-> acc.nft_holder, nft_mint |-> acc.nft_mint,
                 amount |-> acc.amount]
        BY DEF Shaped
    <2> HIDE DEF acc
    <2> QED BY <1>1, <2>1, <2>2
<1>3. ASSUME CallMint
      PROVE  /\ tx.calls # <<>> /\ CallOk(NextCall) /\ Shaped' /\ Inside
             /\ OwnCopiesKept /\ tx'.then = tx.then /\ tx'.calls = Tail(tx.calls)
    <2> DEFINE acc == [tx.acc EXCEPT !.nft_mint[NextCall.mint].supply = @ + 1,
                                     !.nft_holder[NextCall.mint] = tx.given.depositor]
    <2>1. Returned(acc) /\ tx.calls # <<>> /\ CallOk(NextCall)
        BY <1>3 DEF CallMint, Calling
    <2>2. acc = [vault |-> tx.acc.vault, vault_period |-> tx.acc.vault_period,
                 position |-> tx.acc.position, referrer |-> tx.acc.referrer,
                 nft_holder |-> acc.nft_holder, nft_mint |-> acc.nft_mint,
                 amount |-> acc.amount]
        <3> DEFINE m == [tx.acc.nft_mint EXCEPT ![NextCall.mint].supply = @ + 1]
                   h == [tx.acc.nft_holder EXCEPT ![NextCall.mint] = tx.given.depositor]
        <3>1. acc = [tx.acc EXCEPT !.nft_mint = m, !.nft_holder = h]
            OBVIOUS
        <3> HIDE DEF acc, m, h
        <3> QED BY <3>1 DEF Shaped
    <2> HIDE DEF acc
    <2> QED BY <1>1, <2>1, <2>2
<1>4. ASSUME CallMetadata \/ CallCloseAccount
      PROVE  /\ tx.calls # <<>> /\ CallOk(NextCall) /\ Shaped' /\ Inside
             /\ OwnCopiesKept /\ tx'.then = tx.then /\ tx'.calls = Tail(tx.calls)
    <2>1. Returned(tx.acc) /\ tx.calls # <<>> /\ CallOk(NextCall)
        BY <1>4 DEF CallMetadata, CallCloseAccount, Calling
    <2> QED BY <1>1, <2>1 DEF Shaped
<1>5. ASSUME CallRevoke
      PROVE  /\ tx.calls # <<>> /\ CallOk(NextCall) /\ Shaped' /\ Inside
             /\ OwnCopiesKept /\ tx'.then = tx.then /\ tx'.calls = Tail(tx.calls)
    <2> DEFINE acc == [tx.acc EXCEPT !.nft_mint[NextCall.mint].authority = NoAuthority]
    <2>1. Returned(acc) /\ tx.calls # <<>> /\ CallOk(NextCall)
        BY <1>5 DEF CallRevoke, Calling
    <2>2. acc = [vault |-> tx.acc.vault, vault_period |-> tx.acc.vault_period,
                 position |-> tx.acc.position, referrer |-> tx.acc.referrer,
                 nft_holder |-> acc.nft_holder, nft_mint |-> acc.nft_mint,
                 amount |-> acc.amount]
        BY DEF Shaped
    <2> HIDE DEF acc
    <2> QED BY <1>1, <2>1, <2>2
<1>6. ASSUME CallBurn
      PROVE  /\ tx.calls # <<>> /\ CallOk(NextCall) /\ Shaped' /\ Inside
             /\ OwnCopiesKept /\ tx'.then = tx.then /\ tx'.calls = Tail(tx.calls)
    <2> DEFINE acc == [tx.acc EXCEPT !.nft_mint[NextCall.mint].supply = @ - 1,
                                     !.nft_holder[NextCall.mint] = NoHolder]
    <2>1. Returned(acc) /\ tx.calls # <<>> /\ CallOk(NextCall)
        BY <1>6 DEF CallBurn, Calling
    <2>2. acc = [vault |-> tx.acc.vault, vault_period |-> tx.acc.vault_period,
                 position |-> tx.acc.position, referrer |-> tx.acc.referrer,
                 nft_holder |-> acc.nft_holder, nft_mint |-> acc.nft_mint,
                 amount |-> acc.amount]
        <3> DEFINE m == [tx.acc.nft_mint EXCEPT ![NextCall.mint].supply = @ - 1]
                   h == [tx.acc.nft_holder EXCEPT ![NextCall.mint] = NoHolder]
        <3>1. acc = [tx.acc EXCEPT !.nft_mint = m, !.nft_holder = h]
            OBVIOUS
        <3> HIDE DEF acc, m, h
        <3> QED BY <3>1 DEF Shaped
    <2> HIDE DEF acc
    <2> QED BY <1>1, <2>1, <2>2
<1>7. ASSUME CallSwapStep
      PROVE  /\ tx.calls # <<>> /\ CallOk(NextCall) /\ Shaped' /\ Inside
             /\ OwnCopiesKept /\ tx'.then = tx.then /\ tx'.calls = Tail(tx.calls)
    <2>1. tx.calls # <<>> /\ CallOk(NextCall)
        BY <1>7 DEF CallSwapStep, Calling
    <2>2. PICK taken \in 0 .. NextCall.amount_in, received \in ReceivedAmounts :
             CallSwap(taken, received)
        BY <1>7 DEF CallSwapStep
    <2> DEFINE acc == [tx.acc EXCEPT
             !.amount = Moved(Moved(@, NextCall.source, NextCall.pool_source, taken),
                              NextCall.pool_destination, NextCall.destination, received)]
    <2>3. Returned(acc)
        BY <2>2 DEF CallSwap
    <2>4. acc = [vault |-> tx.acc.vault, vault_period |-> tx.acc.vault_period,
                 position |-> tx.acc.position, referrer |-> tx.acc.referrer,
                 nft_holder |-> acc.nft_holder, nft_mint |-> acc.nft_mint,
                 amount |-> acc.amount]
        BY DEF Shaped
    <2> HIDE DEF acc
    <2> QED BY <1>1, <2>1, <2>3, <2>4
<1> QED BY <1>2, <1>3, <1>4, <1>5, <1>6, <1>7 DEF CallStep

\* What each kind of call requires and does.
LEMMA TransferEffect ==
    ASSUME Shaped, CallStep, NextCall.kind = "transfer"
    PROVE  /\ TransferOk(NextCall)
           /\ tx'.acc.amount =
                 Moved(tx.acc.amount, NextCall.from, NextCall.to, NextCall.amount)
           /\ UNCHANGED <<tx.acc.nft_holder, tx.acc.nft_mint>>
<1>1. CallTransfer
    BY DEF CallStep, CallMint, CallMetadata, CallRevoke, CallBurn, CallCloseAccount,
           CallSwapStep, Calling
<1>2. TransferOk(NextCall)
    BY <1>1 DEF CallTransfer, Calling, CallOk
<1> QED BY <1>1, <1>2 DEF CallTransfer, Returned, Shaped

\* The NFT goes to the depositor.
LEMMA MintEffect ==
    ASSUME Shaped, CallStep, NextCall.kind = "mint"
    PROVE  /\ tx'.acc.amount = tx.acc.amount
           /\ tx'.acc.nft_mint = [tx.acc.nft_mint EXCEPT ![NextCall.mint].supply = @ + 1]
           /\ tx'.acc.nft_holder =
                 [tx.acc.nft_holder EXCEPT ![NextCall.mint] = tx.given.depositor]
<1>1. CallMint
    BY DEF CallStep, CallTransfer, CallMetadata, CallRevoke, CallBurn, CallCloseAccount,
           CallSwapStep, Calling
<1> QED BY <1>1 DEF CallMint, Returned, Shaped

\* Metadata and the closing of the NFT's empty account touch neither amounts nor NFTs.
LEMMA QuietCallEffect ==
    ASSUME Shaped, CallStep, NextCall.kind \in {"metadata", "close"}
    PROVE  UNCHANGED <<tx.acc.amount, tx.acc.nft_holder, tx.acc.nft_mint>>
<1>1. CallMetadata \/ CallCloseAccount
    BY DEF CallStep, CallTransfer, CallMint, CallRevoke, CallBurn, CallSwapStep, Calling
<1> QED BY <1>1 DEF CallMetadata, CallCloseAccount, Returned, Shaped

\* The mint's authority is given up.
LEMMA RevokeEffect ==
    ASSUME Shaped, CallStep, NextCall.kind = "revoke"
    PROVE  /\ UNCHANGED <<tx.acc.amount, tx.acc.nft_holder>>
           /\ tx'.acc.nft_mint =
                 [tx.acc.nft_mint EXCEPT ![NextCall.mint].authority = NoAuthority]
<1>1. CallRevoke
    BY DEF CallStep, CallTransfer, CallMint, CallMetadata, CallBurn, CallCloseAccount,
           CallSwapStep, Calling
<1> QED BY <1>1 DEF CallRevoke, Returned, Shaped

\* The NFT leaves its holder, and the supply.
LEMMA BurnEffect ==
    ASSUME Shaped, CallStep, NextCall.kind = "burn"
    PROVE  /\ tx'.acc.amount = tx.acc.amount
           /\ tx'.acc.nft_mint = [tx.acc.nft_mint EXCEPT ![NextCall.mint].supply = @ - 1]
           /\ tx'.acc.nft_holder = [tx.acc.nft_holder EXCEPT ![NextCall.mint] = NoHolder]
<1>1. CallBurn
    BY DEF CallStep, CallTransfer, CallMint, CallMetadata, CallRevoke, CallCloseAccount,
           CallSwapStep, Calling
<1> QED BY <1>1 DEF CallBurn, Returned, Shaped

\* The pool takes and gives within what SwapOk and its own checks allow.
LEMMA SwapEffect ==
    ASSUME Shaped, CallStep, NextCall.kind = "swap"
    PROVE  /\ SwapOk(NextCall)
           /\ UNCHANGED <<tx.acc.nft_holder, tx.acc.nft_mint>>
           /\ \E taken \in 0 .. NextCall.amount_in, received \in ReceivedAmounts :
                /\ received <= tx.acc.amount[NextCall.pool_destination]
                /\ tx.acc.amount[NextCall.destination] + received < Two64
                /\ tx.acc.amount[NextCall.pool_source] + taken < Two64
                /\ tx'.acc.amount =
                     Moved(Moved(tx.acc.amount, NextCall.source, NextCall.pool_source, taken),
                           NextCall.pool_destination, NextCall.destination, received)
<1>1. CallSwapStep
    BY DEF CallStep, CallTransfer, CallMint, CallMetadata, CallRevoke, CallBurn,
           CallCloseAccount, Calling
<1>2. SwapOk(NextCall)
    BY <1>1 DEF CallSwapStep, Calling, CallOk
<1>3. PICK taken \in 0 .. NextCall.amount_in, received \in ReceivedAmounts :
         CallSwap(taken, received)
    BY <1>1 DEF CallSwapStep
<1>4. /\ UNCHANGED <<tx.acc.nft_holder, tx.acc.nft_mint>>
      /\ tx'.acc.amount =
           Moved(Moved(tx.acc.amount, NextCall.source, NextCall.pool_source, taken),
                 NextCall.pool_destination, NextCall.destination, received)
    BY <1>3 DEF CallSwap, Returned, Shaped
<1> QED BY <1>2, <1>3, <1>4 DEF CallSwap

\* A payment out of a vault's token account, to any account: if it succeeds, it is Paid.
LEMMA PaymentEffect ==
    ASSUME Shaped, Copied, CallStep,
           NEW v \in Vaults, NEW t \in Tokens, NEW to \in TokenAccounts, NEW n \in Nat,
           NEW authority, NextCall = Transfer(<<v, t>>, to, authority, n),
           NEW b \in Balances, Shown = b
    PROVE  /\ Copied'
           /\ CanPay(b, v, t, to, n)
           /\ Paid(b, v, t, to, n) \in Balances
           /\ Shown' = Paid(b, v, t, to, n)
           /\ \A x \in TokenAccounts :
                tx'.acc.amount[x] = tx.acc.amount[x] - (IF x = <<v, t>> THEN n ELSE 0)
                                      + (IF x = to THEN n ELSE 0)
           /\ UNCHANGED <<tx.acc.nft_holder, tx.acc.nft_mint>>
<1> DEFINE from == <<v, t>>
<1>1. NextCall.kind = "transfer" /\ NextCall.from = from /\ NextCall.to = to
      /\ NextCall.amount = n
    BY DEF Transfer
<1>2. /\ n <= tx.acc.amount[from] /\ (to # from => tx.acc.amount[to] + n < Two64)
      /\ TokenOf(from) = TokenOf(to)
      /\ tx'.acc.amount = Moved(tx.acc.amount, from, to, n)
      /\ UNCHANGED <<tx.acc.nft_holder, tx.acc.nft_mint>>
    BY <1>1, TransferEffect DEF TransferOk
<1>3. from \in TokenAccounts
    BY TokenAccountFacts
<1>4. tx.acc.amount \in [TokenAccounts -> Amount]
    BY DEF Copied
<1> DEFINE after == Moved(tx.acc.amount, from, to, n)
<1>5. /\ after \in [TokenAccounts -> Amount]
      /\ \A x \in TokenAccounts :
           after[x] = tx.acc.amount[x] - (IF x = from THEN n ELSE 0)
                        + (IF x = to THEN n ELSE 0)
    <2> HIDE DEF from
    <2> QED BY <1>2, <1>3, <1>4, MovedInFull
<1> HIDE DEF after
<1>6. tx'.acc.amount = after
    BY <1>2 DEF after
<1>7. Copied'
    BY <1>5, <1>6, CallReturns DEF Copied, OwnCopiesKept
<1>12. ASSUME NEW w \in Vaults, NEW s \in Tokens
       PROVE  tx.acc.amount[<<w, s>>] = b[w][s]
    <2>1. Shown[w][s] = tx.acc.amount[<<w, s>>]
        BY DEF Shown, InVaults
    <2> QED BY <2>1
<1>8. to \in VaultAccounts =>
         /\ to[1] \in Vaults /\ to[2] = t /\ to = <<to[1], t>>
         /\ tx.acc.amount[to] = b[to[1]][t]
    <2>1. SUFFICES ASSUME NEW w \in Vaults, NEW s \in Tokens, to = <<w, s>>
                   PROVE  s = t /\ tx.acc.amount[to] = b[w][t]
        BY DEF VaultAccounts
    <2>2. s = t
        BY <1>2, <2>1, TokenAccountFacts
    <2> QED BY <1>12, <2>1, <2>2
<1>9. CanPay(b, v, t, to, n)
    <2>1. n <= b[v][t]
        BY <1>2, <1>12
    <2>2. ASSUME to \in VaultAccounts
          PROVE  to[2] = t /\ (to[1] # v => b[to[1]][t] + n < Two64)
        <3>1. to[1] # v => to # from
            BY <1>8, <2>2
        <3> QED BY <1>2, <1>8, <2>2, <3>1
    <2> QED BY <2>1, <2>2 DEF CanPay
<1>10. Paid(b, v, t, to, n) \in Balances
    BY <1>9, PaidFacts
<1>11. ASSUME NEW w \in Vaults, NEW s \in Tokens
       PROVE  after[<<w, s>>] = Paid(b, v, t, to, n)[w][s]
    <2>1. <<w, s>> \in TokenAccounts /\ (<<w, s>> = from <=> w = v /\ s = t)
          /\ (to \in VaultAccounts => (<<w, s>> = to <=> w = to[1] /\ s = t))
          /\ (to \notin VaultAccounts => <<w, s>> # to)
        BY <1>8, TokenAccountFacts DEF VaultAccounts
    <2>2. after[<<w, s>>] = b[w][s] - (IF w = v /\ s = t THEN n ELSE 0)
                              + (IF <<w, s>> = to THEN n ELSE 0)
        BY <1>5, <1>12, <2>1
    <2>3. \A z \in Vaults, u \in Tokens : b[z][u] \in Nat
        BY BalanceNat
    <2> DEFINE taken == [b EXCEPT ![v][t] = @ - n]
    <2>4. /\ taken = [z \in Vaults |-> taken[z]]
          /\ \A z \in Vaults : taken[z] = [u \in Tokens |-> taken[z][u]]
          /\ \A z \in Vaults, u \in Tokens :
                taken[z][u] = b[z][u] - (IF z = v /\ u = t THEN n ELSE 0)
        <3>1. b = [z \in Vaults |-> b[z]] /\ \A z \in Vaults : b[z] = [u \in Tokens |-> b[z][u]]
            BY DEF Balances
        <3> DEFINE one == [b[v] EXCEPT ![t] = @ - n]
        <3>2. one = [u \in Tokens |-> one[u]]
              /\ \A u \in Tokens : one[u] = IF u = t THEN b[v][t] - n ELSE b[v][u]
            BY <3>1
        <3>3. taken = [b EXCEPT ![v] = one]
            OBVIOUS
        <3> HIDE DEF taken, one
        <3>4. taken = [z \in Vaults |-> taken[z]]
              /\ \A z \in Vaults : taken[z] = IF z = v THEN one ELSE b[z]
            BY <3>1, <3>3
        <3>5. \A z \in Vaults, u \in Tokens :
                 taken[z][u] = b[z][u] - (IF z = v /\ u = t THEN n ELSE 0)
            BY <2>3, <3>2, <3>4
        <3> QED BY <3>1, <3>2, <3>4, <3>5
    <2> HIDE DEF taken
    <2>5. CASE to \notin VaultAccounts
        <3>1. Paid(b, v, t, to, n) = taken
            BY <2>5 DEF Paid, taken
        <3>2. b[w][s] - (IF w = v /\ s = t THEN n ELSE 0) \in Int
            BY <2>3
        <3> QED BY <2>1, <2>2, <2>4, <2>5, <3>1, <3>2
    <2>6. CASE to \in VaultAccounts
        <3>1. Paid(b, v, t, to, n) = [taken EXCEPT ![to[1]][to[2]] = @ + n]
            BY <2>6 DEF Paid, taken
        <3>2. Paid(b, v, t, to, n)[w][s]
                = taken[w][s] + (IF w = to[1] /\ s = t THEN n ELSE 0)
            <4>1. taken[w][s] \in Int
                BY <2>3, <2>4
            <4> QED BY <1>8, <2>4, <2>6, <3>1, <4>1
        <3> QED BY <2>1, <2>2, <2>3, <2>4, <2>6, <3>2
    <2> QED BY <2>5, <2>6
<1>13. Shown' = Paid(b, v, t, to, n)
    BY <1>6, <1>10, <1>11, InVaultsIs DEF Shown
<1> QED BY <1>2, <1>5, <1>6, <1>7, <1>9, <1>10, <1>13

-----------------------------------------------------------------------------
(* How an instruction starts and ends *)

\* An instruction starts on copies of the accounts as they are.
LEMMA StartedEffect ==
    ASSUME NEW ix, NEW signer, NEW v, NEW given, NEW acc, NEW calls, NEW then,
           Started(ix, signer, v, given, acc, calls, then),
           acc = [vault |-> acc.vault, vault_period |-> acc.vault_period,
                  position |-> acc.position, referrer |-> acc.referrer,
                  nft_holder |-> acc.nft_holder, nft_mint |-> acc.nft_mint,
                  amount |-> acc.amount]
    PROVE  /\ Shaped'
           /\ Unwritten
           /\ tx'.ix = ix /\ tx'.signer = signer /\ tx'.v = v /\ tx'.given = given
           /\ tx'.acc = acc /\ tx'.calls = calls /\ tx'.then = then
<1>1. tx' = [ix |-> ix, signer |-> signer, v |-> v, given |-> given, acc |-> acc,
             calls |-> calls, then |-> then]
    BY DEF Started
<1>2. Unwritten
    BY DEF Started, Unwritten, vars
<1> QED BY <1>1, <1>2 DEF Shaped

\* The amounts an instruction starts on are those of the accounts.
LEMMA StartAmounts ==
    ASSUME Between, Unwritten, tx'.acc.amount = Accounts.amount
    PROVE  /\ tx'.acc.amount \in [TokenAccounts -> Amount]
           /\ Shown' = balance' /\ balance \in Balances
           /\ \A x \in TokenAccounts : tx'.acc.amount[x] = Held(x) /\ Held(x) \in Nat
           /\ NobodyLost' /\ Received({})'
<1> DEFINE amount == Accounts.amount
<1>1. amount = [x \in TokenAccounts |-> Held(x)]
    BY DEF Accounts
<1> HIDE DEF amount
<1>2. \A x \in TokenAccounts : Held(x) \in Amount /\ Held(x) \in Nat
    BY HeldFacts DEF Between, TypeInv
<1>3. tx'.acc.amount = amount
    BY DEF amount
<1>4. amount \in [TokenAccounts -> Amount]
      /\ \A x \in TokenAccounts : amount[x] = Held(x)
    BY <1>1, <1>2
<1>5. ASSUME NEW v \in Vaults, NEW t \in Tokens
      PROVE  amount[<<v, t>>] = balance[v][t]
    <2>1. <<v, t>> \in TokenAccounts
        BY TokenAccountFacts
    <2>2. Held(<<v, t>>) = balance[v][t]
        BY HeldFacts
    <2> QED BY <1>4, <2>1, <2>2
<1>6. Shown' = balance' /\ balance \in Balances
    <2>1. balance' = balance /\ balance \in Balances
        BY DEF Unwritten, Between, TypeInv, TypeOK, Balances
    <2> QED BY <1>3, <1>5, <2>1, InVaultsIs DEF Shown
<1>7. NobodyLost' /\ Received({})'
    <2>1. \A w \in Wallets : amount[w] = wallet[w] /\ wallet[w] \in Nat
        BY <1>2, <1>4, HeldFacts DEF TokenAccounts
    <2>2. \A x \in TokenAccounts : Held(x)' = Held(x)
        BY DEF Held, Unwritten
    <2>3. NobodyLost'
        BY <1>3, <2>1 DEF NobodyLost, Unwritten
    <2> QED BY <1>2, <1>3, <1>4, <2>2, <2>3 DEF Received
<1> QED BY <1>2, <1>3, <1>4, <1>6, <1>7

\* What the accounts say does not change under an instruction.
LEMMA BetweenKept == Between /\ Unwritten => Between'
<1> SUFFICES ASSUME Between, Unwritten
             PROVE  Between'
    OBVIOUS
<1>1. TypeInv'
    BY StepType DEF Between, Unwritten, vars
<1> QED BY <1>1 DEF Between, Unwritten, NftsMintedOnce

\* What an instruction writes back of the vaults' token accounts.
LEMMA BalanceWritten == Exit => balance' = Shown
BY DEF Exit, Shown, InVaults

-----------------------------------------------------------------------------
(* Deposit *)

\* Until an instruction ends, what a deposit's validation found remains so.
LEMMA DepositValidKept ==
    ASSUME Unwritten, NEW p, NEW v, NEW end, NEW amount, NEW n
    PROVE  /\ DepositValid(p, v, end, amount, n)' <=> DepositValid(p, v, end, amount, n)
           /\ PeriodAccounts' = PeriodAccounts
BY DEF Unwritten, DepositValid, FreshMint, IsPeriod, Data, PeriodAccounts

\* A deposit starts with all of its calls still to be made.
LEMMA DepositStarts ==
    ASSUME Between, NEW p \in Positions, NEW v \in Vaults, NEW depositor \in Users,
           NEW end \in PeriodAccounts, NEW amount \in DepositAmounts, NEW n \in SwapCounts,
           NEW source \in Wallets, NEW ref \in PayoutAccounts, NEW with_metadata \in BOOLEAN,
           StartDeposit(p, v, depositor, end, amount, n, source, ref, with_metadata)
    PROVE  Underway' /\ Unwritten
<1> DEFINE acc == WithDeposit(Accounts, p, v, depositor, end, amount, n, ref)
           calls == DepositCalls(p, v, depositor, amount, source, with_metadata)
           periodic == PeriodicDripAmount(amount, n)
<1>1. DepositValid(p, v, end, amount, n)
    BY DEF StartDeposit, DepositValid
<1>2. /\ acc = [vault |-> acc.vault, vault_period |-> acc.vault_period,
                position |-> acc.position, referrer |-> acc.referrer,
                nft_holder |-> acc.nft_holder, nft_mint |-> acc.nft_mint,
                amount |-> acc.amount]
      /\ acc.amount = Accounts.amount
    <2> DEFINE V  == [vault EXCEPT ![v].drip_amount = @ + periodic]
               VP == [vault_period EXCEPT ![end.vault][end.period_id].dar = @ + periodic]
               P  == [position EXCEPT ![p] =
                        [status |-> "open", vault |-> v, deposited_token_a_amount |-> amount,
                         withdrawn_token_b_amount |-> 0,
                         drip_period_id_before_deposit |-> vault[v].last_drip_period,
                         number_of_swaps |-> n, periodic_drip_amount |-> periodic]]
               R  == [referrer EXCEPT ![p] = ref]
               H  == [nft_holder EXCEPT ![p] = NoHolder]
               M  == [nft_mint EXCEPT ![p] = [supply |-> 0, authority |-> v]]
    <2>1. /\ Accounts.vault = vault /\ Accounts.vault_period = vault_period
          /\ Accounts.position = position /\ Accounts.referrer = referrer
          /\ Accounts.nft_holder = nft_holder /\ Accounts.nft_mint = nft_mint
        BY DEF Accounts
    <2>2. acc = [Accounts EXCEPT !.vault = V, !.vault_period = VP, !.position = P,
                                 !.referrer = R, !.nft_holder = H, !.nft_mint = M]
        BY DEF WithDeposit, Accounts
    <2> HIDE DEF acc, V, VP, P, R, H, M
    <2> QED BY <2>2 DEF Accounts
<1>3. /\ acc.vault = [vault EXCEPT ![v].drip_amount = @ + periodic]
      /\ acc.vault_period =
           [vault_period EXCEPT ![end.vault][end.period_id].dar = @ + periodic]
    BY DEF WithDeposit, Accounts
<1>4. /\ acc.position = [position EXCEPT ![p] =
           [status |-> "open", vault |-> v, deposited_token_a_amount |-> amount,
            withdrawn_token_b_amount |-> 0,
            drip_period_id_before_deposit |-> vault[v].last_drip_period,
            number_of_swaps |-> n, periodic_drip_amount |-> periodic]]
      /\ acc.referrer = [referrer EXCEPT ![p] = ref]
    BY DEF WithDeposit, Accounts
<1>5. /\ acc.nft_holder = [nft_holder EXCEPT ![p] = NoHolder]
      /\ acc.nft_mint = [nft_mint EXCEPT ![p] = [supply |-> 0, authority |-> v]]
    BY DEF WithDeposit, Accounts
<1>6. Started("deposit", depositor, v, [mint |-> p, depositor |-> depositor], acc, calls, "exit")
    BY DEF StartDeposit
<1> DEFINE pay      == Transfer(source, <<v, "A">>, depositor, amount)
           mint     == NftCall("mint", p, v)
           metadata == NftCall("metadata", p, v)
           revoke   == NftCall("revoke", p, v)
<1>7. calls \in {<<pay, mint, metadata, revoke>>, <<pay, mint, revoke>>}
    <2>1. calls = (<<pay, mint>> \o SomeIf(with_metadata, metadata)) \o <<revoke>>
        BY DEF DepositCalls
    <2> HIDE DEF calls, pay, mint, metadata, revoke
    <2>2. CASE with_metadata
        <3>1. SomeIf(with_metadata, metadata) = <<metadata>>
            BY <2>2 DEF SomeIf
        <3>2. <<pay, mint>> \o <<metadata>> = <<pay, mint, metadata>>
              /\ <<pay, mint, metadata>> \o <<revoke>> = <<pay, mint, metadata, revoke>>
            BY Joined
        <3> QED BY <2>1, <3>1, <3>2
    <2>3. CASE ~ with_metadata
        <3>1. SomeIf(with_metadata, metadata) = <<>>
            BY <2>3 DEF SomeIf
        <3>2. <<pay, mint>> \o <<>> = <<pay, mint>>
              /\ <<pay, mint>> \o <<revoke>> = <<pay, mint, revoke>>
            BY Joined
        <3> QED BY <2>1, <3>1, <3>2
    <2> QED BY <2>2, <2>3
<1> HIDE DEF acc, calls, periodic
<1>8. /\ Shaped' /\ Unwritten
      /\ tx'.v = v /\ tx'.given = [mint |-> p, depositor |-> depositor] /\ tx'.then = "exit"
      /\ tx'.acc = acc /\ tx'.calls = calls
    BY <1>2, <1>6, StartedEffect
<1>9. /\ tx'.acc.amount \in [TokenAccounts -> Amount]
      /\ Shown' = balance'
    BY <1>2, <1>8, StartAmounts
<1>10. Copied'
    <2>1. n > 0 /\ vault[v].drip_amount + periodic < Two64 /\ Data(end).dar + periodic < Two64
        BY <1>1 DEF DepositValid, periodic
    <2>2. /\ acc.vault \in [Vaults -> VaultType]
          /\ acc.vault_period \in [Vaults -> [PeriodIds -> PeriodType]]
          /\ acc.position \in [Positions -> PositionType]
        <3>1. TypeOK
            BY DEF Between, TypeInv
        <3> DEFINE V == [vault EXCEPT ![v].drip_amount = @ + periodic]
                   VP == [vault_period EXCEPT ![end.vault][end.period_id].dar = @ + periodic]
        <3>2. V \in [Vaults -> VaultType]
              /\ VP \in [Vaults -> [PeriodIds -> PeriodType]]
              /\ [position EXCEPT ![p] =
                   [status |-> "open", vault |-> v, deposited_token_a_amount |-> amount,
                    withdrawn_token_b_amount |-> 0,
                    drip_period_id_before_deposit |-> vault[v].last_drip_period,
                    number_of_swaps |-> n, periodic_drip_amount |-> periodic]]
                   \in [Positions -> PositionType]
            BY <2>1, <3>1, DepositRecords DEF periodic
        <3> QED BY <1>3, <1>4, <3>2
    <2> QED BY <1>8, <1>9, <2>2 DEF Copied
<1>11. DepositWritten(p, v, depositor, end, amount, n, ref)'
    BY <1>3, <1>4, <1>8 DEF DepositWritten, Unwritten, periodic
<1>12. DepositCalling(p, v, depositor, amount, source)'
    <2>1. DepositAt(p, balance, NoHolder, 0, v)'
        BY <1>5, <1>8, <1>9 DEF DepositAt, Unwritten
    <2>2. tx'.calls \in {<<pay, mint, metadata, revoke>>, <<pay, mint, revoke>>}
        BY <1>7, <1>8
    <2> HIDE DEF pay, mint, metadata, revoke
    <2> QED BY <2>1, <2>2, Zenon DEF DepositCalling, pay, mint, metadata, revoke
<1>13. Depositing'
    <2>1. ref \in AccountsOfB
        BY DEF StartDeposit, AccountsOfB, PayoutAccounts
    <2> QED BY <1>1, <1>8, <1>11, <1>12, <2>1, DepositValidKept DEF Depositing
<1> QED BY <1>8, <1>10, <1>13 DEF Underway

\* A payment of a wallet's owner into a vault's token A account.
LEMMA ReceiptEffect ==
    ASSUME Shaped, Copied, CallStep,
           NEW v \in Vaults, NEW from \in Wallets, NEW n \in Nat, NEW authority,
           NextCall = Transfer(from, <<v, "A">>, authority, n),
           NEW b \in Balances, Shown = b
    PROVE  /\ Copied'
           /\ [b EXCEPT ![v]["A"] = @ + n] \in Balances
           /\ Shown' = [b EXCEPT ![v]["A"] = @ + n]
           /\ UNCHANGED <<tx.acc.nft_holder, tx.acc.nft_mint>>
<1> DEFINE to == <<v, "A">>
<1>1. NextCall.kind = "transfer" /\ NextCall.from = from /\ NextCall.to = to
      /\ NextCall.amount = n
    BY DEF Transfer
<1>3. from \in TokenAccounts /\ to \in TokenAccounts /\ from # to /\ "A" \in Tokens
    <2>1. "A" \in Tokens
        BY DEF Tokens
    <2> QED BY <2>1, WalletFacts
<1>2. /\ n <= tx.acc.amount[from] /\ tx.acc.amount[to] + n < Two64
      /\ tx'.acc.amount = Moved(tx.acc.amount, from, to, n)
      /\ UNCHANGED <<tx.acc.nft_holder, tx.acc.nft_mint>>
    BY <1>1, <1>3, TransferEffect DEF TransferOk
<1>4. tx.acc.amount \in [TokenAccounts -> Amount]
    BY DEF Copied
<1> DEFINE after == Moved(tx.acc.amount, from, to, n)
<1>5. /\ after \in [TokenAccounts -> Amount]
      /\ after[to] = tx.acc.amount[to] + n
      /\ \A x \in TokenAccounts : x # from /\ x # to => after[x] = tx.acc.amount[x]
    BY <1>2, <1>3, <1>4, MovedAmounts
<1> HIDE DEF after
<1>6. tx'.acc.amount = after
    BY <1>2 DEF after
<1>7. Copied'
    BY <1>5, <1>6, CallReturns DEF Copied, OwnCopiesKept
<1>8. ASSUME NEW w \in Vaults, NEW s \in Tokens
      PROVE  after[<<w, s>>] = b[w][s] + (IF w = v /\ s = "A" THEN n ELSE 0)
    <2>1. <<w, s>> \in TokenAccounts /\ <<w, s>> # from
          /\ (<<w, s>> = to <=> w = v /\ s = "A")
        BY <1>3, TokenAccountFacts
    <2>2. tx.acc.amount[<<w, s>>] = b[w][s] /\ b[w][s] \in Nat
        <3>1. Shown[w][s] = tx.acc.amount[<<w, s>>]
            BY DEF Shown, InVaults
        <3> QED BY <3>1, BalanceNat
    <2> QED BY <1>5, <2>1, <2>2
<1> DEFINE c == [b EXCEPT ![v]["A"] = @ + n]
<1>9. ASSUME NEW w \in Vaults, NEW s \in Tokens
      PROVE  after[<<w, s>>] = c[w][s] /\ after[<<w, s>>] \in Amount
    <2>1. \A x \in Vaults, y \in Tokens : b[x][y] \in Nat
        BY BalanceNat
    <2>2. c[w][s] = b[w][s] + (IF w = v /\ s = "A" THEN n ELSE 0)
        <3>1. b = [z \in Vaults |-> b[z]] /\ b[v] = [u \in Tokens |-> b[v][u]]
            BY DEF Balances
        <3> DEFINE one == [b[v] EXCEPT !["A"] = @ + n]
        <3>2. one[s] = IF s = "A" THEN b[v]["A"] + n ELSE b[v][s]
            BY <3>1
        <3>3. c = [b EXCEPT ![v] = one]
            OBVIOUS
        <3> HIDE DEF one, c
        <3>4. c[w] = IF w = v THEN one ELSE b[w]
            BY <3>1, <3>3
        <3> QED BY <2>1, <3>2, <3>4
    <2>3. <<w, s>> \in TokenAccounts
        BY TokenAccountFacts
    <2> QED BY <1>5, <1>8, <2>2, <2>3
<1>10. c \in Balances
    <2>1. c[v]["A"] \in Amount
        BY <1>3, <1>9
    <2> QED BY <1>3, <2>1 DEF Balances
<1> HIDE DEF c
<1>11. InVaults(after) = c
    BY <1>9, <1>10, InVaultsIs
<1>12. Shown' = c
    BY <1>6, <1>11 DEF Shown
<1> QED BY <1>2, <1>6, <1>7, <1>10, <1>12 DEF c

\* Each of a deposit's calls brings it to the next stage.
LEMMA DepositContinues ==
    ASSUME Between, Shaped, Copied, Depositing, CallStep
    PROVE  Underway'
<1>1. PICK p \in Positions, v \in Vaults, depositor \in Users, end \in PeriodAccounts,
           amount \in DepositAmounts, n \in SwapCounts, source \in Wallets,
       ref \in AccountsOfB :
        /\ tx.v = v /\ tx.given = [mint |-> p, depositor |-> depositor]
        /\ tx.then = "exit"
        /\ DepositValid(p, v, end, amount, n)
        /\ DepositWritten(p, v, depositor, end, amount, n, ref)
        /\ DepositCalling(p, v, depositor, amount, source)
    BY DEF Depositing
<1>2. /\ Shaped' /\ Inside /\ Unwritten /\ OwnCopiesKept /\ tx'.then = tx.then
      /\ tx.calls # <<>> /\ tx'.calls = Tail(tx.calls)
    BY CallReturns DEF Inside
<1>3. DepositWritten(p, v, depositor, end, amount, n, ref)'
    BY <1>1, <1>2 DEF DepositWritten, OwnCopiesKept, Unwritten
<1> SUFFICES Copied' /\ DepositCalling(p, v, depositor, amount, source)'
    BY <1>1, <1>2, <1>3, DepositValidKept DEF Underway, Depositing, Inside
<1> DEFINE pay      == Transfer(source, <<v, "A">>, depositor, amount)
           mint     == NftCall("mint", p, v)
           metadata == NftCall("metadata", p, v)
           revoke   == NftCall("revoke", p, v)
           grown    == [balance EXCEPT ![v]["A"] = @ + amount]
<1>4. /\ pay.kind = "transfer" /\ pay.from = source /\ pay.to = <<v, "A">>
      /\ pay.amount = amount
      /\ mint.kind = "mint" /\ mint.mint = p
      /\ metadata.kind = "metadata"
      /\ revoke.kind = "revoke" /\ revoke.mint = p
    BY DEF Transfer, NftCall
<1>5. DepositCalling(p, v, depositor, amount, source) =
        (\/ /\ tx.calls \in {<<pay, mint, metadata, revoke>>, <<pay, mint, revoke>>}
            /\ DepositAt(p, balance, NoHolder, 0, v)
         \/ /\ tx.calls \in {<<mint, metadata, revoke>>, <<mint, revoke>>}
            /\ DepositAt(p, grown, NoHolder, 0, v)
         \/ /\ tx.calls \in {<<metadata, revoke>>, <<revoke>>}
            /\ DepositAt(p, grown, depositor, 1, v)
         \/ /\ tx.calls = <<>>
            /\ DepositAt(p, grown, depositor, 1, NoAuthority))
    BY DEF DepositCalling
<1>6. DepositCalling(p, v, depositor, amount, source)' =
        (\/ /\ tx'.calls \in {<<pay, mint, metadata, revoke>>, <<pay, mint, revoke>>}
            /\ DepositAt(p, balance, NoHolder, 0, v)'
         \/ /\ tx'.calls \in {<<mint, metadata, revoke>>, <<mint, revoke>>}
            /\ DepositAt(p, grown, NoHolder, 0, v)'
         \/ /\ tx'.calls \in {<<metadata, revoke>>, <<revoke>>}
            /\ DepositAt(p, grown, depositor, 1, v)'
         \/ /\ tx'.calls = <<>>
            /\ DepositAt(p, grown, depositor, 1, NoAuthority)')
    BY DEF DepositCalling
<1> HIDE DEF pay, mint, metadata, revoke
<1>7. ASSUME tx'.acc.amount = tx.acc.amount
      PROVE  Copied' /\ Shown' = Shown /\ grown' = grown
    BY <1>2, <1>7 DEF Copied, OwnCopiesKept, Shown, Unwritten, grown
<1>8. CASE /\ tx.calls \in {<<pay, mint, metadata, revoke>>, <<pay, mint, revoke>>}
           /\ DepositAt(p, balance, NoHolder, 0, v)
    <2>1. NextCall = pay
        BY <1>8 DEF NextCall
    <2>2. tx'.calls \in {<<mint, metadata, revoke>>, <<mint, revoke>>}
        <3>1. CASE tx.calls = <<pay, mint, metadata, revoke>>
            BY <1>2, <3>1
        <3>2. CASE tx.calls = <<pay, mint, revoke>>
            BY <1>2, <3>2
        <3> QED BY <1>8, <3>1, <3>2
    <2>3. amount \in Nat /\ balance \in Balances /\ Shown = balance
        BY <1>8, BoundAssumption, CheckedAmounts DEF Between, TypeInv, TypeOK, Balances, DepositAt
    <2>4. /\ Copied'
          /\ Shown' = grown
          /\ UNCHANGED <<tx.acc.nft_holder, tx.acc.nft_mint>>
        BY <2>1, <2>3, ReceiptEffect DEF pay
    <2>5. Shown' = grown'
        BY <1>2, <2>4 DEF Unwritten
    <2>6. DepositAt(p, grown, NoHolder, 0, v)'
        BY <1>2, <1>8, <2>4, <2>5 DEF DepositAt, Unwritten, grown
    <2> QED BY <1>6, <2>2, <2>4, <2>6
<1>9. ASSUME nft_mint \in [Positions -> NftMintType]
      PROVE  /\ [[nft_mint EXCEPT ![p] = [supply |-> 0, authority |-> v]]
                    EXCEPT ![p].supply = @ + 1]
                 = [nft_mint EXCEPT ![p] = [supply |-> 1, authority |-> v]]
             /\ [[nft_mint EXCEPT ![p] = [supply |-> 1, authority |-> v]]
                    EXCEPT ![p].authority = NoAuthority]
                 = [nft_mint EXCEPT ![p] = [supply |-> 1, authority |-> NoAuthority]]
    BY <1>9
<1>10. CASE /\ tx.calls \in {<<mint, metadata, revoke>>, <<mint, revoke>>}
            /\ DepositAt(p, grown, NoHolder, 0, v)
    <2>1. NextCall = mint
        BY <1>10 DEF NextCall
    <2>2. tx'.calls \in {<<metadata, revoke>>, <<revoke>>}
        <3>1. CASE tx.calls = <<mint, metadata, revoke>>
            BY <1>2, <3>1
        <3>2. CASE tx.calls = <<mint, revoke>>
            BY <1>2, <3>2
        <3> QED BY <1>10, <3>1, <3>2
    <2>3. /\ tx'.acc.amount = tx.acc.amount
          /\ tx'.acc.nft_mint = [tx.acc.nft_mint EXCEPT ![p].supply = @ + 1]
          /\ tx'.acc.nft_holder = [tx.acc.nft_holder EXCEPT ![p] = depositor]
        BY <1>1, <1>4, <2>1, MintEffect
    <2>4. DepositAt(p, grown, depositor, 1, v)'
        <3>1. Copied' /\ Shown' = grown'
            BY <1>7, <1>10, <2>3 DEF DepositAt
        <3>2. tx'.acc.nft_mint = [nft_mint EXCEPT ![p] = [supply |-> 1, authority |-> v]]
            BY <1>9, <1>10, <2>3 DEF DepositAt, Between
        <3>3. tx'.acc.nft_holder = [nft_holder EXCEPT ![p] = depositor]
            BY <1>10, <2>3 DEF DepositAt, Between, TypeInv, TypeOK
        <3> QED BY <1>2, <3>1, <3>2, <3>3 DEF DepositAt, Unwritten, grown
    <2> QED BY <1>6, <1>7, <1>10, <2>2, <2>3, <2>4 DEF DepositAt
<1>11. CASE /\ tx.calls = <<metadata, revoke>>
            /\ DepositAt(p, grown, depositor, 1, v)
    <2>1. NextCall = metadata /\ tx'.calls = <<revoke>>
        BY <1>2, <1>11 DEF NextCall
    <2>2. UNCHANGED <<tx.acc.amount, tx.acc.nft_mint, tx.acc.nft_holder>>
        BY <1>4, <2>1, QuietCallEffect
    <2>3. Copied' /\ Shown' = grown'
        BY <1>7, <1>11, <2>2 DEF DepositAt
    <2>4. DepositAt(p, grown, depositor, 1, v)'
        BY <1>2, <1>11, <2>2, <2>3 DEF DepositAt, Unwritten, grown
    <2> QED BY <1>6, <2>1, <2>3, <2>4
<1>12. CASE /\ tx.calls = <<revoke>>
            /\ DepositAt(p, grown, depositor, 1, v)
    <2>1. NextCall = revoke /\ tx'.calls = <<>>
        BY <1>2, <1>12 DEF NextCall
    <2>2. /\ UNCHANGED <<tx.acc.amount, tx.acc.nft_holder>>
          /\ tx'.acc.nft_mint = [tx.acc.nft_mint EXCEPT ![p].authority = NoAuthority]
        BY <1>4, <2>1, RevokeEffect
    <2>3. Copied' /\ Shown' = grown'
        BY <1>7, <1>12, <2>2 DEF DepositAt
    <2>4. tx'.acc.nft_mint = [nft_mint EXCEPT ![p] = [supply |-> 1, authority |-> NoAuthority]]
        BY <1>9, <1>12, <2>2 DEF DepositAt, Between
    <2>5. DepositAt(p, grown, depositor, 1, NoAuthority)'
        BY <1>2, <1>12, <2>2, <2>3, <2>4 DEF DepositAt, Unwritten, grown
    <2> QED BY <1>6, <2>1, <2>3, <2>5
<1> QED BY <1>1, <1>2, <1>5, <1>8, <1>10, <1>11, <1>12

\* Whatever an instruction writes back, the accounts keep what holds of them between
\* instructions, when the whole of it is an action of DripVault.
LEMMA ExitBetween ==
    ASSUME Between, Copied, Exit, Next,
           tx.acc.nft_mint \in [Positions -> NftMintType],
           tx.acc.referrer \in [Positions -> Destinations \cup {NoHolder}],
           NftsMintedOnce',
           \A p \in Positions : position'[p].status = "open" => referrer'[p] \in AccountsOfB
    PROVE  InstructionInv'
<1>1. TypeInv'
    BY StepType DEF Between
<1>2. wallet' \in [Wallets -> Amount]
    BY TokenAccountFacts DEF Exit, Copied, TokenAccounts
<1>3. tx' = Idle /\ nft_mint' = tx.acc.nft_mint /\ referrer' = tx.acc.referrer
    BY DEF Exit
<1> QED BY <1>1, <1>2, <1>3 DEF InstructionInv, Between

\* A deposit that has come to its end is DripVault's.
LEMMA DepositEnds ==
    ASSUME Between, Shaped, Copied, Depositing, Exit
    PROVE  Next /\ InstructionInv'
<1>1. PICK p \in Positions, v \in Vaults, depositor \in Users, end \in PeriodAccounts,
           amount \in DepositAmounts, n \in SwapCounts, source \in Wallets,
       ref \in AccountsOfB :
        /\ tx.v = v /\ tx.given = [mint |-> p, depositor |-> depositor]
        /\ tx.then = "exit"
        /\ DepositValid(p, v, end, amount, n)
        /\ DepositWritten(p, v, depositor, end, amount, n, ref)
        /\ DepositCalling(p, v, depositor, amount, source)
    BY DEF Depositing
<1> DEFINE grown == [balance EXCEPT ![v]["A"] = @ + amount]
<1>2. DepositAt(p, grown, depositor, 1, NoAuthority)
    <2>1. tx.calls = <<>>
        BY DEF Exit
    <2> QED BY <1>1, <2>1 DEF DepositCalling
<1>3. /\ vault' = tx.acc.vault /\ vault_period' = tx.acc.vault_period
      /\ position' = tx.acc.position /\ referrer' = tx.acc.referrer
      /\ nft_holder' = tx.acc.nft_holder /\ nft_mint' = tx.acc.nft_mint
      /\ UNCHANGED <<now, proto_config>>
    BY DEF Exit
<1>4. balance \in Balances /\ Shown = grown
    BY <1>2 DEF DepositAt, Between, TypeInv, TypeOK, Balances
<1>5. balance[v]["A"] + amount < Two64 /\ balance' = grown
    <2>1. tx.acc.amount[<<v, "A">>] \in Amount /\ "A" \in Tokens
        BY TokenAccountFacts DEF Copied, Tokens
    <2>2. balance[v]["A"] + amount = tx.acc.amount[<<v, "A">>]
        <3>1. Shown[v]["A"] = tx.acc.amount[<<v, "A">>]
            BY <2>1 DEF Shown, InVaults
        <3> QED BY <1>4, <2>1, <3>1 DEF Balances
    <2>3. grown \in Balances
        BY <1>4, <2>1, <2>2 DEF Balances
    <2>4. balance' = grown
        BY <1>4, BalanceWritten
    <2> QED BY <2>1, <2>2, <2>4, WidthAssumption DEF Amount
<1>6. nft_holder' = [nft_holder EXCEPT ![p] = depositor]
      /\ nft_mint' = [nft_mint EXCEPT ![p] = [supply |-> 1, authority |-> NoAuthority]]
      /\ referrer' = [referrer EXCEPT ![p] = ref]
    BY <1>1, <1>2, <1>3 DEF DepositAt, DepositWritten
<1>7. Deposit(p, v, depositor, end, amount, n)
    BY <1>1, <1>3, <1>4, <1>5, <1>6 DEF Deposit, DepositValid, DepositWritten
<1>8. Next
    BY <1>7 DEF Next, DepositStep
<1>9. position' = [position EXCEPT ![p] = position'[p]] /\ position'[p].status = "open"
    BY <1>1, <1>3 DEF DepositWritten, Between, TypeInv, TypeOK
<1>10. \A q \in Positions : q # p =>
          /\ position'[q] = position[q] /\ nft_mint'[q] = nft_mint[q]
          /\ nft_holder'[q] = nft_holder[q] /\ referrer'[q] = referrer[q]
    BY <1>6, <1>9 DEF Between, TypeInv, TypeOK
<1>11. NftsMintedOnce'
    <2>1. nft_mint'[p] = [supply |-> 1, authority |-> NoAuthority] /\ nft_holder'[p] # NoHolder
        BY <1>6, AddressAssumption DEF Between, TypeInv, TypeOK
    <2> QED BY <1>10, <2>1 DEF Between, NftsMintedOnce
<1>12. \A q \in Positions : position'[q].status = "open" => referrer'[q] \in AccountsOfB
    BY <1>6, <1>10 DEF Between
<1>13. /\ tx.acc.nft_mint \in [Positions -> NftMintType]
       /\ tx.acc.referrer \in [Positions -> Destinations \cup {NoHolder}]
    <2>1. [supply |-> 1, authority |-> NoAuthority] \in NftMintType
        BY DEF NftMintType
    <2> QED BY <1>3, <1>6, <2>1, DestinationFacts DEF Between
<1> QED BY <1>8, <1>11, <1>12, <1>13, ExitBetween

-----------------------------------------------------------------------------
(* Drip *)

\* Until an instruction ends, what a drip's validation found remains so, and so does what
\* the payment of its fee comes to.
LEMMA DripValidKept ==
    ASSUME Unwritten, NEW v, NEW last, NEW current, NEW swap
    PROVE  /\ DripValid(v, last, current, swap)' <=> DripValid(v, last, current, swap)
           /\ PeriodAccounts' = PeriodAccounts
           /\ PayoutAccounts' = PayoutAccounts
           /\ SpreadOnDrip(v)' = SpreadOnDrip(v)
           /\ SwapAmount(v)' = SwapAmount(v)
BY DEF Unwritten, DripValid, IsPeriod, Data, PeriodAccounts, PayoutAccounts, SwapAllowed,
       SpreadOnDrip, SwapAmount, Config

LEMMA DripFeeKept ==
    ASSUME Unwritten, NEW v, NEW to
    PROVE  /\ CanPay(balance, v, "A", to, SpreadOnDrip(v))'
                <=> CanPay(balance, v, "A", to, SpreadOnDrip(v))
           /\ Paid(balance, v, "A", to, SpreadOnDrip(v))'
                = Paid(balance, v, "A", to, SpreadOnDrip(v))
<1>1. balance' = balance /\ SpreadOnDrip(v)' = SpreadOnDrip(v)
    BY DripValidKept DEF Unwritten
<1> QED BY <1>1 DEF CanPay, Paid

\* A drip starts with the fee and the swap still to be paid.
LEMMA DripStarts ==
    ASSUME Between, NEW v \in Vaults, NEW last \in PeriodAccounts,
           NEW current \in PeriodAccounts, NEW swap \in Swaps \cup {DefaultKey},
           NEW swap_a \in Wallets, NEW swap_b \in Wallets, NEW fee \in PayoutAccounts,
           StartDrip(v, last, current, swap, swap_a, swap_b, fee)
    PROVE  Underway' /\ Unwritten
<1> DEFINE t == ActivationTimestamp(now, Config(v).granularity, TRUE)
           acc == [Accounts EXCEPT
                     !.vault[v].drip_amount = @ - Data(current).dar,
                     !.vault[v].last_drip_period = current.period_id,
                     !.vault[v].drip_activation_timestamp = t]
           given == [last |-> last, current |-> current, swap |-> swap,
                     drip_amount |-> vault[v].drip_amount, swap_amount |-> SwapAmount(v),
                     spread |-> SpreadOnDrip(v), balance |-> balance[v]]
           calls == <<Transfer(<<v, "A">>, fee, v, SpreadOnDrip(v)),
                      SwapCall(v, swap, swap_a, swap_b)>>
           V == [vault EXCEPT ![v].drip_amount = @ - Data(current).dar,
                              ![v].last_drip_period = current.period_id,
                              ![v].drip_activation_timestamp = t]
<1>1. DripValid(v, last, current, swap)
    BY DEF StartDrip, DripValid
<1>2. Started("drip", NoHolder, v, given, acc, calls, "verify")
    BY DEF StartDrip
<1>3. /\ acc = [vault |-> acc.vault, vault_period |-> acc.vault_period,
                position |-> acc.position, referrer |-> acc.referrer,
                nft_holder |-> acc.nft_holder, nft_mint |-> acc.nft_mint,
                amount |-> acc.amount]
      /\ acc.vault = V
      /\ acc.amount = Accounts.amount
      /\ acc.vault_period = vault_period /\ acc.position = position
      /\ acc.referrer = referrer /\ acc.nft_holder = nft_holder /\ acc.nft_mint = nft_mint
    <2>1. Accounts.vault = vault
        BY DEF Accounts
    <2>2. acc = [Accounts EXCEPT !.vault = V]
        BY <2>1
    <2> HIDE DEF acc, V
    <2> QED BY <2>2 DEF Accounts
<1>4. V \in [Vaults -> VaultType]
    <2> HIDE DEF acc, calls, given
    <2>1. TypeInv /\ vault[v].exists /\ Data(current).dar <= vault[v].drip_amount
        BY <1>1 DEF DripValid, Between
    <2>2. [vault EXCEPT ![v].drip_amount = @ - Data(current).dar,
                        ![v].last_drip_period = current.period_id,
                        ![v].drip_activation_timestamp =
                            ActivationTimestamp(now, Config(v).granularity, TRUE)]
            \in [Vaults -> VaultType]
        BY <2>1, DripRecord, Zenon
    <2> QED BY <2>2, Zenon
<1> HIDE DEF acc, calls, given, t
<1>5. /\ Shaped' /\ Unwritten
      /\ tx'.v = v /\ tx'.given = given /\ tx'.then = "verify"
      /\ tx'.acc = acc /\ tx'.calls = calls
    BY <1>2, <1>3, StartedEffect
<1>6. /\ tx'.acc.amount \in [TokenAccounts -> Amount]
      /\ Shown' = balance'
      /\ NobodyLost'
    BY <1>3, <1>5, StartAmounts
<1>7. Copied'
    BY <1>3, <1>4, <1>5, <1>6 DEF Copied, Between, TypeInv, TypeOK
<1>8. DripWritten(v, current)'
    BY <1>3, <1>5 DEF DripWritten, Unwritten, Config, Data, t
<1>9. /\ SpreadOnDrip(v)' = SpreadOnDrip(v) /\ SwapAmount(v)' = SwapAmount(v)
      /\ PeriodAccounts' = PeriodAccounts /\ PayoutAccounts' = PayoutAccounts
      /\ DripValid(v, last, current, swap)'
    BY <1>1, <1>5, DripValidKept
<1>10. DripCalling(v, last, current, swap)'
    <2>1. SwapCall(v, swap, swap_a, swap_b)' = SwapCall(v, swap, swap_a, swap_b)
        BY <1>9 DEF SwapCall, WhirlpoolSwap, SplTokenSwap
    <2>2. Transfer(<<v, "A">>, fee, v, SpreadOnDrip(v))'
             = Transfer(<<v, "A">>, fee, v, SpreadOnDrip(v))
        BY <1>9 DEF Transfer
    <2>3. tx'.calls = <<Transfer(<<v, "A">>, fee, v, SpreadOnDrip(v))',
                        SwapCall(v, swap, swap_a, swap_b)'>>
        BY <1>5, <2>1, <2>2 DEF calls
    <2>4. tx'.acc.vault_period = vault_period'
        BY <1>3, <1>5 DEF Unwritten
    <2>5. fee \in PayoutAccounts'
        BY <1>9
    <2> QED BY <1>5, <1>6, <2>3, <2>4, <2>5, Zenon DEF DripCalling
<1>11. tx'.given = [last |-> last, current |-> current, swap |-> swap,
                    drip_amount |-> vault'[v].drip_amount, swap_amount |-> SwapAmount(v)',
                    spread |-> SpreadOnDrip(v)', balance |-> balance'[v]]
    BY <1>5, <1>9 DEF given, Unwritten
<1>12. Dripping'
    BY <1>5, <1>8, <1>9, <1>10, <1>11 DEF Dripping
<1> QED BY <1>5, <1>7, <1>12 DEF Underway

\* Whichever program swaps and however its pool orders its mints, it is asked to swap
\* the vault's A for B.
SwapShape(c, v, swap, swap_a, swap_b) ==
    /\ c.kind = "swap" /\ c.pool = swap /\ c.amount_in = SwapAmount(v)
    /\ c.source = <<v, "A">> /\ c.destination = <<v, "B">>
    /\ c.pool_source \in Wallets /\ c.pool_destination \in Wallets
    /\ c.first = swap_a /\ c.authority = v
    /\ IF swap \in Whirlpools /\ TokenOf(swap_a) # "A"
       THEN c.pool_source = swap_b /\ c.pool_destination = swap_a
       ELSE c.pool_source = swap_a /\ c.pool_destination = swap_b

LEMMA SwapCallShape ==
    ASSUME NEW v \in Vaults, NEW swap, NEW swap_a \in Wallets, NEW swap_b \in Wallets
    PROVE  SwapShape(SwapCall(v, swap, swap_a, swap_b), v, swap, swap_a, swap_b)
<1>1. TokenOf(<<v, "A">>) = "A"
    BY TokenAccountFacts DEF Tokens
<1> DEFINE c == SwapCall(v, swap, swap_a, swap_b)
<1>2. /\ c.kind = "swap" /\ c.pool = swap /\ c.amount_in = SwapAmount(v)
      /\ c.source = <<v, "A">> /\ c.destination = <<v, "B">>
      /\ c.first = swap_a /\ c.authority = v
      /\ IF swap \in Whirlpools /\ TokenOf(swap_a) # "A"
         THEN c.pool_source = swap_b /\ c.pool_destination = swap_a
         ELSE c.pool_source = swap_a /\ c.pool_destination = swap_b
    BY <1>1 DEF SwapCall, WhirlpoolSwap, SplTokenSwap
<1> HIDE DEF c
<1>3. SwapShape(c, v, swap, swap_a, swap_b)
    BY <1>2 DEF SwapShape
<1> QED BY <1>3 DEF c

\* A swap moves A of the vault's to the pool and B of the pool's to the vault, and
\* nothing else, whichever program swaps and however its pool orders its mints.
LEMMA SwapMoves ==
    ASSUME Shaped, Copied, CallStep, NEW v \in Vaults,
           NEW swap \in Swaps \cup {DefaultKey}, NEW swap_a \in Wallets, NEW swap_b \in Wallets,
           SwapAmount(v) \in Nat, NextCall = SwapCall(v, swap, swap_a, swap_b),
           NEW held \in Balances, Shown = held
    PROVE  /\ Copied'
           /\ UNCHANGED <<tx.acc.nft_holder, tx.acc.nft_mint>>
           /\ swap \in Swaps
           /\ \A w \in Wallets :
                tx'.acc.amount[w] < tx.acc.amount[w] => WalletOwner[w] = swap
           /\ \E taken \in 0 .. SwapAmount(v), received \in ReceivedAmounts :
                /\ taken <= held[v]["A"]
                /\ Shown' = [held EXCEPT ![v]["A"] = @ - taken, ![v]["B"] = @ + received]
<1> DEFINE c == NextCall
           ps == c.pool_source
           pd == c.pool_destination
           a == <<v, "A">>
           b == <<v, "B">>
<1>1. /\ c.kind = "swap" /\ c.pool = swap /\ c.amount_in = SwapAmount(v)
      /\ c.source = a /\ c.destination = b
      /\ ps \in Wallets /\ pd \in Wallets
    <2>1. SwapShape(c, v, swap, swap_a, swap_b)
        BY SwapCallShape
    <2> HIDE DEF c
    <2> QED BY <2>1 DEF SwapShape
<1>2. /\ SwapOk(c)
      /\ UNCHANGED <<tx.acc.nft_holder, tx.acc.nft_mint>>
    BY <1>1, SwapEffect
<1>3. PICK taken \in 0 .. SwapAmount(v), received \in ReceivedAmounts :
        /\ received <= tx.acc.amount[pd]
        /\ tx.acc.amount[b] + received < Two64
        /\ tx.acc.amount[ps] + taken < Two64
        /\ tx'.acc.amount = Moved(Moved(tx.acc.amount, a, ps, taken), pd, b, received)
    BY <1>1, SwapEffect
<1>4. /\ OwnerOf(ps) = swap /\ OwnerOf(pd) = swap /\ ps # pd
      /\ SwapAmount(v) <= tx.acc.amount[a]
    BY <1>1, <1>2 DEF SwapOk, SwapAccountsOk
<1> HIDE DEF c, ps, pd, a, b
<1>5. swap \in Swaps
    <2>1. WalletOwner[ps] = swap /\ WalletOwner[ps] \in Signers \cup Swaps
        BY <1>1, <1>4, WalletAssumption DEF OwnerOf
    <2> QED BY <2>1, AddressAssumption
<1>6. /\ a \in TokenAccounts /\ b \in TokenAccounts /\ a # b /\ a \notin Wallets /\ b \notin Wallets
      /\ Wallets \subseteq TokenAccounts
    BY TokenAccountFacts DEF a, b, Tokens
<1>7. taken \in Nat /\ received \in Nat /\ taken <= SwapAmount(v)
    BY BoundAssumption, CheckedAmounts
<1>8. tx.acc.amount \in [TokenAccounts -> Amount]
    BY DEF Copied
<1>9. \A x \in TokenAccounts : tx.acc.amount[x] \in Nat
    BY <1>8, CheckedAmounts
<1> DEFINE mid == Moved(tx.acc.amount, a, ps, taken)
           after == Moved(mid, pd, b, received)
<1>10. /\ mid \in [TokenAccounts -> Amount]
       /\ mid[a] = tx.acc.amount[a] - taken
       /\ mid[ps] = tx.acc.amount[ps] + taken
       /\ \A x \in TokenAccounts : x # a /\ x # ps => mid[x] = tx.acc.amount[x]
    <2>1. taken <= tx.acc.amount[a]
        BY <1>4, <1>6, <1>7, <1>9
    <2>2. ps \in TokenAccounts /\ ps # a
        BY <1>1, <1>6
    <2> QED BY <1>3, <1>6, <1>7, <1>8, <2>1, <2>2, MovedAmounts
<1> HIDE DEF mid
<1>11. /\ after \in [TokenAccounts -> Amount]
       /\ after[pd] = mid[pd] - received
       /\ after[b] = mid[b] + received
       /\ \A x \in TokenAccounts : x # pd /\ x # b => after[x] = mid[x]
    <2>1. mid[pd] = tx.acc.amount[pd] /\ mid[b] = tx.acc.amount[b]
        BY <1>1, <1>4, <1>6, <1>10
    <2>2. pd \in TokenAccounts /\ pd # b
        BY <1>1, <1>6
    <2> QED BY <1>3, <1>6, <1>7, <1>10, <2>1, <2>2, MovedAmounts
<1> HIDE DEF after
<1>12. tx'.acc.amount = after
    BY <1>3 DEF after, mid
<1>13. Copied'
    BY <1>11, <1>12, CallReturns DEF Copied, OwnCopiesKept
<1>14. ASSUME NEW w \in Wallets, tx'.acc.amount[w] < tx.acc.amount[w]
       PROVE  WalletOwner[w] = swap
    <2>1. w \in TokenAccounts /\ w # a /\ w # b
        BY <1>6
    <2>2. CASE w = pd
        BY <1>4, <2>2 DEF OwnerOf
    <2>3. CASE w # pd
        <3>1. after[w] = mid[w]
            BY <1>11, <2>1, <2>3
        <3>2. mid[w] >= tx.acc.amount[w]
            BY <1>7, <1>9, <1>10, <2>1
        <3>3. mid[w] \in Nat
            BY <1>10, <2>1, CheckedAmounts
        <3> QED BY <1>9, <1>12, <1>14, <2>1, <3>1, <3>2, <3>3
    <2> QED BY <2>2, <2>3
<1>15. ASSUME NEW w \in Vaults
       PROVE  /\ tx'.acc.amount[<<w, "A">>] =
                   tx.acc.amount[<<w, "A">>] - (IF w = v THEN taken ELSE 0)
              /\ tx'.acc.amount[<<w, "B">>] =
                   tx.acc.amount[<<w, "B">>] + (IF w = v THEN received ELSE 0)
    <2>1. /\ <<w, "A">> \in TokenAccounts /\ <<w, "B">> \in TokenAccounts
          /\ <<w, "A">> \notin Wallets /\ <<w, "B">> \notin Wallets
        BY TokenAccountFacts DEF Tokens
    <2>2. <<w, "A">> # b /\ <<w, "B">> # a /\ (<<w, "A">> = a <=> w = v) /\ (<<w, "B">> = b <=> w = v)
        BY DEF a, b
    <2>3. after[<<w, "A">>] = mid[<<w, "A">>]
        BY <1>1, <1>11, <2>1, <2>2
    <2>4. mid[<<w, "A">>] = tx.acc.amount[<<w, "A">>] - (IF w = v THEN taken ELSE 0)
        BY <1>1, <1>9, <1>10, <2>1, <2>2
    <2>5. mid[<<w, "B">>] = tx.acc.amount[<<w, "B">>]
        BY <1>1, <1>10, <2>1, <2>2
    <2>6. after[<<w, "B">>] = mid[<<w, "B">>] + (IF w = v THEN received ELSE 0)
        <3>1. CASE w = v
            BY <1>11, <2>2, <3>1
        <3>2. CASE w # v
            BY <1>1, <1>9, <1>11, <2>1, <2>2, <2>5, <3>2
        <3> QED BY <3>1, <3>2
    <2> QED BY <1>12, <2>3, <2>4, <2>5, <2>6
<1>16. taken <= held[v]["A"]
       /\ Shown' = [held EXCEPT ![v]["A"] = @ - taken, ![v]["B"] = @ + received]
    <2> DEFINE less == [held EXCEPT ![v]["A"] = held[v]["A"] - taken]
               more == [less EXCEPT ![v]["B"] = less[v]["B"] + received]
    <2>1. ASSUME NEW w \in Vaults, NEW s \in Tokens
          PROVE  /\ tx.acc.amount[<<w, s>>] = held[w][s] /\ held[w][s] \in Nat
                 /\ after[<<w, s>>] \in Amount
        <3>1. Shown[w][s] = tx.acc.amount[<<w, s>>]
            BY DEF Shown, InVaults
        <3>2. <<w, s>> \in TokenAccounts
            BY TokenAccountFacts
        <3> QED BY <1>11, <3>1, <3>2, BalanceNat
    <2>2. ASSUME NEW w \in Vaults
          PROVE  /\ after[<<w, "A">>] = held[w]["A"] - (IF w = v THEN taken ELSE 0)
                 /\ after[<<w, "B">>] = held[w]["B"] + (IF w = v THEN received ELSE 0)
        BY <1>12, <1>15, <2>1 DEF Tokens
    <2>3. held[v]["A"] - taken \in Amount /\ held[v]["B"] + received \in Amount
          /\ "A" \in Tokens /\ "B" \in Tokens
        BY <2>1, <2>2 DEF Tokens
    <2>4. less \in Balances
          /\ \A w \in Vaults, s \in Tokens :
               less[w][s] = IF w = v /\ s = "A" THEN held[v]["A"] - taken ELSE held[w][s]
        BY <2>3, BalanceReplaced
    <2> HIDE DEF less
    <2>5. less[v]["B"] + received \in Amount
        BY <2>3, <2>4
    <2>6. more \in Balances
          /\ \A w \in Vaults, s \in Tokens :
               more[w][s] = IF w = v /\ s = "B" THEN less[v]["B"] + received ELSE less[w][s]
        BY <2>3, <2>4, <2>5, BalanceReplaced
    <2> HIDE DEF more
    <2>7. ASSUME NEW w \in Vaults, NEW s \in Tokens
          PROVE  after[<<w, s>>] = more[w][s]
        <3>1. more[w]["A"] = less[w]["A"] /\ more[w]["B"] =
                 IF w = v THEN less[v]["B"] + received ELSE less[w]["B"]
            BY <2>3, <2>6
        <3>2. /\ less[w]["A"] = IF w = v THEN held[v]["A"] - taken ELSE held[w]["A"]
              /\ less[w]["B"] = held[w]["B"] /\ less[v]["B"] = held[v]["B"]
            BY <2>3, <2>4
        <3>3. held[w]["A"] \in Nat /\ held[w]["B"] \in Nat
            BY <2>1, <2>3
        <3>4. after[<<w, "A">>] = more[w]["A"] /\ after[<<w, "B">>] = more[w]["B"]
            BY <2>2, <3>1, <3>2, <3>3
        <3> QED BY <3>4 DEF Tokens
    <2>8. InVaults(after) = more
        BY <2>6, <2>7, InVaultsIs
    <2>9. taken <= held[v]["A"]
        <3>1. tx.acc.amount[a] = held[v]["A"] /\ held[v]["A"] \in Nat
            BY <2>1, <2>3 DEF a
        <3> QED BY <1>4, <1>7, <3>1
    <2> QED BY <1>12, <2>8, <2>9 DEF Shown, less, more
<1> QED BY <1>2, <1>5, <1>13, <1>14, <1>16

\* Each of a drip's calls brings it to the next stage.
LEMMA DripContinues ==
    ASSUME Between, Shaped, Copied, Dripping, CallStep
    PROVE  Underway'
<1>1. PICK v \in Vaults, last \in PeriodAccounts, current \in PeriodAccounts,
           swap \in Swaps \cup {DefaultKey} :
        /\ tx.v = v
        /\ tx.given = [last |-> last, current |-> current, swap |-> swap,
                       drip_amount |-> vault[v].drip_amount, swap_amount |-> SwapAmount(v),
                       spread |-> SpreadOnDrip(v), balance |-> balance[v]]
        /\ DripValid(v, last, current, swap)
        /\ DripWritten(v, current)
        /\ DripCalling(v, last, current, swap)
    BY DEF Dripping
<1>2. /\ Shaped' /\ Inside /\ Unwritten /\ OwnCopiesKept /\ tx'.then = tx.then
      /\ tx.calls # <<>> /\ tx'.calls = Tail(tx.calls)
    BY CallReturns DEF Inside
<1>3. /\ SpreadOnDrip(v)' = SpreadOnDrip(v) /\ SwapAmount(v)' = SwapAmount(v)
      /\ PeriodAccounts' = PeriodAccounts /\ PayoutAccounts' = PayoutAccounts
      /\ DripValid(v, last, current, swap)'
    BY <1>1, <1>2, DripValidKept
<1> DEFINE fee == SpreadOnDrip(v)
           paid(to) == Paid(balance, v, "A", to, fee)
<1>4. fee \in Nat /\ SwapAmount(v) \in Nat /\ balance \in Balances /\ "A" \in Tokens
    <2>1. fee \in Nat /\ SwapAmount(v) \in Nat
        BY <1>1, SwapAmountType DEF Between, DripValid
    <2> QED BY <2>1 DEF Between, TypeInv, TypeOK, Balances, Tokens
<1>5. ASSUME UNCHANGED <<tx.acc.nft_holder, tx.acc.nft_mint>>,
             Copied', DripCalling(v, last, current, swap)'
      PROVE  Underway'
    <2>1. DripWritten(v, current)'
        BY <1>1, <1>2, <1>5 DEF DripWritten, OwnCopiesKept, Unwritten, Config, Data
    <2>2. tx'.given = [last |-> last, current |-> current, swap |-> swap,
                    drip_amount |-> vault'[v].drip_amount, swap_amount |-> SwapAmount(v)',
                    spread |-> SpreadOnDrip(v)', balance |-> balance'[v]]
        BY <1>1, <1>2, <1>3 DEF Inside, Unwritten
    <2>3. Dripping'
        BY <1>1, <1>2, <1>3, <1>5, <2>1, <2>2 DEF Dripping, Inside
    <2> QED BY <1>2, <1>5, <2>3 DEF Underway
<1>6. ASSUME NEW swap_a \in Wallets, NEW swap_b \in Wallets
      PROVE  SwapCall(v, swap, swap_a, swap_b)' = SwapCall(v, swap, swap_a, swap_b)
    BY <1>3 DEF SwapCall, WhirlpoolSwap, SplTokenSwap
<1>7. PICK swap_a \in Wallets, swap_b \in Wallets, to \in PayoutAccounts :
        /\ \/ /\ tx.calls = <<Transfer(<<v, "A">>, to, v, fee),
                              SwapCall(v, swap, swap_a, swap_b)>>
              /\ Shown = balance
           \/ /\ tx.calls = <<SwapCall(v, swap, swap_a, swap_b)>>
              /\ CanPay(balance, v, "A", to, fee)
              /\ Shown = paid(to)
        /\ NobodyLost /\ tx.then = "verify" /\ tx.acc.vault_period = vault_period
    BY <1>1, <1>2 DEF DripCalling
<1>10. /\ to \in TokenAccounts
       /\ CanPay(balance, v, "A", to, fee)' <=> CanPay(balance, v, "A", to, fee)
       /\ paid(to)' = paid(to)
    BY <1>2, DestinationFacts, DripFeeKept
<1>11. \A w \in Wallets : tx.acc.amount[w] \in Nat /\ wallet[w] \in Nat
    BY TokenAccountFacts, CheckedAmounts DEF Copied, Between, TokenAccounts
<1>8. ASSUME tx.calls = <<Transfer(<<v, "A">>, to, v, fee), SwapCall(v, swap, swap_a, swap_b)>>,
             Shown = balance
      PROVE  Underway'
    <2>1. /\ NextCall = Transfer(<<v, "A">>, to, v, fee)
          /\ tx'.calls = <<SwapCall(v, swap, swap_a, swap_b)>>
        BY <1>2, <1>8 DEF NextCall
    <2> HIDE DEF fee
    <2>2. /\ Copied'
          /\ CanPay(balance, v, "A", to, fee)
          /\ Shown' = paid(to)
          /\ \A x \in TokenAccounts :
                tx'.acc.amount[x] = tx.acc.amount[x] - (IF x = <<v, "A">> THEN fee ELSE 0)
                                      + (IF x = to THEN fee ELSE 0)
          /\ UNCHANGED <<tx.acc.nft_holder, tx.acc.nft_mint>>
        BY <1>4, <1>8, <1>10, <2>1, PaymentEffect
    <2>3. NobodyLost'
        <3>1. ASSUME NEW w \in Wallets
              PROVE  tx'.acc.amount[w] >= wallet[w]
            <4>1. w \in TokenAccounts /\ w # <<v, "A">>
                BY <1>4, WalletFacts
            <4>2. tx.acc.amount[w] >= wallet[w]
                BY <1>7 DEF NobodyLost
            <4> QED BY <1>4, <1>11, <2>2, <4>1, <4>2
        <3> QED BY <1>2, <3>1 DEF NobodyLost, Unwritten
    <2>5. tx'.calls = <<SwapCall(v, swap, swap_a, swap_b)'>> /\ tx'.then = "verify"
          /\ tx'.acc.vault_period = vault_period' /\ to \in PayoutAccounts'
        BY <1>2, <1>3, <1>6, <1>7, <2>1 DEF OwnCopiesKept, Unwritten
    <2>6. CanPay(balance, v, "A", to, fee)' /\ Shown' = paid(to)'
        BY <1>10, <2>2
    <2>7. DripCalling(v, last, current, swap)'
        BY <2>3, <2>5, <2>6, Zenon DEF DripCalling, fee
    <2> QED BY <1>5, <2>2, <2>7
<1>9. ASSUME tx.calls = <<SwapCall(v, swap, swap_a, swap_b)>>,
             CanPay(balance, v, "A", to, fee), Shown = paid(to)
      PROVE  Underway'
    <2>1. NextCall = SwapCall(v, swap, swap_a, swap_b) /\ tx'.calls = <<>>
        BY <1>2, <1>9 DEF NextCall
    <2>2. paid(to) \in Balances
        BY <1>4, <1>9, PaidFacts
    <2> DEFINE b == paid(to)
    <2> HIDE DEF b
    <2>3. /\ Copied'
          /\ UNCHANGED <<tx.acc.nft_holder, tx.acc.nft_mint>>
          /\ swap \in Swaps
          /\ \A w \in Wallets :
               tx'.acc.amount[w] < tx.acc.amount[w] => WalletOwner[w] = swap
          /\ \E taken \in 0 .. SwapAmount(v), received \in ReceivedAmounts :
               /\ taken <= b[v]["A"]
               /\ Shown' = [b EXCEPT ![v]["A"] = @ - taken, ![v]["B"] = @ + received]
        BY <1>4, <1>9, <2>1, <2>2, SwapMoves DEF b
    <2>4. PICK taken \in 0 .. SwapAmount(v), received \in ReceivedAmounts :
               /\ taken <= b[v]["A"]
               /\ Shown' = [b EXCEPT ![v]["A"] = @ - taken, ![v]["B"] = @ + received]
        BY <2>3
    <2>6. \A w \in Wallets : tx'.acc.amount[w] < wallet'[w] => WalletOwner[w] = swap
        <3>1. \A w \in Wallets : tx'.acc.amount[w] \in Nat
            BY <2>3, TokenAccountFacts, CheckedAmounts DEF Copied, TokenAccounts
        <3> QED BY <1>2, <1>7, <1>11, <2>3, <3>1 DEF NobodyLost, Unwritten
    <2>7. tx'.then = "verify" /\ tx'.acc.vault_period = vault_period'
        BY <1>2, <1>7 DEF OwnCopiesKept, Unwritten
    <2>8. taken \in 0 .. SwapAmount(v)' /\ to \in PayoutAccounts'
        BY <1>3
    <2>9. /\ CanPay(balance, v, "A", to, fee)'
          /\ taken <= paid(to)'[v]["A"]
          /\ Shown' = [paid(to)' EXCEPT ![v]["A"] = @ - taken, ![v]["B"] = @ + received]
        BY <1>9, <1>10, <2>4 DEF b
    <2>10. DripCalling(v, last, current, swap)'
        BY <2>1, <2>3, <2>6, <2>7, <2>8, <2>9, Zenon DEF DripCalling
    <2> QED BY <1>5, <2>3, <2>10
<1> QED BY <1>7, <1>8, <1>9

\* The verification passes an exact fill only.
LEMMA DripVerified ==
    ASSUME Between, Shaped, Copied, Dripping, VerifySwap
    PROVE  Underway' /\ Unwritten
<1>1. PICK v \in Vaults, last \in PeriodAccounts, current \in PeriodAccounts,
           swap \in Swaps \cup {DefaultKey} :
        /\ tx.v = v
        /\ tx.given = [last |-> last, current |-> current, swap |-> swap,
                       drip_amount |-> vault[v].drip_amount, swap_amount |-> SwapAmount(v),
                       spread |-> SpreadOnDrip(v), balance |-> balance[v]]
        /\ DripValid(v, last, current, swap)
        /\ DripWritten(v, current)
        /\ DripCalling(v, last, current, swap)
    BY DEF Dripping
<1> DEFINE fee == SpreadOnDrip(v)
           paid(to) == Paid(balance, v, "A", to, fee)
<1>2. PICK to \in PayoutAccounts, taken \in 0 .. SwapAmount(v), received \in ReceivedAmounts :
        /\ CanPay(balance, v, "A", to, fee)
        /\ taken <= paid(to)[v]["A"]
        /\ Shown = [paid(to) EXCEPT ![v]["A"] = @ - taken, ![v]["B"] = @ + received]
        /\ swap \in Swaps
        /\ \A w \in Wallets : tx.acc.amount[w] < wallet[w] => WalletOwner[w] = swap
        /\ tx.acc.vault_period = vault_period
    <2>1. tx.calls = <<>> /\ tx.then = "verify"
        BY DEF VerifySwap
    <2> QED BY <1>1, <2>1 DEF DripCalling
<1> DEFINE held == balance[v]["A"]
           left == paid(to)[v]["A"]
<1>3. /\ fee \in Nat /\ SwapAmount(v) \in Nat /\ held \in Nat /\ left \in Nat
      /\ taken \in Nat /\ received \in Nat
      /\ balance \in Balances /\ paid(to) \in Balances
      /\ balance[v]["B"] \in Nat /\ paid(to)[v]["B"] = balance[v]["B"]
    <2>1. fee \in Nat /\ SwapAmount(v) \in Nat
        BY <1>1, SwapAmountType DEF Between, DripValid
    <2>2. balance \in Balances /\ "A" \in Tokens /\ "B" \in Tokens
        BY DEF Between, TypeInv, TypeOK, Balances, Tokens
    <2>3. /\ paid(to) \in Balances /\ SpentAtMost(balance, paid(to), v, "A", fee)
        <3> HIDE DEF fee
        <3> QED BY <1>2, <2>1, <2>2, PaidFacts
    <2>4. held \in Nat /\ left \in Nat /\ balance[v]["B"] \in Nat
        <3> HIDE DEF fee
        <3> DEFINE c == paid(to)
        <3> HIDE DEF c
        <3>1. c \in Balances
            BY <2>3 DEF c
        <3>2. c[v]["A"] \in Nat
            BY <2>2, <3>1, BalanceNat
        <3> QED BY <2>2, <3>2, BalanceNat DEF c
    <2>5. paid(to)[v]["B"] = balance[v]["B"]
        BY <2>2, <2>3 DEF SpentAtMost
    <2>6. received \in Nat
        BY BoundAssumption, CheckedAmounts
    <2>7. taken \in Nat
        <3> HIDE DEF fee, held, left
        <3> QED BY <2>1
    <2> QED BY <2>1, <2>2, <2>3, <2>4, <2>5, <2>6, <2>7
<1>4. Reloaded("A") = left - taken /\ Reloaded("B") = balance[v]["B"] + received
    <2> DEFINE c == paid(to)
    <2> HIDE DEF c
    <2>1. c \in Balances /\ Shown = [c EXCEPT ![v]["A"] = @ - taken, ![v]["B"] = @ + received]
        BY <1>2, <1>3 DEF c
    <2>2. Shown[v]["A"] = c[v]["A"] - taken /\ Shown[v]["B"] = c[v]["B"] + received
        BY <2>1 DEF Balances, Tokens
    <2>3. Shown[v]["A"] = tx.acc.amount[<<v, "A">>] /\ Shown[v]["B"] = tx.acc.amount[<<v, "B">>]
        BY DEF Shown, InVaults, Tokens
    <2> QED BY <1>1, <1>3, <2>2, <2>3 DEF Reloaded, c
<1>5. /\ tx.given.last = last /\ tx.given.current = current
      /\ tx.given.balance = balance[v] /\ tx.given.swap_amount = SwapAmount(v)
      /\ tx.given.spread = fee /\ tx.given.drip_amount = vault[v].drip_amount
    BY <1>1
<1> DEFINE price == ComputePrice(received, SwapAmount(v))
           twap  == NewTwap(Data(last).twap, current.period_id, price)
           VP    == [vault_period EXCEPT
                       ![current.vault][current.period_id].twap = twap,
                       ![current.vault][current.period_id].drip_timestamp = now]
<1>6. Reloaded("B") - tx.given.balance["B"] = received
    BY <1>3, <1>4, <1>5
<1>7. tx.given.balance["A"] - Reloaded("A") = held - left + taken
    <2> HIDE DEF held, left
    <2>1. tx.given.balance["A"] = held
        BY <1>5 DEF held
    <2> QED BY <1>3, <1>4, <2>1
<1>8. tx.acc.vault_period[last.vault][last.period_id].twap = Data(last).twap
    BY <1>2 DEF Data
<1>9. SwapCompleted(v, held - left + taken, received)
    BY <1>3, <1>5, <1>6, <1>7 DEF VerifySwap, SpentExactly, SwapCompleted
<1>10. NewTwapDefined(Data(last).twap, current.period_id, price)
    BY <1>5, <1>6, <1>8 DEF VerifySwap
<1>11. tx' = [tx EXCEPT !.acc = [tx.acc EXCEPT !.vault_period = VP], !.then = "exit"]
    <2>1. tx' = [tx EXCEPT
             !.acc.vault_period[current.vault][current.period_id].twap = twap,
             !.acc.vault_period[current.vault][current.period_id].drip_timestamp = now,
             !.then = "exit"]
        BY <1>5, <1>6, <1>8, Zenon DEF VerifySwap
    <2> DEFINE a    == current.vault
               k    == current.period_id
               VP1  == [vault_period EXCEPT ![a][k].twap = twap]
               acc1 == [tx.acc EXCEPT !.vault_period = VP1]
               tx1  == [tx EXCEPT !.acc = acc1]
    <2> HIDE DEF twap
    <2>2. VP = [VP1 EXCEPT ![a][k].drip_timestamp = now]
        OBVIOUS
    <2>3. tx' = [[tx1 EXCEPT !.acc.vault_period[a][k].drip_timestamp = now]
                    EXCEPT !.then = "exit"]
        BY <1>2, <2>1
    <2> HIDE DEF VP, VP1, a, k
    <2>4. tx1.acc = acc1 /\ acc1.vault_period = VP1
        BY DEF Shaped
    <2>5. [acc1 EXCEPT !.vault_period = VP] = [tx.acc EXCEPT !.vault_period = VP]
        BY DEF Shaped
    <2>6. tx' = [[tx1 EXCEPT !.acc = [acc1 EXCEPT !.vault_period = VP]] EXCEPT !.then = "exit"]
        <3> HIDE DEF tx1, acc1
        <3> QED BY <2>2, <2>3, <2>4
    <2>7. tx' = [[tx1 EXCEPT !.acc = [tx.acc EXCEPT !.vault_period = VP]] EXCEPT !.then = "exit"]
        BY <2>5, <2>6
    <2> HIDE DEF acc1
    <2> QED BY <2>7 DEF Shaped
<1> HIDE DEF VP
<1>12. /\ Shaped'
       /\ tx'.acc.vault_period = VP /\ tx'.then = "exit"
       /\ UNCHANGED <<tx.v, tx.given, tx.calls, tx.acc.vault, tx.acc.position, tx.acc.referrer,
                      tx.acc.nft_holder, tx.acc.nft_mint, tx.acc.amount>>
    <2> DEFINE acc == [tx.acc EXCEPT !.vault_period = VP]
    <2>1. acc = [vault |-> tx.acc.vault, vault_period |-> VP,
                 position |-> tx.acc.position, referrer |-> tx.acc.referrer,
                 nft_holder |-> tx.acc.nft_holder, nft_mint |-> tx.acc.nft_mint,
                 amount |-> tx.acc.amount]
        BY DEF Shaped
    <2>2. tx' = [tx EXCEPT !.acc = acc, !.then = "exit"]
        BY <1>11
    <2> HIDE DEF acc
    <2>3. tx' = [ix |-> tx.ix, signer |-> tx.signer, v |-> tx.v, given |-> tx.given,
                 acc |-> acc, calls |-> tx.calls, then |-> "exit"]
        BY <2>2 DEF Shaped
    <2> QED BY <2>1, <2>3 DEF Shaped
<1>13. Unwritten
    BY DEF VerifySwap, Unwritten, vars
<1>14. VP \in [Vaults -> [PeriodIds -> PeriodType]]
    BY <1>1, <1>10, PriceRecord DEF VP, DripValid, Between
<1>15. Copied'
    BY <1>12, <1>14 DEF Copied
<1>16. /\ SpreadOnDrip(v)' = fee /\ SwapAmount(v)' = SwapAmount(v)
       /\ PeriodAccounts' = PeriodAccounts /\ PayoutAccounts' = PayoutAccounts
       /\ DripValid(v, last, current, swap)'
    BY <1>1, <1>13, DripValidKept
<1>17. DripWritten(v, current)'
    BY <1>1, <1>12, <1>13 DEF DripWritten, Unwritten, Config, Data
<1>18. /\ (SwapCompleted(v, balance[v]["A"] - paid(to)[v]["A"] + taken, received))'
       /\ PriceWritten(v, last, current, received)'
    <2>1. vault' = vault /\ vault_period' = vault_period /\ now' = now /\ balance' = balance
        BY <1>13 DEF Unwritten
    <2>2. paid(to)' = paid(to)
        BY <1>13, DripFeeKept
    <2>3. (SwapCompleted(v, balance[v]["A"] - paid(to)[v]["A"] + taken, received))'
        BY <1>9, <1>16, <2>1, <2>2 DEF SwapCompleted
    <2>4. PriceWritten(v, last, current, received)'
        BY <1>10, <1>12, <1>16, <2>1 DEF PriceWritten, Data, VP
    <2> QED BY <2>3, <2>4
<1>19. DripCalling(v, last, current, swap)'
    <2>1. tx'.calls = <<>>
        BY <1>12 DEF VerifySwap
    <2>2. /\ CanPay(balance, v, "A", to, fee)' /\ taken <= paid(to)'[v]["A"]
          /\ Shown' = [paid(to)' EXCEPT ![v]["A"] = @ - taken, ![v]["B"] = @ + received]
        BY <1>2, <1>12, <1>13, DripFeeKept DEF Shown
    <2>3. \A w \in Wallets : tx'.acc.amount[w] < wallet'[w] => WalletOwner[w] = swap
        BY <1>2, <1>12, <1>13 DEF Unwritten
    <2>4. taken \in 0 .. SwapAmount(v)' /\ to \in PayoutAccounts'
        BY <1>16
    <2> QED BY <1>2, <1>12, <1>18, <2>1, <2>2, <2>3, <2>4, Zenon DEF DripCalling
<1>20. Dripping'
    <2>1. tx'.given = [last |-> last, current |-> current, swap |-> swap,
                    drip_amount |-> vault'[v].drip_amount, swap_amount |-> SwapAmount(v)',
                    spread |-> SpreadOnDrip(v)', balance |-> balance'[v]]
        BY <1>1, <1>12, <1>13, <1>16 DEF Unwritten
    <2>2. tx'.v = v
        BY <1>1, <1>12
    <2> QED BY <1>16, <1>17, <1>19, <2>1, <2>2 DEF Dripping
<1> QED BY <1>12, <1>13, <1>15, <1>20 DEF Underway

\* A drip that has come to its end is DripVault's.
LEMMA DripEnds ==
    ASSUME Between, Shaped, Copied, Dripping, Exit
    PROVE  Next /\ InstructionInv'
<1>1. PICK v \in Vaults, last \in PeriodAccounts, current \in PeriodAccounts,
           swap \in Swaps \cup {DefaultKey} :
        /\ DripValid(v, last, current, swap)
        /\ DripWritten(v, current)
        /\ DripCalling(v, last, current, swap)
    BY DEF Dripping
<1> DEFINE fee == SpreadOnDrip(v)
           paid(to) == Paid(balance, v, "A", to, fee)
<1>2. PICK to \in PayoutAccounts, taken \in 0 .. SwapAmount(v), received \in ReceivedAmounts :
        /\ CanPay(balance, v, "A", to, fee)
        /\ taken <= paid(to)[v]["A"]
        /\ Shown = [paid(to) EXCEPT ![v]["A"] = @ - taken, ![v]["B"] = @ + received]
        /\ swap \in Swaps
        /\ SwapCompleted(v, balance[v]["A"] - paid(to)[v]["A"] + taken, received)
        /\ PriceWritten(v, last, current, received)
    <2>1. tx.then = "exit" /\ tx.calls = <<>>
        BY DEF Exit
    <2> QED BY <1>1, <2>1 DEF DripCalling
<1>3. /\ vault' = tx.acc.vault /\ vault_period' = tx.acc.vault_period
      /\ position' = tx.acc.position /\ referrer' = tx.acc.referrer
      /\ nft_holder' = tx.acc.nft_holder /\ nft_mint' = tx.acc.nft_mint
      /\ UNCHANGED <<now, proto_config>>
    BY DEF Exit
<1>4. paid(to) \in Balances
    <2>1. fee \in Nat
        BY <1>1, SwapAmountType DEF Between, DripValid
    <2>2. balance \in Balances /\ "A" \in Tokens
        BY DEF Between, TypeInv, TypeOK, Balances, Tokens
    <2> HIDE DEF fee
    <2> QED BY <1>2, <2>1, <2>2, PaidFacts
<1>5. paid(to)[v]["B"] + received < Two64
    <2> DEFINE c == paid(to)
    <2> HIDE DEF c
    <2>1. c \in Balances /\ Shown = [c EXCEPT ![v]["A"] = @ - taken, ![v]["B"] = @ + received]
        BY <1>2, <1>4 DEF c
    <2>2. Shown[v]["B"] = c[v]["B"] + received
        BY <2>1 DEF Balances, Tokens
    <2>3. tx.acc.amount[<<v, "B">>] \in Amount
        BY TokenAccountFacts DEF Copied, Tokens
    <2>4. Shown[v]["B"] = tx.acc.amount[<<v, "B">>]
        BY DEF Shown, InVaults, Tokens
    <2>5. c[v]["B"] + received < Two64
        BY <2>2, <2>3, <2>4, WidthAssumption DEF Amount
    <2> QED BY <2>5 DEF c
<1>7. balance' = [paid(to) EXCEPT ![v]["A"] = @ - taken, ![v]["B"] = @ + received]
    BY <1>2, BalanceWritten
<1>8. Drip(v, last, current, swap, to, taken, received)
    <2>1. ProcessDrip(v, current)
        BY <1>1, <1>3 DEF DripValid, DripWritten, ProcessDrip
    <2>2. UpdatePeriod(last, current, SwapAmount(v), received)
        BY <1>2, <1>3 DEF PriceWritten, UpdatePeriod
    <2>3. UNCHANGED <<position, nft_holder>>
        BY <1>1, <1>3 DEF DripWritten
    <2> QED BY <1>1, <1>2, <1>3, <1>5, <1>7, <2>1, <2>2, <2>3
            DEF Drip, DripValid, SwapAllowed
<1>9. Next
    BY <1>2, <1>8 DEF Next, DripStep
<1>10. /\ position' = position /\ referrer' = referrer
       /\ nft_holder' = nft_holder /\ nft_mint' = nft_mint
    BY <1>1, <1>3 DEF DripWritten
<1> QED BY <1>3, <1>9, <1>10, ExitBetween DEF Between, NftsMintedOnce

-----------------------------------------------------------------------------
(* Paying out B *)

\* The three parts of a withdrawal add up to it.
LEMMA WithdrawalParts ==
    ASSUME TypeInv, NEW v \in Vaults, NEW p \in Positions,
           NEW i \in PeriodAccounts, NEW j \in PeriodAccounts, ValidWithdrawal(p, v, i, j),
           NEW x, x = BeforeFees(p, v, i, j)
    PROVE  /\ x \in Nat
           /\ TreasuryShare(v, x) \in Nat
           /\ ReferrerShare(v, x) \in Nat
           /\ NetOfFees(v, x) \in Nat
           /\ x = TreasuryShare(v, x) + NetOfFees(v, x) + ReferrerShare(v, x)
BY BeforeFeesType, PayoutParts

\* Until an instruction ends, what a withdrawal's validation found remains so.
LEMMA WithdrawalKept ==
    ASSUME Unwritten, NEW p, NEW v, NEW i, NEW j
    PROVE  /\ ValidWithdrawal(p, v, i, j)' <=> ValidWithdrawal(p, v, i, j)
           /\ BeforeFees(p, v, i, j)' = BeforeFees(p, v, i, j)
           /\ PeriodAccounts' = PeriodAccounts
           /\ PayoutAccounts' = PayoutAccounts /\ PayeesB' = PayeesB
           /\ vault' = vault /\ Config(v)' = Config(v)
BY DEF Unwritten, ValidWithdrawal, IsPeriod, Data, PeriodAccounts, BeforeFees, Config,
       WithdrawalBDefined, MaxWithdrawableB, LastDripOf, Expiry, NetOfFees,
       TreasuryShare, ReferrerShare, PayoutAccounts, PayeesB

\* So does what its payments come to.
LEMMA PaymentsKept ==
    ASSUME Unwritten, NEW p, NEW v, NEW i, NEW j, NEW user_b, NEW due,
           NEW x, x = BeforeFees(p, v, i, j)
    PROVE  LET to == Payees(p, v, user_b)
           IN  /\ to' = to
               /\ TreasuryShare(v, BeforeFees(p, v, i, j))' = TreasuryShare(v, x)
               /\ ReferrerShare(v, BeforeFees(p, v, i, j))' = ReferrerShare(v, x)
               /\ NetOfFees(v, BeforeFees(p, v, i, j))' = NetOfFees(v, x)
               /\ AfterReferrer(v, BeforeFees(p, v, i, j), to)' = AfterReferrer(v, x, to)
               /\ PaidSoFar(v, BeforeFees(p, v, i, j), to, due)' = PaidSoFar(v, x, to, due)
               /\ CouldPay(v, BeforeFees(p, v, i, j), to, due)' <=> CouldPay(v, x, to, due)
               /\ CanPayB(v, BeforeFees(p, v, i, j), to)' <=> CanPayB(v, x, to)
<1> DEFINE y  == BeforeFees(p, v, i, j)
           to == Payees(p, v, user_b)
<1>1. y' = x /\ Config(v)' = Config(v) /\ balance' = balance
    BY WithdrawalKept DEF Unwritten
<1>2. to' = to
    BY DEF Payees, Unwritten
<1> HIDE DEF y, to
<1>3. /\ TreasuryShare(v, y)' = TreasuryShare(v, x)
      /\ ReferrerShare(v, y)' = ReferrerShare(v, x)
      /\ NetOfFees(v, y)' = NetOfFees(v, x)
    BY <1>1 DEF TreasuryShare, ReferrerShare, NetOfFees
<1>4. AfterTreasury(v, y, to)' = AfterTreasury(v, x, to)
    BY <1>1, <1>2, <1>3 DEF AfterTreasury, Paid
<1>5. AfterHolder(v, y, to)' = AfterHolder(v, x, to)
    BY <1>2, <1>3, <1>4 DEF AfterHolder, Paid
<1>6. AfterReferrer(v, y, to)' = AfterReferrer(v, x, to)
    BY <1>2, <1>3, <1>5 DEF AfterReferrer, Paid
<1>7. PaidSoFar(v, y, to, due)' = PaidSoFar(v, x, to, due)
    BY <1>1, <1>4, <1>5, <1>6 DEF PaidSoFar
<1>8. /\ CanPay(balance, v, "B", to.treasury, TreasuryShare(v, y))'
            <=> CanPay(balance, v, "B", to.treasury, TreasuryShare(v, x))
      /\ CanPay(AfterTreasury(v, y, to), v, "B", to.user_b, NetOfFees(v, y))'
            <=> CanPay(AfterTreasury(v, x, to), v, "B", to.user_b, NetOfFees(v, x))
      /\ CanPay(AfterHolder(v, y, to), v, "B", to.referrer, ReferrerShare(v, y))'
            <=> CanPay(AfterHolder(v, x, to), v, "B", to.referrer, ReferrerShare(v, x))
    BY <1>1, <1>2, <1>3, <1>4, <1>5 DEF CanPay
<1>9. CouldPay(v, y, to, due)' <=> CouldPay(v, x, to, due)
    BY <1>3, <1>8 DEF CouldPay
<1>10. CanPayB(v, y, to)' <=> CanPayB(v, x, to)
    BY <1>3, <1>8 DEF CanPayB
<1> QED BY <1>2, <1>3, <1>6, <1>7, <1>9, <1>10 DEF y, to

\* How much of the fees has reached account y.
Arrived(p, v, x, due, y) ==
    (IF 1 \notin due /\ y = TreasuryOf[v] THEN TreasuryShare(v, x) ELSE 0)
      + (IF 2 \notin due /\ 3 \notin due /\ y = referrer[p] THEN ReferrerShare(v, x) ELSE 0)

\* PayingB of the next state, of which only the instruction's copies differ.
PayingNext(p, v, x, user_b, due) ==
    LET to == Payees(p, v, user_b) IN
    /\ tx'.v = v
    /\ InOrderB(v, x, due)
    /\ tx'.calls = CallsDueB(p, v, x, user_b, due)
    /\ to \in PayeesB
    /\ PaidSoFar(v, x, to, due) \in Balances
    /\ Shown' = PaidSoFar(v, x, to, due)
    /\ CouldPay(v, x, to, due)
    /\ tx'.acc.position = [position EXCEPT ![p].withdrawn_token_b_amount = @ + x]
    /\ tx'.acc.vault = vault /\ tx'.acc.vault_period = vault_period
    /\ tx'.acc.referrer = referrer
    /\ tx'.acc.nft_holder = nft_holder /\ tx'.acc.nft_mint = nft_mint
    /\ \A y \in TokenAccounts :
         tx'.acc.amount[y] > Held(y) => y \in {TreasuryOf[v], user_b, referrer[p]}
    /\ \A y \in {TreasuryOf[v], referrer[p]} \ {<<v, "B">>} :
         tx'.acc.amount[y] - Held(y) >= Arrived(p, v, x, due, y)

\* PayingB of the next state from the amounts in it.
LEMMA PayingKept ==
    ASSUME Unwritten, NEW v \in Vaults, NEW p \in Positions, NEW i, NEW j, NEW user_b, NEW due,
           NEW x, x = BeforeFees(p, v, i, j), ValidWithdrawal(p, v, i, j),
           PayingNext(p, v, x, user_b, due)
    PROVE  PayingB(p, v, i, j, user_b, due)'
<1> DEFINE y  == BeforeFees(p, v, i, j)
           to == Payees(p, v, user_b)
<1>1. /\ ValidWithdrawal(p, v, i, j)' /\ y' = x
      /\ PayeesB' = PayeesB
    BY WithdrawalKept
<1>2. /\ UNCHANGED <<vault, vault_period, position, nft_holder, balance, wallet, nft_mint,
                      referrer>>
      /\ Balances' = Balances /\ \A z : Held(z)' = Held(z)
    BY DEF Unwritten, Held, Balances
<1>3. /\ to' = to
      /\ TreasuryShare(v, y)' = TreasuryShare(v, x)
      /\ ReferrerShare(v, y)' = ReferrerShare(v, x)
      /\ NetOfFees(v, y)' = NetOfFees(v, x)
      /\ PaidSoFar(v, y, to, due)' = PaidSoFar(v, x, to, due)
      /\ CouldPay(v, y, to, due)' <=> CouldPay(v, x, to, due)
    BY PaymentsKept
<1> HIDE DEF y, to
<1>4. InOrderB(v, y, due)'
    BY <1>3 DEF PayingNext, InOrderB
<1>5. (tx.calls = CallsDueB(p, v, y, user_b, due))'
    BY <1>2, <1>3 DEF PayingNext, CallsDueB, InRow, SomeIf, Transfer
<1>6. /\ to' \in PayeesB' /\ CouldPay(v, y, to, due)'
      /\ PaidSoFar(v, y, to, due)' \in Balances'
      /\ Shown' = PaidSoFar(v, y, to, due)'
    BY <1>1, <1>2, <1>3 DEF PayingNext, to
<1>7. WithdrawalWritten(p, y)'
    BY <1>1, <1>2 DEF PayingNext, WithdrawalWritten
<1>8. Received({TreasuryOf[v], user_b, referrer[p]})'
    BY <1>2 DEF PayingNext, Received
<1>9. FeesArrived(p, v, y, due)'
    BY <1>2, <1>3 DEF PayingNext, FeesArrived, Arrived
<1>10. /\ tx'.v = v
       /\ tx'.acc.vault = vault' /\ tx'.acc.vault_period = vault_period'
       /\ tx'.acc.referrer = referrer' /\ tx'.acc.nft_holder = nft_holder'
       /\ tx'.acc.nft_mint = nft_mint'
    BY <1>2 DEF PayingNext
<1> QED BY <1>1, <1>4, <1>5, <1>6, <1>7, <1>8, <1>9, <1>10, Zenon DEF PayingB, y, to

\* A withdrawal, and a close, start with all of the B still to be paid.
LEMMA PayingStarts ==
    ASSUME Between, NEW v \in Vaults, NEW p \in Positions, NEW withdrawer,
           NEW i \in PeriodAccounts, NEW j \in PeriodAccounts, NEW user_b \in PayoutAccounts,
           NEW ix, NEW given, NEW then,
           StartedWithdrawing(ix, p, v, withdrawer, i, j, given, user_b, then)
    PROVE  /\ Shaped' /\ Copied' /\ Unwritten
           /\ tx'.signer = withdrawer /\ tx'.given = given /\ tx'.then = then
           /\ \E due \in SUBSET (1 .. 3) : PayingB(p, v, i, j, user_b, due)'
<1> DEFINE x     == BeforeFees(p, v, i, j)
           P     == [position EXCEPT ![p].withdrawn_token_b_amount = @ + x]
           acc   == [Accounts EXCEPT !.position[p].withdrawn_token_b_amount = @ + x]
           calls == WithdrawBCalls(p, v, x, user_b)
<1>1. /\ ValidWithdrawal(p, v, i, j)
      /\ Started(ix, withdrawer, v, given, acc, calls, then)
    BY DEF StartedWithdrawing
<1>2. /\ x \in Nat
      /\ TreasuryShare(v, x) \in Nat /\ ReferrerShare(v, x) \in Nat /\ NetOfFees(v, x) \in Nat
      /\ x = TreasuryShare(v, x) + NetOfFees(v, x) + ReferrerShare(v, x)
    BY <1>1, WithdrawalParts DEF Between
<1>3. P \in [Positions -> PositionType]
    BY <1>1, WithdrawnRecord DEF Between
<1>4. /\ acc = [vault |-> acc.vault, vault_period |-> acc.vault_period,
                position |-> acc.position, referrer |-> acc.referrer,
                nft_holder |-> acc.nft_holder, nft_mint |-> acc.nft_mint,
                amount |-> acc.amount]
      /\ acc.position = P /\ acc.amount = Accounts.amount
      /\ acc.vault = vault /\ acc.vault_period = vault_period
      /\ acc.referrer = referrer /\ acc.nft_holder = nft_holder /\ acc.nft_mint = nft_mint
    <2>1. Accounts.position = position
        BY DEF Accounts
    <2>2. acc = [Accounts EXCEPT !.position = P]
        BY <2>1
    <2> HIDE DEF acc, P
    <2> QED BY <2>2 DEF Accounts
<1>9. PICK due \in SUBSET (1 .. 3) :
          /\ 2 \in due
          /\ 1 \in due <=> TreasuryShare(v, x) > 0
          /\ 3 \in due <=> ReferrerShare(v, x) > 0
    <2> DEFINE all == {k \in 1 .. 3 : (k = 1 => TreasuryShare(v, x) > 0)
                                        /\ (k = 3 => ReferrerShare(v, x) > 0)}
    <2> HIDE DEF x
    <2>1. /\ all \in SUBSET (1 .. 3) /\ 2 \in all
          /\ 1 \in all <=> TreasuryShare(v, x) > 0
          /\ 3 \in all <=> ReferrerShare(v, x) > 0
        OBVIOUS
    <2> QED BY <2>1
<1>5. calls = CallsDueB(p, v, x, user_b, due)
    <2>1. \A y : /\ SomeIf(TreasuryShare(v, x) > 0, y) = SomeIf(1 \in due, y)
                 /\ SomeIf(ReferrerShare(v, x) > 0, y) = SomeIf(3 \in due, y)
                 /\ SomeIf(2 \in due, y) = <<y>>
        BY <1>9 DEF SomeIf
    <2> HIDE DEF x
    <2> QED BY <2>1 DEF WithdrawBCalls, CallsDueB, InRow, NetOfFees, TreasuryShare, ReferrerShare
<1> HIDE DEF acc, calls
<1>6. /\ Shaped' /\ Unwritten
      /\ tx'.v = v /\ tx'.given = given /\ tx'.then = then /\ tx'.signer = withdrawer
      /\ tx'.acc = acc /\ tx'.calls = calls
    BY <1>1, <1>4, StartedEffect
<1>7. /\ tx'.acc.amount \in [TokenAccounts -> Amount]
      /\ Shown' = balance /\ balance \in Balances
      /\ \A y \in TokenAccounts : tx'.acc.amount[y] = Held(y) /\ Held(y) \in Nat
    BY <1>4, <1>6, StartAmounts DEF Unwritten
<1>8. Copied'
    BY <1>3, <1>4, <1>6, <1>7 DEF Copied, Between, TypeInv, TypeOK
<1> DEFINE to == Payees(p, v, user_b)
<1>10. to \in PayeesB /\ TreasuryOf[v] \in TokenAccounts /\ referrer[p] \in TokenAccounts
    <2>1. {TreasuryOf[v], referrer[p]} \subseteq PayoutAccounts
        BY DEF StartedWithdrawing
    <2> QED BY <2>1, DestinationFacts DEF Payees, PayeesB
<1> HIDE DEF x, to, P
<1>11. (1 \notin due => TreasuryShare(v, x) = 0) /\ (3 \notin due => ReferrerShare(v, x) = 0)
    BY <1>2, <1>9
<1>12. PaidSoFar(v, x, to, due) = balance
    <2>1. CASE 1 \in due
        BY <2>1 DEF PaidSoFar
    <2>2. CASE 1 \notin due
        <3>1. AfterTreasury(v, x, to) = balance
            BY <1>7, <1>11, <2>2, NothingPaid DEF AfterTreasury, Tokens
        <3> QED BY <1>9, <2>2, <3>1 DEF PaidSoFar
    <2> QED BY <2>1, <2>2
<1>14. InOrderB(v, x, due) /\ CouldPay(v, x, to, due)
    BY <1>9, <1>11 DEF InOrderB, CouldPay
<1>13. PayingB(p, v, i, j, user_b, due)'
    <2>1. x = BeforeFees(p, v, i, j)
        BY DEF x
    <2>2. tx'.acc.position = [position EXCEPT ![p].withdrawn_token_b_amount = @ + x]
        BY <1>4, <1>6 DEF P
    <2>3. ASSUME NEW y \in {TreasuryOf[v], referrer[p]} \ {<<v, "B">>}
          PROVE  tx'.acc.amount[y] - Held(y) >= Arrived(p, v, x, due, y)
        <3>1. tx'.acc.amount[y] - Held(y) = 0
            BY <1>7, <1>10
        <3>2. Arrived(p, v, x, due, y) = 0
            BY <1>9, <1>11 DEF Arrived
        <3> QED BY <3>1, <3>2
    <2>4. \A y \in TokenAccounts :
             tx'.acc.amount[y] > Held(y) => y \in {TreasuryOf[v], user_b, referrer[p]}
        BY <1>7
    <2>5. /\ tx'.calls = CallsDueB(p, v, x, user_b, due)
          /\ tx'.acc.vault = vault /\ tx'.acc.vault_period = vault_period
          /\ tx'.acc.referrer = referrer
          /\ tx'.acc.nft_holder = nft_holder /\ tx'.acc.nft_mint = nft_mint
        BY <1>4, <1>5, <1>6
    <2>7. PayingNext(p, v, x, user_b, due)
        BY <1>6, <1>7, <1>10, <1>12, <1>14, <2>2, <2>3, <2>4, <2>5 DEF PayingNext, to
    <2>8. Unwritten /\ ValidWithdrawal(p, v, i, j)
        BY <1>1, <1>6
    <2> QED BY <2>1, <2>7, <2>8, PayingKept, Zenon
<1> QED BY <1>6, <1>8, <1>13, Zenon

\* The treasury, the holder and the referrer are paid one after the other.
LEMMA PayingContinues ==
    ASSUME Between, Shaped, Copied, CallStep, NEW v \in Vaults, NEW p \in Positions,
           NEW i \in PeriodAccounts, NEW j \in PeriodAccounts, NEW user_b \in PayoutAccounts,
           NEW due \in SUBSET (1 .. 3), PayingB(p, v, i, j, user_b, due)
    PROVE  /\ Copied'
           /\ \E left \in SUBSET (1 .. 3) : PayingB(p, v, i, j, user_b, left)'
<1> DEFINE x   == BeforeFees(p, v, i, j)
           to  == Payees(p, v, user_b)
           T   == TreasuryShare(v, x)
           N   == NetOfFees(v, x)
           R   == ReferrerShare(v, x)
<1>1. /\ tx.v = v /\ ValidWithdrawal(p, v, i, j)
      /\ InOrderB(v, x, due)
      /\ tx.calls = CallsDueB(p, v, x, user_b, due)
      /\ to \in PayeesB
      /\ PaidSoFar(v, x, to, due) \in Balances
      /\ Shown = PaidSoFar(v, x, to, due)
      /\ CouldPay(v, x, to, due)
      /\ WithdrawalWritten(p, x)
      /\ tx.acc.vault = vault /\ tx.acc.vault_period = vault_period
      /\ tx.acc.referrer = referrer
      /\ tx.acc.nft_holder = nft_holder /\ tx.acc.nft_mint = nft_mint
      /\ Received({TreasuryOf[v], user_b, referrer[p]})
      /\ FeesArrived(p, v, x, due)
    BY DEF PayingB
<1>2. /\ Unwritten /\ OwnCopiesKept /\ tx'.v = v
      /\ tx.calls # <<>> /\ tx'.calls = Tail(tx.calls)
    BY <1>1, CallReturns DEF Inside
<1>3. x = BeforeFees(p, v, i, j)
    OBVIOUS
<1> HIDE DEF x
<1>4. x \in Nat /\ T \in Nat /\ N \in Nat /\ R \in Nat /\ x = T + N + R
    BY <1>1, <1>3, WithdrawalParts DEF Between
<1>5. /\ to.treasury = TreasuryOf[v] /\ to.user_b = user_b /\ to.referrer = referrer[p]
      /\ {TreasuryOf[v], user_b, referrer[p]} \subseteq TokenAccounts
    <2>1. to = [treasury |-> TreasuryOf[v], user_b |-> user_b, referrer |-> referrer[p]]
        BY DEF Payees
    <2> HIDE DEF to
    <2> QED BY <1>1, <2>1, DestinationFacts DEF PayeesB
<1>6. /\ \A y \in TokenAccounts : tx.acc.amount[y] \in Nat /\ Held(y) \in Nat
      /\ balance \in Balances
    <2>1. \A y \in TokenAccounts : Held(y) \in Nat
        BY HeldFacts DEF Between, TypeInv
    <2>2. \A y \in TokenAccounts : tx.acc.amount[y] \in Nat
        BY CheckedAmounts DEF Copied
    <2>3. balance \in Balances
        BY DEF Between, TypeInv, TypeOK, Balances
    <2> QED BY <2>1, <2>2, <2>3
<1> HIDE DEF to
<1> DEFINE a == Transfer(<<v, "B">>, TreasuryOf[v], v, T)
           b == Transfer(<<v, "B">>, user_b, v, N)
           c == Transfer(<<v, "B">>, referrer[p], v, R)
<1>7. \A s : CallsDueB(p, v, x, user_b, s) = InRow(s, a, b, c)
    BY DEF CallsDueB
<1> HIDE DEF a, b, c
<1>8. /\ 1 \in due \/ 2 \in due \/ 3 \in due
      /\ 1 \in due => NextCall = a /\ tx'.calls = CallsDueB(p, v, x, user_b, due \ {1})
      /\ 1 \notin due /\ 2 \in due =>
            NextCall = b /\ tx'.calls = CallsDueB(p, v, x, user_b, due \ {2})
      /\ 1 \notin due /\ 2 \notin due /\ 3 \in due =>
            NextCall = c /\ tx'.calls = CallsDueB(p, v, x, user_b, due \ {3})
    <2>1. tx.calls = InRow(due, a, b, c)
        BY <1>1, <1>7
    <2>2. \A s : CallsDueB(p, v, x, user_b, due \ s) = InRow(due \ s, a, b, c)
        BY <1>7
    <2> DEFINE all == InRow(due, a, b, c)
    <2>3. /\ all = <<>> <=> 1 \notin due /\ 2 \notin due /\ 3 \notin due
          /\ 1 \in due => Head(all) = a /\ Tail(all) = InRow(due \ {1}, a, b, c)
          /\ 1 \notin due /\ 2 \in due =>
                Head(all) = b /\ Tail(all) = InRow(due \ {2}, a, b, c)
          /\ 1 \notin due /\ 2 \notin due /\ 3 \in due =>
                Head(all) = c /\ Tail(all) = InRow(due \ {3}, a, b, c)
        BY CallsInRow
    <2> HIDE DEF all
    <2>4. tx.calls = all
        BY <2>1 DEF all
    <2> QED BY <1>2, <2>2, <2>3, <2>4 DEF NextCall
<1> HIDE DEF T, N, R
<1>15. \A s, y : Arrived(p, v, x, s, y)
         = (IF 1 \notin s /\ y = TreasuryOf[v] THEN T ELSE 0)
           + (IF 2 \notin s /\ 3 \notin s /\ y = referrer[p] THEN R ELSE 0)
    BY DEF Arrived, T, R
\* One payment of n to `payee`, after which `left` are due.
<1>9. ASSUME NEW payee \in {TreasuryOf[v], user_b, referrer[p]}, NEW n \in Nat,
             NextCall = Transfer(<<v, "B">>, payee, v, n),
             NEW left, InOrderB(v, x, left),
             tx'.calls = CallsDueB(p, v, x, user_b, left),
             PaidSoFar(v, x, to, left) = Paid(PaidSoFar(v, x, to, due), v, "B", payee, n),
             CanPay(PaidSoFar(v, x, to, due), v, "B", payee, n) => CouldPay(v, x, to, left),
             \A y : Arrived(p, v, x, left, y)
                       <= Arrived(p, v, x, due, y) + (IF y = payee THEN n ELSE 0)
      PROVE  Copied' /\ PayingB(p, v, i, j, user_b, left)'
    <2> DEFINE b0 == PaidSoFar(v, x, to, due)
               b1 == Paid(b0, v, "B", payee, n)
    <2>8. b0 \in Balances /\ Shown = b0 /\ payee \in TokenAccounts /\ "B" \in Tokens
        BY <1>1, <1>5 DEF Tokens
    <2> HIDE DEF b0
    <2>1. /\ Copied'
          /\ CanPay(b0, v, "B", payee, n)
          /\ b1 \in Balances /\ Shown' = b1
          /\ \A y \in TokenAccounts :
                tx'.acc.amount[y] = tx.acc.amount[y] - (IF y = <<v, "B">> THEN n ELSE 0)
                                      + (IF y = payee THEN n ELSE 0)
          /\ UNCHANGED <<tx.acc.nft_holder, tx.acc.nft_mint>>
        BY <1>9, <2>8, PaymentEffect
    <2>2. /\ CouldPay(v, x, to, left)
          /\ PaidSoFar(v, x, to, left) \in Balances /\ Shown' = PaidSoFar(v, x, to, left)
        BY <1>9, <2>1 DEF b0
    <2>3. ASSUME NEW y \in TokenAccounts, tx'.acc.amount[y] > Held(y)
          PROVE  y \in {TreasuryOf[v], user_b, referrer[p]}
        <3>1. CASE y = payee
            BY <1>9, <3>1
        <3>2. CASE y # payee
            <4>1. tx'.acc.amount[y] <= tx.acc.amount[y]
                BY <1>6, <1>9, <2>1, <3>2
            <4>2. tx.acc.amount[y] > Held(y)
                BY <1>6, <2>1, <2>3, <3>2, <4>1
            <4> QED BY <1>1, <4>2 DEF Received
        <3> QED BY <3>1, <3>2
    <2>4. ASSUME NEW y \in {TreasuryOf[v], referrer[p]} \ {<<v, "B">>}
          PROVE  tx'.acc.amount[y] - Held(y) >= Arrived(p, v, x, left, y)
        <3>1. /\ y \in TokenAccounts
              /\ tx.acc.amount[y] - Held(y) >= Arrived(p, v, x, due, y)
            BY <1>1, <1>5, <2>4 DEF FeesArrived, Arrived
        <3>2. tx'.acc.amount[y] = tx.acc.amount[y] + (IF y = payee THEN n ELSE 0)
            BY <1>6, <1>9, <2>1, <2>4, <3>1
        <3>3. Arrived(p, v, x, left, y)
                <= Arrived(p, v, x, due, y) + (IF y = payee THEN n ELSE 0)
            BY <1>9
        <3>4. Arrived(p, v, x, left, y) \in Nat /\ Arrived(p, v, x, due, y) \in Nat
            BY <1>4, <1>15
        <3> QED BY <1>6, <1>9, <3>1, <3>2, <3>3, <3>4
    <2>6. /\ tx'.acc.position = [position EXCEPT ![p].withdrawn_token_b_amount = @ + x]
          /\ tx'.acc.vault = vault /\ tx'.acc.vault_period = vault_period
          /\ tx'.acc.referrer = referrer
          /\ tx'.acc.nft_holder = nft_holder /\ tx'.acc.nft_mint = nft_mint
        BY <1>1, <1>2, <2>1 DEF OwnCopiesKept, WithdrawalWritten
    <2>7. PayingB(p, v, i, j, user_b, left)'
        <3>1. PayingNext(p, v, x, user_b, left)
            BY <1>1, <1>2, <1>9, <2>2, <2>3, <2>4, <2>6 DEF PayingNext, to
        <3> QED BY <1>1, <1>2, <1>3, <3>1, PayingKept
    <2> QED BY <2>1, <2>7
<1>11. (1 \in due => 2 \in due /\ T > 0) /\ (2 \in due => (3 \in due <=> R > 0))
    BY <1>1 DEF InOrderB, T, R
<1>16. /\ AfterTreasury(v, x, to) = Paid(balance, v, "B", TreasuryOf[v], T)
       /\ AfterHolder(v, x, to) = Paid(AfterTreasury(v, x, to), v, "B", user_b, N)
       /\ AfterReferrer(v, x, to) = Paid(AfterHolder(v, x, to), v, "B", referrer[p], R)
    BY <1>5 DEF AfterTreasury, AfterHolder, AfterReferrer, T, N, R
<1>17. \A s : CouldPay(v, x, to, s) <=>
         /\ 1 \notin s /\ T > 0 => CanPay(balance, v, "B", TreasuryOf[v], T)
         /\ 2 \notin s => CanPay(AfterTreasury(v, x, to), v, "B", user_b, N)
         /\ 3 \notin s /\ R > 0 => CanPay(AfterHolder(v, x, to), v, "B", referrer[p], R)
    BY <1>5 DEF CouldPay, T, N, R
<1>12. CASE 1 \in due
    <2>1. InOrderB(v, x, due \ {1})
        BY <1>11 DEF InOrderB, T, R
    <2>2. /\ PaidSoFar(v, x, to, due) = balance
          /\ PaidSoFar(v, x, to, due \ {1}) = AfterTreasury(v, x, to)
        BY <1>11, <1>12 DEF PaidSoFar
    <2>3. CanPay(balance, v, "B", TreasuryOf[v], T) => CouldPay(v, x, to, due \ {1})
        BY <1>4, <1>11, <1>12, <1>17
    <2>4. \A y : Arrived(p, v, x, due \ {1}, y)
                   <= Arrived(p, v, x, due, y) + (IF y = TreasuryOf[v] THEN T ELSE 0)
        BY <1>4, <1>11, <1>12, <1>15
    <2>5. NextCall = Transfer(<<v, "B">>, TreasuryOf[v], v, T)
        BY <1>8, <1>12 DEF a
    <2>6. Copied' /\ PayingB(p, v, i, j, user_b, due \ {1})'
        BY <1>4, <1>8, <1>9, <1>12, <1>16, <2>1, <2>2, <2>3, <2>4, <2>5
    <2> QED BY <2>6
<1>13. CASE 1 \notin due /\ 2 \in due
    <2> DEFINE left == due \ {2}
    <2>1. InOrderB(v, x, left)
        BY <1>13 DEF InOrderB
    <2>7. PaidSoFar(v, x, to, due) = AfterTreasury(v, x, to)
        BY <1>13 DEF PaidSoFar
    <2>9. tx'.calls = CallsDueB(p, v, x, user_b, left) /\ left \in SUBSET (1 .. 3)
        BY <1>8, <1>13
    <2>5. NextCall = Transfer(<<v, "B">>, user_b, v, N)
        BY <1>8, <1>13 DEF b
    <2>8. AfterHolder(v, x, to) \in Balances
        <3> DEFINE b1 == AfterTreasury(v, x, to)
        <3>1. b1 \in Balances /\ Shown = b1
            BY <1>1, <2>7
        <3> HIDE DEF b1
        <3>2. N \in Nat /\ user_b \in TokenAccounts /\ "B" \in Tokens
            BY <1>4, <1>5 DEF Tokens
        <3>3. Paid(b1, v, "B", user_b, N) \in Balances
            BY <2>5, <3>1, <3>2, PaymentEffect
        <3> QED BY <1>16, <3>3 DEF b1
    <2>2. PaidSoFar(v, x, to, left) = AfterHolder(v, x, to)
        <3>1. CASE 3 \in due
            BY <1>13, <3>1 DEF PaidSoFar
        <3>2. CASE 3 \notin due
            <4>1. R = 0
                BY <1>4, <1>11, <1>13, <3>2
            <4>2. AfterReferrer(v, x, to) = AfterHolder(v, x, to)
                BY <1>16, <2>8, <4>1, NothingPaid DEF Tokens
            <4> QED BY <1>13, <3>2, <4>2 DEF PaidSoFar
        <3> QED BY <3>1, <3>2
    <2>3. CanPay(AfterTreasury(v, x, to), v, "B", user_b, N) => CouldPay(v, x, to, left)
        BY <1>1, <1>4, <1>11, <1>13, <1>17
    <2>4. \A y : Arrived(p, v, x, left, y)
                   <= Arrived(p, v, x, due, y) + (IF y = user_b THEN N ELSE 0)
        BY <1>4, <1>11, <1>13, <1>15
    <2>6. Copied' /\ PayingB(p, v, i, j, user_b, left)'
        <3> HIDE DEF left
        <3> QED BY <1>4, <1>9, <1>16, <2>1, <2>2, <2>3, <2>4, <2>5, <2>7, <2>9
    <2> QED BY <2>6, <2>9
<1>14. CASE 1 \notin due /\ 2 \notin due /\ 3 \in due
    <2> DEFINE left == due \ {3}
    <2>1. InOrderB(v, x, left)
        BY <1>14 DEF InOrderB
    <2>9. tx'.calls = CallsDueB(p, v, x, user_b, left) /\ left \in SUBSET (1 .. 3)
        BY <1>8, <1>14
    <2>2. /\ PaidSoFar(v, x, to, due) = AfterHolder(v, x, to)
          /\ PaidSoFar(v, x, to, left) = AfterReferrer(v, x, to)
        BY <1>14 DEF PaidSoFar
    <2>3. CanPay(AfterHolder(v, x, to), v, "B", referrer[p], R) => CouldPay(v, x, to, left)
        BY <1>1, <1>4, <1>14, <1>17
    <2>4. \A y : Arrived(p, v, x, left, y)
                   <= Arrived(p, v, x, due, y) + (IF y = referrer[p] THEN R ELSE 0)
        BY <1>4, <1>14, <1>15
    <2>5. NextCall = Transfer(<<v, "B">>, referrer[p], v, R)
        BY <1>8, <1>14 DEF c
    <2>6. Copied' /\ PayingB(p, v, i, j, user_b, left)'
        <3> HIDE DEF left
        <3> QED BY <1>4, <1>9, <1>16, <2>1, <2>2, <2>3, <2>4, <2>5, <2>9
    <2> QED BY <2>6, <2>9
<1> QED BY <1>8, <1>12, <1>13, <1>14

-----------------------------------------------------------------------------
(* Withdraw B *)

\* A withdrawal begins.
LEMMA WithdrawBStarts ==
    ASSUME Between, NEW p \in Positions, NEW v \in Vaults, NEW withdrawer \in Signers,
           NEW i \in PeriodAccounts, NEW j \in PeriodAccounts, NEW user_b \in PayoutAccounts,
           StartWithdrawB(p, v, withdrawer, i, j, user_b)
    PROVE  Underway' /\ Unwritten
<1>1. /\ StartedWithdrawing("withdraw_b", p, v, withdrawer, i, j, [mint |-> p], user_b, "exit")
      /\ NetOfFees(v, BeforeFees(p, v, i, j)) > 0
      /\ nft_holder[p] = withdrawer
    BY DEF StartWithdrawB
<1>2. /\ Shaped' /\ Copied' /\ Unwritten
      /\ tx'.signer = withdrawer /\ tx'.then = "exit"
      /\ \E due \in SUBSET (1 .. 3) : PayingB(p, v, i, j, user_b, due)'
    BY <1>1, PayingStarts
<1>3. /\ NetOfFees(v, BeforeFees(p, v, i, j))' > 0
      /\ nft_holder'[p] = tx'.signer
      /\ PeriodAccounts' = PeriodAccounts /\ PayoutAccounts' = PayoutAccounts
    BY <1>1, <1>2, WithdrawalKept, PaymentsKept DEF Unwritten
<1>4. WithdrawingB'
    BY <1>2, <1>3, Zenon DEF WithdrawingB
<1> QED BY <1>2, <1>4 DEF Underway

\* One of its payments is made.
LEMMA WithdrawBContinues ==
    ASSUME Between, Shaped, Copied, WithdrawingB, CallStep
    PROVE  Copied' /\ WithdrawingB'
<1>1. PICK p \in Positions, v \in Vaults, i \in PeriodAccounts, j \in PeriodAccounts,
           user_b \in PayoutAccounts, due \in SUBSET (1 .. 3) :
        /\ tx.then = "exit"
        /\ tx.signer \in Signers
        /\ NetOfFees(v, BeforeFees(p, v, i, j)) > 0
        /\ nft_holder[p] = tx.signer
        /\ PayingB(p, v, i, j, user_b, due)
    BY DEF WithdrawingB
<1>2. /\ Copied'
      /\ \E left \in SUBSET (1 .. 3) : PayingB(p, v, i, j, user_b, left)'
    BY <1>1, PayingContinues
<1>3. Unwritten /\ tx'.signer = tx.signer /\ tx'.then = tx.then
    BY CallReturns DEF Inside
<1>4. /\ NetOfFees(v, BeforeFees(p, v, i, j))' > 0
      /\ nft_holder'[p] = tx'.signer
      /\ PeriodAccounts' = PeriodAccounts /\ PayoutAccounts' = PayoutAccounts
    BY <1>1, <1>3, WithdrawalKept, PaymentsKept DEF Unwritten
<1> QED BY <1>1, <1>2, <1>3, <1>4, Zenon DEF WithdrawingB

\* When no call is left, everything has been paid, one payment after the other.
LEMMA PaidOut ==
    ASSUME NEW p \in Positions, NEW v \in Vaults, NEW i, NEW j, NEW user_b, NEW due,
           PayingB(p, v, i, j, user_b, due), tx.calls = <<>>,
           NEW x, x = BeforeFees(p, v, i, j)
    PROVE  LET to == Payees(p, v, user_b)
           IN  /\ to \in PayeesB /\ CanPayB(v, x, to)
               /\ AfterReferrer(v, x, to) \in Balances /\ Shown = AfterReferrer(v, x, to)
               /\ FeesArrived(p, v, x, {})
<1> DEFINE to == Payees(p, v, user_b)
<1>1. /\ InRow(due, Transfer(<<v, "B">>, TreasuryOf[v], v, TreasuryShare(v, x)),
                    Transfer(<<v, "B">>, user_b, v, NetOfFees(v, x)),
                    Transfer(<<v, "B">>, referrer[p], v, ReferrerShare(v, x))) = <<>>
      /\ to \in PayeesB /\ CouldPay(v, x, to, due)
      /\ PaidSoFar(v, x, to, due) \in Balances /\ Shown = PaidSoFar(v, x, to, due)
      /\ FeesArrived(p, v, x, due)
    BY DEF PayingB, CallsDueB
<1> HIDE DEF to
<1>2. 1 \notin due /\ 2 \notin due /\ 3 \notin due
    BY <1>1, CallsInRow
<1>3. PaidSoFar(v, x, to, due) = AfterReferrer(v, x, to) /\ CanPayB(v, x, to)
    BY <1>1, <1>2 DEF PaidSoFar, CouldPay, CanPayB
<1>4. FeesArrived(p, v, x, {})
    BY <1>1, <1>2 DEF FeesArrived
<1> QED BY <1>1, <1>3, <1>4 DEF to

\* A withdrawal that has come to its end is DripVault's.
LEMMA WithdrawBEnds ==
    ASSUME Between, Shaped, Copied, WithdrawingB, Exit
    PROVE  Next /\ InstructionInv'
<1>1. PICK p \in Positions, v \in Vaults, i \in PeriodAccounts, j \in PeriodAccounts,
           user_b \in PayoutAccounts, due \in SUBSET (1 .. 3) :
        /\ tx.signer \in Signers
        /\ NetOfFees(v, BeforeFees(p, v, i, j)) > 0
        /\ nft_holder[p] = tx.signer
        /\ PayingB(p, v, i, j, user_b, due)
    BY DEF WithdrawingB
<1> DEFINE x  == BeforeFees(p, v, i, j)
           to == Payees(p, v, user_b)
<1>2. /\ tx.calls = <<>>
      /\ vault' = tx.acc.vault /\ vault_period' = tx.acc.vault_period
      /\ position' = tx.acc.position /\ referrer' = tx.acc.referrer
      /\ nft_holder' = tx.acc.nft_holder /\ nft_mint' = tx.acc.nft_mint
      /\ UNCHANGED <<now, proto_config>>
    BY DEF Exit
<1>3. /\ ValidWithdrawal(p, v, i, j)
      /\ WithdrawalWritten(p, x)
      /\ tx.acc.vault = vault /\ tx.acc.vault_period = vault_period
      /\ tx.acc.referrer = referrer
      /\ tx.acc.nft_holder = nft_holder /\ tx.acc.nft_mint = nft_mint
    BY <1>1 DEF PayingB
<1>4. to \in PayeesB /\ CanPayB(v, x, to) /\ Shown = AfterReferrer(v, x, to)
    BY <1>1, <1>2, PaidOut
<1>7. balance' = AfterReferrer(v, x, to)
    BY <1>4, BalanceWritten
<1>8. WithdrawB(p, v, tx.signer, i, j)
    <2> HIDE DEF to
    <2>1. \E payees \in PayeesB :
             CanPayB(v, x, payees) /\ balance' = AfterReferrer(v, x, payees)
        BY <1>4, <1>7
    <2> QED BY <1>1, <1>2, <1>3, <2>1, Zenon DEF WithdrawB, WithdrawalWritten
<1>9. Next
    BY <1>1, <1>8, Zenon DEF Next, WithdrawBStep
<1>10. \A q \in Positions : position'[q].status = position[q].status
    BY <1>2, <1>3 DEF WithdrawalWritten, Between, TypeInv, TypeOK
<1> QED BY <1>2, <1>3, <1>9, <1>10, ExitBetween DEF Between, NftsMintedOnce

-----------------------------------------------------------------------------
(* Close position *)

\* Who closes what, for whom: nothing of it changes while the close is under way.
LEMMA CloseKept ==
    ASSUME Unwritten, NEW p, NEW v, NEW i, NEW j, NEW expiry, NEW user_a, NEW user_b,
           tx'.signer = tx.signer, tx'.given = tx.given,
           CloseGiven(p, v, i, j, expiry, user_a, user_b)
    PROVE  CloseGiven(p, v, i, j, expiry, user_a, user_b)'
<1>1. nft_holder' = nft_holder /\ vault_period' = vault_period /\ position' = position
      /\ Config(v)' = Config(v)
    BY DEF Unwritten, Config
<1>2. MayClose(p, v, tx.signer, user_a, user_b)'
    BY <1>1 DEF CloseGiven, MayClose, OwnerOf
<1>3. IsPeriod(expiry, v, Expiry(p))'
    BY <1>1 DEF CloseGiven, IsPeriod, Expiry
<1> QED BY <1>2, <1>3 DEF CloseGiven

\* A close begins with a withdrawal.
LEMMA CloseStarts ==
    ASSUME Between, NEW p \in Positions, NEW v \in Vaults, NEW withdrawer \in Signers,
           NEW i \in PeriodAccounts, NEW j \in PeriodAccounts, NEW expiry \in PeriodAccounts,
           NEW user_a \in PayoutAccounts, NEW user_b \in PayoutAccounts,
           StartClosePosition(p, v, withdrawer, i, j, expiry, user_a, user_b)
    PROVE  Underway' /\ Unwritten
<1> DEFINE given == [mint |-> p, i |-> i, j |-> j, expiry |-> expiry, user_a |-> user_a]
<1>1. /\ StartedWithdrawing("close_position", p, v, withdrawer, i, j, given, user_b, "refund")
      /\ MayClose(p, v, withdrawer, user_a, user_b)
      /\ IsPeriod(expiry, v, Expiry(p))
    BY DEF StartClosePosition
<1>2. /\ Shaped' /\ Copied' /\ Unwritten
      /\ tx'.signer = withdrawer /\ tx'.given = given /\ tx'.then = "refund"
      /\ \E due \in SUBSET (1 .. 3) : PayingB(p, v, i, j, user_b, due)'
    <2> HIDE DEF given
    <2> QED BY <1>1, PayingStarts
<1>3. PeriodAccounts' = PeriodAccounts /\ PayoutAccounts' = PayoutAccounts
    BY <1>2, WithdrawalKept
<1>4. CloseGiven(p, v, i, j, expiry, user_a, user_b)'
    <2>1. nft_holder' = nft_holder /\ vault_period' = vault_period /\ position' = position
          /\ Config(v)' = Config(v)
        BY <1>2 DEF Unwritten, Config
    <2>2. MayClose(p, v, withdrawer, user_a, user_b)'
        BY <1>1, <2>1 DEF MayClose, OwnerOf
    <2>3. IsPeriod(expiry, v, Expiry(p))'
        BY <1>1, <2>1 DEF IsPeriod, Expiry
    <2>4. MayClose(p, v, tx.signer, user_a, user_b)'
        BY <1>2, <2>2 DEF MayClose
    <2> QED BY <1>2, <2>3, <2>4 DEF CloseGiven
<1>5. ClosingB'
    BY <1>2, <1>3, <1>4, Zenon DEF ClosingB
<1> QED BY <1>2, <1>5 DEF Underway

\* One of its payments of B is made.
LEMMA CloseContinuesB ==
    ASSUME Between, Shaped, Copied, ClosingB, CallStep
    PROVE  Copied' /\ ClosingB'
<1>1. PICK p \in Positions, v \in Vaults, i \in PeriodAccounts, j \in PeriodAccounts,
           expiry \in PeriodAccounts, user_a \in PayoutAccounts, user_b \in PayoutAccounts,
           due \in SUBSET (1 .. 3) :
        /\ tx.then = "refund"
        /\ CloseGiven(p, v, i, j, expiry, user_a, user_b)
        /\ PayingB(p, v, i, j, user_b, due)
    BY DEF ClosingB
<1>2. /\ Copied'
      /\ \E left \in SUBSET (1 .. 3) : PayingB(p, v, i, j, user_b, left)'
    BY <1>1, PayingContinues
<1>3. Unwritten /\ tx'.signer = tx.signer /\ tx'.given = tx.given /\ tx'.then = tx.then
    BY CallReturns DEF Inside
<1>4. /\ CloseGiven(p, v, i, j, expiry, user_a, user_b)'
      /\ PeriodAccounts' = PeriodAccounts /\ PayoutAccounts' = PayoutAccounts
    BY <1>1, <1>3, CloseKept, WithdrawalKept
<1> QED BY <1>1, <1>2, <1>3, <1>4, Zenon DEF ClosingB

\* What the second half of a close does to the instruction's copies.
RefundMade(p, v, i, j, expiry, user_a, n, periodic) ==
    /\ Shaped' /\ Inside /\ tx'.then = "close"
    /\ UNCHANGED <<tx.acc.position, tx.acc.referrer, tx.acc.nft_holder,
                   tx.acc.nft_mint, tx.acc.amount>>
    /\ WithdrawTokenADefined(i.period_id, j.period_id, n, periodic)
    /\ tx'.calls = CloseCalls(p, v, tx.signer, nft_holder[p],
                       WithdrawTokenA(i.period_id, j.period_id, n, periodic), user_a)
    /\ IF j.period_id < expiry.period_id
       THEN /\ periodic <= tx.acc.vault[v].drip_amount
            /\ periodic <= tx.acc.vault_period[expiry.vault][expiry.period_id].dar
            /\ tx'.acc.vault = [tx.acc.vault EXCEPT ![v].drip_amount = @ - periodic]
            /\ tx'.acc.vault_period = [tx.acc.vault_period EXCEPT
                 ![expiry.vault][expiry.period_id].dar = @ - periodic]
       ELSE UNCHANGED <<tx.acc.vault, tx.acc.vault_period>>

\* RefundA writes the reduction, if the position is still dripping, and lists the
\* close's remaining calls.
LEMMA RefundEffect ==
    ASSUME Shaped, RefundA, NEW p, NEW v, NEW i, NEW j, NEW expiry, NEW user_a, NEW n, NEW periodic,
           tx.v = v,
           tx.given = [mint |-> p, i |-> i, j |-> j, expiry |-> expiry, user_a |-> user_a],
           n = tx.acc.position[p].number_of_swaps,
           periodic = tx.acc.position[p].periodic_drip_amount
    PROVE  RefundMade(p, v, i, j, expiry, user_a, n, periodic)
<1> DEFINE dripping == j.period_id < expiry.period_id
           V  == IF dripping THEN [tx.acc.vault EXCEPT ![v].drip_amount = @ - periodic]
                             ELSE tx.acc.vault
           VP == IF dripping THEN [tx.acc.vault_period EXCEPT
                                     ![expiry.vault][expiry.period_id].dar = @ - periodic]
                             ELSE tx.acc.vault_period
           acc == [tx.acc EXCEPT !.vault = V, !.vault_period = VP]
           calls == CloseCalls(p, v, tx.signer, nft_holder[p],
                               WithdrawTokenA(i.period_id, j.period_id, n, periodic), user_a)
<1>1. /\ tx.given.mint = p /\ tx.given.i = i /\ tx.given.j = j
      /\ tx.given.expiry = expiry /\ tx.given.user_a = user_a
    OBVIOUS
<1>2. /\ WithdrawTokenADefined(i.period_id, j.period_id, n, periodic)
      /\ dripping => /\ periodic <= tx.acc.vault[v].drip_amount
                     /\ periodic <= tx.acc.vault_period[expiry.vault][expiry.period_id].dar
      /\ Unwritten
    BY <1>1 DEF RefundA, Unwritten, vars
<1> DEFINE reduced == IF dripping
                      THEN [tx.acc EXCEPT
                             !.vault[v].drip_amount = @ - periodic,
                             !.vault_period[expiry.vault][expiry.period_id].dar = @ - periodic]
                      ELSE tx.acc
<1>3. tx' = [tx EXCEPT !.acc = reduced, !.calls = calls, !.then = "close"]
    BY <1>1 DEF RefundA
<1>4. acc = reduced
    <2>1. CASE dripping
        BY <2>1
    <2>2. CASE ~ dripping
        BY <2>2 DEF Shaped
    <2> QED BY <2>1, <2>2
<1> HIDE DEF calls, reduced, acc
<1>5. tx' = [tx EXCEPT !.acc = acc, !.calls = calls, !.then = "close"]
    BY <1>3, <1>4
<1> HIDE DEF V, VP
<1>6. /\ tx'.acc = acc /\ tx'.calls = calls /\ tx'.then = "close"
      /\ UNCHANGED <<tx.ix, tx.signer, tx.v, tx.given>>
      /\ tx' = [ix |-> tx'.ix, signer |-> tx'.signer, v |-> tx'.v, given |-> tx'.given,
                acc |-> tx'.acc, calls |-> tx'.calls, then |-> tx'.then]
    <2> HIDE DEF acc
    <2> QED BY <1>5 DEF Shaped
<1>7. acc = [vault |-> V, vault_period |-> VP, position |-> tx.acc.position,
             referrer |-> tx.acc.referrer, nft_holder |-> tx.acc.nft_holder,
             nft_mint |-> tx.acc.nft_mint, amount |-> tx.acc.amount]
    <2> DEFINE old == tx.acc
    <2>1. old = [vault |-> old.vault, vault_period |-> old.vault_period,
                 position |-> old.position, referrer |-> old.referrer,
                 nft_holder |-> old.nft_holder, nft_mint |-> old.nft_mint,
                 amount |-> old.amount]
        BY DEF Shaped
    <2>2. acc = [old EXCEPT !.vault = V, !.vault_period = VP]
        BY DEF acc
    <2> HIDE DEF old
    <2>3. /\ acc = [vault |-> acc.vault, vault_period |-> acc.vault_period,
                    position |-> acc.position, referrer |-> acc.referrer,
                    nft_holder |-> acc.nft_holder, nft_mint |-> acc.nft_mint,
                    amount |-> acc.amount]
          /\ acc.vault = V /\ acc.vault_period = VP
          /\ acc.position = old.position /\ acc.referrer = old.referrer
          /\ acc.nft_holder = old.nft_holder /\ acc.nft_mint = old.nft_mint
          /\ acc.amount = old.amount
        BY <2>1, <2>2
    <2> QED BY <2>3 DEF old
<1> HIDE DEF acc
<1>8. Shaped'
    BY <1>6, <1>7 DEF Shaped
<1>9. /\ UNCHANGED <<tx.acc.position, tx.acc.referrer, tx.acc.nft_holder,
                     tx.acc.nft_mint, tx.acc.amount>>
      /\ tx'.acc.vault = V /\ tx'.acc.vault_period = VP
    BY <1>6, <1>7
<1>10. IF dripping
       THEN /\ periodic <= tx.acc.vault[v].drip_amount
            /\ periodic <= tx.acc.vault_period[expiry.vault][expiry.period_id].dar
            /\ tx'.acc.vault = [tx.acc.vault EXCEPT ![v].drip_amount = @ - periodic]
            /\ tx'.acc.vault_period = [tx.acc.vault_period EXCEPT
                 ![expiry.vault][expiry.period_id].dar = @ - periodic]
       ELSE UNCHANGED <<tx.acc.vault, tx.acc.vault_period>>
    BY <1>2, <1>9 DEF V, VP
<1> QED BY <1>2, <1>6, <1>8, <1>9, <1>10, Zenon DEF RefundMade, Inside, calls

\* The amounts of RefundingA in the next state.
RefundingNext(p, v, x, refund, user_a, user_b, due) ==
    LET to   == Payees(p, v, user_b)
        paid == AfterReferrer(v, x, to)
    IN
    /\ tx'.v = v /\ tx'.signer = tx.signer
    /\ InOrderA(p, refund, due)
    /\ tx'.calls = CallsDueA(p, v, refund, user_a, due)
    /\ to \in PayeesB
    /\ CanPayB(v, x, to)
    /\ paid \in Balances
    /\ 1 \notin due /\ refund > 0 => CanPay(paid, v, "A", user_a, refund)
    /\ Shown' = IF 1 \in due THEN paid ELSE Paid(paid, v, "A", user_a, refund)
    /\ tx'.acc.referrer = referrer
    /\ \A y \in TokenAccounts :
         tx'.acc.amount[y] > Held(y) => y \in {TreasuryOf[v], user_b, referrer[p], user_a}
    /\ \A y \in {TreasuryOf[v], referrer[p]} \ {<<v, "B">>} :
         tx'.acc.amount[y] - Held(y) >= Arrived(p, v, x, {}, y)

\* RefundingA of the next state, of which only the instruction's copies differ.
LEMMA RefundingKept ==
    ASSUME Unwritten, NEW v \in Vaults, NEW p \in Positions, NEW i, NEW j, NEW expiry,
           NEW user_a, NEW user_b, NEW due,
           NEW x, x = BeforeFees(p, v, i, j), ValidWithdrawal(p, v, i, j),
           NEW refund, refund = RefundOf(p, i, j),
           WithdrawTokenADefined(i.period_id, j.period_id,
               position[p].number_of_swaps, position[p].periodic_drip_amount),
           RefundingNext(p, v, x, refund, user_a, user_b, due),
           ReductionWritten(p, v, j, expiry)', NftWritten(p, due)'
    PROVE  RefundingA(p, v, i, j, expiry, user_a, user_b, due)'
<1> DEFINE y    == BeforeFees(p, v, i, j)
           to   == Payees(p, v, user_b)
           paid == AfterReferrer(v, x, to)
<1>1. /\ ValidWithdrawal(p, v, i, j)' /\ y' = x /\ PayeesB' = PayeesB
    BY WithdrawalKept
<1>2. /\ UNCHANGED <<vault, vault_period, position, nft_holder, balance, wallet, nft_mint,
                      referrer>>
      /\ Balances' = Balances /\ \A z : Held(z)' = Held(z)
    BY DEF Unwritten, Held, Balances
<1>3. /\ to' = to
      /\ TreasuryShare(v, y)' = TreasuryShare(v, x)
      /\ ReferrerShare(v, y)' = ReferrerShare(v, x)
      /\ AfterReferrer(v, y, to)' = paid
      /\ CanPayB(v, y, to)' <=> CanPayB(v, x, to)
    BY PaymentsKept
<1>11. RefundOf(p, i, j)' = refund
    BY <1>2 DEF RefundOf
<1> HIDE DEF y, to
<1>4. InOrderA(p, RefundOf(p, i, j), due)'
    BY <1>2, <1>11 DEF RefundingNext, InOrderA
<1>5. (tx.calls = CallsDueA(p, v, RefundOf(p, i, j), user_a, due))'
    BY <1>2, <1>11 DEF RefundingNext, CallsDueA, InRow, SomeIf, Transfer, NftCall
<1>6. /\ to' \in PayeesB' /\ CanPayB(v, y, to)' /\ AfterReferrer(v, y, to)' \in Balances'
    BY <1>1, <1>2, <1>3 DEF RefundingNext, to
<1>7. Received({TreasuryOf[v], user_b, referrer[p], user_a})'
    BY <1>2 DEF RefundingNext, Received
<1>8. FeesArrived(p, v, y, {})'
    BY <1>2, <1>3 DEF RefundingNext, FeesArrived, Arrived
<1>9. (WithdrawTokenADefined(i.period_id, j.period_id,
               position[p].number_of_swaps, position[p].periodic_drip_amount))'
    BY <1>2
<1>10. tx'.v = v /\ tx'.acc.referrer = referrer'
    BY <1>2 DEF RefundingNext
<1>12. /\ CanPay(AfterReferrer(v, y, to), v, "A", user_a, RefundOf(p, i, j))'
             <=> CanPay(paid, v, "A", user_a, refund)
       /\ Paid(AfterReferrer(v, y, to), v, "A", user_a, RefundOf(p, i, j))'
             = Paid(paid, v, "A", user_a, refund)
    <2> HIDE DEF paid
    <2> QED BY <1>3, <1>11 DEF CanPay, Paid
<1>13. /\ (1 \notin due /\ RefundOf(p, i, j) > 0
             => CanPay(AfterReferrer(v, y, to), v, "A", user_a, RefundOf(p, i, j)))'
       /\ (Shown = IF 1 \in due THEN AfterReferrer(v, y, to)
                   ELSE Paid(AfterReferrer(v, y, to), v, "A", user_a, RefundOf(p, i, j)))'
    BY <1>3, <1>11, <1>12 DEF RefundingNext, to
<1> QED BY <1>1, <1>4, <1>5, <1>6, <1>7, <1>8, <1>9, <1>10, <1>13, Zenon DEF RefundingA, y, to

\* The refund of A begins when the B has been paid out.
LEMMA RefundStarts ==
    ASSUME Between, Shaped, Copied, ClosingB, RefundA
    PROVE  Underway' /\ Unwritten
<1>1. PICK p \in Positions, v \in Vaults, i \in PeriodAccounts, j \in PeriodAccounts,
           expiry \in PeriodAccounts, user_a \in PayoutAccounts, user_b \in PayoutAccounts,
           paid \in SUBSET (1 .. 3) :
        /\ CloseGiven(p, v, i, j, expiry, user_a, user_b)
        /\ PayingB(p, v, i, j, user_b, paid)
    BY DEF ClosingB
<1> DEFINE x        == BeforeFees(p, v, i, j)
           refund   == RefundOf(p, i, j)
           n        == position[p].number_of_swaps
           periodic == position[p].periodic_drip_amount
           to       == Payees(p, v, user_b)
           c        == AfterReferrer(v, x, to)
<1>2. /\ tx.v = v /\ ValidWithdrawal(p, v, i, j)
      /\ WithdrawalWritten(p, x)
      /\ tx.acc.vault = vault /\ tx.acc.vault_period = vault_period
      /\ tx.acc.referrer = referrer
      /\ tx.acc.nft_holder = nft_holder /\ tx.acc.nft_mint = nft_mint
      /\ Received({TreasuryOf[v], user_b, referrer[p]})
    BY <1>1 DEF PayingB
<1>4. /\ to \in PayeesB /\ CanPayB(v, x, to)
      /\ c \in Balances /\ Shown = c
      /\ FeesArrived(p, v, x, {})
    <2>1. tx.calls = <<>>
        BY Zenon DEF RefundA
    <2>2. x = BeforeFees(p, v, i, j)
        OBVIOUS
    <2> HIDE DEF x
    <2> QED BY <1>1, <2>1, <2>2, PaidOut
<1>5. /\ tx.acc.position[p].number_of_swaps = n
      /\ tx.acc.position[p].periodic_drip_amount = periodic
    BY <1>2 DEF WithdrawalWritten, Between, TypeInv, TypeOK
<1>6. tx.given = [mint |-> p, i |-> i, j |-> j, expiry |-> expiry, user_a |-> user_a]
    BY <1>1 DEF CloseGiven
<1>7. /\ Shaped' /\ Inside /\ tx'.then = "close"
      /\ UNCHANGED <<tx.acc.position, tx.acc.referrer, tx.acc.nft_holder,
                     tx.acc.nft_mint, tx.acc.amount>>
      /\ WithdrawTokenADefined(i.period_id, j.period_id, n, periodic)
      /\ tx'.calls = CloseCalls(p, v, tx.signer, nft_holder[p],
                         WithdrawTokenA(i.period_id, j.period_id, n, periodic), user_a)
      /\ IF j.period_id < expiry.period_id
         THEN /\ periodic <= tx.acc.vault[v].drip_amount
              /\ periodic <= tx.acc.vault_period[expiry.vault][expiry.period_id].dar
              /\ tx'.acc.vault = [tx.acc.vault EXCEPT ![v].drip_amount = @ - periodic]
              /\ tx'.acc.vault_period = [tx.acc.vault_period EXCEPT
                   ![expiry.vault][expiry.period_id].dar = @ - periodic]
         ELSE UNCHANGED <<tx.acc.vault, tx.acc.vault_period>>
    <2> HIDE DEF n, periodic
    <2>1. tx.v = v /\ n = tx.acc.position[p].number_of_swaps
          /\ periodic = tx.acc.position[p].periodic_drip_amount
        BY <1>2, <1>5
    <2>2. RefundMade(p, v, i, j, expiry, user_a, n, periodic)
        BY <1>6, <2>1, RefundEffect
    <2> QED BY <2>2 DEF RefundMade
<1>8. /\ Unwritten /\ tx'.signer = tx.signer /\ tx'.v = v /\ tx'.given = tx.given
    BY <1>2, <1>7 DEF Inside
<1>9. refund \in Nat
    BY <1>7, RefundType, CheckedAmounts DEF RefundOf, Between, TypeInv
<1>10. ReductionWritten(p, v, j, expiry)'
    <2>1. vault' = vault /\ vault_period' = vault_period /\ position' = position
        BY <1>8 DEF Unwritten
    <2> QED BY <1>2, <1>7, <2>1 DEF ReductionWritten, Data
<1>11. Copied'
    <2>1. /\ tx'.acc.vault \in [Vaults -> VaultType]
          /\ tx'.acc.vault_period \in [Vaults -> [PeriodIds -> PeriodType]]
        <3>1. CASE j.period_id < expiry.period_id
            <4>1. periodic <= vault[v].drip_amount /\ periodic <= Data(expiry).dar
                BY <1>2, <1>7, <3>1 DEF Data
            <4>2. /\ tx'.acc.vault = [vault EXCEPT ![v].drip_amount = @ - periodic]
                  /\ tx'.acc.vault_period =
                       [vault_period EXCEPT ![expiry.vault][expiry.period_id].dar = @ - periodic]
                BY <1>2, <1>7, <3>1
            <4>3. /\ [vault EXCEPT ![v].drip_amount = @ - periodic] \in [Vaults -> VaultType]
                  /\ [vault_period EXCEPT ![expiry.vault][expiry.period_id].dar = @ - periodic]
                        \in [Vaults -> [PeriodIds -> PeriodType]]
                BY <4>1, ReducedRecords DEF Between, TypeInv
            <4> QED BY <4>2, <4>3
        <3>2. CASE ~ j.period_id < expiry.period_id
            BY <1>2, <1>7, <3>2 DEF Copied
        <3> QED BY <3>1, <3>2
    <2> QED BY <1>7, <2>1 DEF Copied
<1>12. PICK due \in SUBSET (1 .. 3) :
          /\ 1 \in due <=> refund > 0
          /\ 2 \in due <=> nft_holder[p] = tx.signer
          /\ 3 \in due <=> nft_holder[p] = tx.signer
    <2> DEFINE all == {k \in 1 .. 3 : (k = 1 => refund > 0)
                                        /\ (k # 1 => nft_holder[p] = tx.signer)}
    <2> HIDE DEF refund
    <2>1. /\ all \in SUBSET (1 .. 3)
          /\ 1 \in all <=> refund > 0
          /\ 2 \in all <=> nft_holder[p] = tx.signer
          /\ 3 \in all <=> nft_holder[p] = tx.signer
        OBVIOUS
    <2> QED BY <2>1
<1>13. tx'.calls = CallsDueA(p, v, refund, user_a, due)
    <2>1. \A y : /\ SomeIf(refund > 0, y) = SomeIf(1 \in due, y)
                 /\ SomeIf(nft_holder[p] = tx.signer, y) = SomeIf(2 \in due, y)
                 /\ SomeIf(nft_holder[p] = tx.signer, y) = SomeIf(3 \in due, y)
        BY <1>12 DEF SomeIf
    <2>2. tx'.calls = CloseCalls(p, v, tx.signer, nft_holder[p], refund, user_a)
        BY <1>7 DEF RefundOf
    <2> HIDE DEF refund
    <2> QED BY <2>1, <2>2 DEF CloseCalls, CallsDueA, InRow
<1>14. InOrderA(p, refund, due)
    BY <1>12 DEF InOrderA
<1>15. NftWritten(p, due)'
    <2>1. nft_holder' = nft_holder /\ nft_mint' = nft_mint
        BY <1>8 DEF Unwritten
    <2> QED BY <1>2, <1>7, <1>8, <1>12, <2>1 DEF NftWritten
<1>16. RefundingNext(p, v, x, refund, user_a, user_b, due)
    <2>1. Shown' = Shown
        BY <1>7 DEF Shown, InVaults
    <2>2. Shown' = IF 1 \in due THEN c ELSE Paid(c, v, "A", user_a, refund)
        <3> HIDE DEF refund, c
        <3>1. CASE 1 \in due
            BY <1>4, <2>1, <3>1
        <3>2. CASE 1 \notin due
            <4>1. refund = 0
                BY <1>9, <1>12, <3>2
            <4>2. Paid(c, v, "A", user_a, refund) = c
                BY <1>4, <4>1, NothingPaid DEF Tokens
            <4> QED BY <1>4, <2>1, <3>2, <4>2
        <3> QED BY <3>1, <3>2
    <2>3. \A y \in TokenAccounts :
             tx'.acc.amount[y] > Held(y) => y \in {TreasuryOf[v], user_b, referrer[p], user_a}
        BY <1>2, <1>7 DEF Received
    <2>4. \A y \in {TreasuryOf[v], referrer[p]} \ {<<v, "B">>} :
             tx'.acc.amount[y] - Held(y) >= Arrived(p, v, x, {}, y)
        <3> HIDE DEF x
        <3> QED BY <1>4, <1>7 DEF FeesArrived, Arrived
    <2>5. tx'.acc.referrer = referrer
        BY <1>2, <1>7
    <2>6. ~ (1 \notin due /\ refund > 0)
        BY <1>12
    <2> HIDE DEF x, refund, to
    <2> QED BY <1>4, <1>8, <1>13, <1>14, <2>2, <2>3, <2>4, <2>5, <2>6 DEF RefundingNext, to
<1>17. RefundingA(p, v, i, j, expiry, user_a, user_b, due)'
    <2>1. x = BeforeFees(p, v, i, j) /\ refund = RefundOf(p, i, j)
        OBVIOUS
    <2>2. WithdrawTokenADefined(i.period_id, j.period_id,
               position[p].number_of_swaps, position[p].periodic_drip_amount)
        BY <1>7
    <2> HIDE DEF x, refund
    <2> QED BY <1>2, <1>8, <1>10, <1>15, <1>16, <2>1, <2>2, RefundingKept
<1>18. /\ CloseGiven(p, v, i, j, expiry, user_a, user_b)'
       /\ PeriodAccounts' = PeriodAccounts /\ PayoutAccounts' = PayoutAccounts
    BY <1>1, <1>8, CloseKept, WithdrawalKept
<1>19. WithdrawalWritten(p, BeforeFees(p, v, i, j))'
    <2>1. BeforeFees(p, v, i, j)' = x /\ position' = position
        BY <1>8, WithdrawalKept DEF Unwritten
    <2> QED BY <1>2, <1>7, <2>1 DEF WithdrawalWritten
<1>20. ClosingA'
    BY <1>7, <1>17, <1>18, <1>19, Zenon DEF ClosingA
<1> QED BY <1>7, <1>8, <1>11, <1>20 DEF Underway

\* The refund is paid, the NFT is burned, its account is closed.
LEMMA RefundContinues ==
    ASSUME Between, Shaped, Copied, ClosingA, CallStep
    PROVE  Copied' /\ ClosingA'
<1>1. tx.calls # <<>> /\ Shaped' /\ Unwritten /\ OwnCopiesKept
      /\ tx'.signer = tx.signer /\ tx'.v = tx.v /\ tx'.given = tx.given
      /\ tx'.then = tx.then /\ tx'.calls = Tail(tx.calls)
    BY CallReturns DEF Inside
<1>2. PICK p \in Positions, v \in Vaults, i \in PeriodAccounts, j \in PeriodAccounts,
           expiry \in PeriodAccounts, user_a \in PayoutAccounts, user_b \in PayoutAccounts,
           due \in SUBSET (1 .. 3) :
        /\ CloseGiven(p, v, i, j, expiry, user_a, user_b)
        /\ RefundingA(p, v, i, j, expiry, user_a, user_b, due)
        /\ tx.then = "close" /\ WithdrawalWritten(p, BeforeFees(p, v, i, j))
    BY <1>1 DEF ClosingA
<1> DEFINE x      == BeforeFees(p, v, i, j)
           refund == RefundOf(p, i, j)
           to     == Payees(p, v, user_b)
           paid   == AfterReferrer(v, x, to)
<1>3. /\ tx.v = v /\ ValidWithdrawal(p, v, i, j)
      /\ WithdrawTokenADefined(i.period_id, j.period_id,
             position[p].number_of_swaps, position[p].periodic_drip_amount)
      /\ InOrderA(p, refund, due)
      /\ tx.calls = CallsDueA(p, v, refund, user_a, due)
      /\ to \in PayeesB /\ CanPayB(v, x, to) /\ paid \in Balances
      /\ 1 \notin due /\ refund > 0 => CanPay(paid, v, "A", user_a, refund)
      /\ Shown = IF 1 \in due THEN paid ELSE Paid(paid, v, "A", user_a, refund)
      /\ ReductionWritten(p, v, j, expiry)
      /\ tx.acc.referrer = referrer
      /\ NftWritten(p, due)
      /\ Received({TreasuryOf[v], user_b, referrer[p], user_a})
      /\ FeesArrived(p, v, x, {})
    BY <1>2 DEF RefundingA
<1>4. x = BeforeFees(p, v, i, j) /\ refund = RefundOf(p, i, j)
    OBVIOUS
<1>5. refund \in Nat
    BY <1>3, RefundType, CheckedAmounts DEF RefundOf, Between, TypeInv
<1>6. x \in Nat /\ TreasuryShare(v, x) \in Nat /\ ReferrerShare(v, x) \in Nat
    BY <1>3, WithdrawalParts DEF Between
<1> HIDE DEF x, refund, to, paid
<1>7. /\ \A y \in TokenAccounts : tx.acc.amount[y] \in Nat /\ Held(y) \in Nat
      /\ {TreasuryOf[v], referrer[p], user_a} \subseteq TokenAccounts
      /\ <<v, "A">> \notin {TreasuryOf[v], referrer[p]}
    <2>1. \A y \in TokenAccounts : Held(y) \in Nat
        BY HeldFacts DEF Between, TypeInv
    <2>2. \A y \in TokenAccounts : tx.acc.amount[y] \in Nat
        BY CheckedAmounts DEF Copied
    <2>3. TreasuryOf[v] \in AccountsOfB /\ referrer[p] \in AccountsOfB
        BY <1>3, DestinationFacts DEF Between, ValidWithdrawal
    <2> QED BY <2>1, <2>2, <2>3, DestinationFacts
<1> DEFINE a == Transfer(<<v, "A">>, user_a, v, refund)
           b == NftCall("burn", p, tx.signer)
           c == NftCall("close", p, tx.signer)
<1>8. \A s : CallsDueA(p, v, refund, user_a, s) = InRow(s, a, b, c)
    BY DEF CallsDueA
<1> HIDE DEF a, b, c
<1>9. /\ 1 \in due \/ 2 \in due \/ 3 \in due
      /\ 1 \in due => NextCall = a /\ tx'.calls = CallsDueA(p, v, refund, user_a, due \ {1})
      /\ 1 \notin due /\ 2 \in due =>
            NextCall = b /\ tx'.calls = CallsDueA(p, v, refund, user_a, due \ {2})
      /\ 1 \notin due /\ 2 \notin due /\ 3 \in due =>
            NextCall = c /\ tx'.calls = CallsDueA(p, v, refund, user_a, due \ {3})
    <2>1. tx.calls = InRow(due, a, b, c)
        BY <1>3, <1>8
    <2>2. \A s : CallsDueA(p, v, refund, user_a, due \ s) = InRow(due \ s, a, b, c)
        BY <1>8
    <2> DEFINE all == InRow(due, a, b, c)
    <2>3. /\ all = <<>> <=> 1 \notin due /\ 2 \notin due /\ 3 \notin due
          /\ 1 \in due => Head(all) = a /\ Tail(all) = InRow(due \ {1}, a, b, c)
          /\ 1 \notin due /\ 2 \in due =>
                Head(all) = b /\ Tail(all) = InRow(due \ {2}, a, b, c)
          /\ 1 \notin due /\ 2 \notin due /\ 3 \in due =>
                Head(all) = c /\ Tail(all) = InRow(due \ {3}, a, b, c)
        BY CallsInRow
    <2> HIDE DEF all
    <2>4. tx.calls = all
        BY <2>1 DEF all
    <2> QED BY <1>1, <2>2, <2>3, <2>4 DEF NextCall
\* After a call that moves n of token A to user_a, `left` are due.
<1>10. ASSUME NEW left \in SUBSET (1 .. 3), Copied', NEW n \in Nat,
              1 \notin left /\ refund > 0 => CanPay(paid, v, "A", user_a, refund),
              Shown' = IF 1 \in left THEN paid ELSE Paid(paid, v, "A", user_a, refund),
              InOrderA(p, refund, left),
              tx'.calls = CallsDueA(p, v, refund, user_a, left),
              NftWritten(p, left)',
              \A y \in TokenAccounts :
                 tx'.acc.amount[y] = tx.acc.amount[y] - (IF y = <<v, "A">> THEN n ELSE 0)
                                       + (IF y = user_a THEN n ELSE 0)
       PROVE  Copied' /\ ClosingA'
    <2>1. ASSUME NEW y \in TokenAccounts, tx'.acc.amount[y] > Held(y)
          PROVE  y \in {TreasuryOf[v], user_b, referrer[p], user_a}
        <3>1. CASE y = user_a
            BY <3>1
        <3>2. CASE y # user_a
            <4>1. tx'.acc.amount[y] <= tx.acc.amount[y]
                BY <1>7, <1>10, <3>2
            <4>2. tx.acc.amount[y] > Held(y)
                BY <1>7, <1>10, <2>1, <3>2, <4>1
            <4> QED BY <1>3, <4>2 DEF Received
        <3> QED BY <3>1, <3>2
    <2>2. ASSUME NEW y \in {TreasuryOf[v], referrer[p]} \ {<<v, "B">>}
          PROVE  tx'.acc.amount[y] - Held(y) >= Arrived(p, v, x, {}, y)
        <3>1. /\ y \in TokenAccounts /\ y # <<v, "A">>
              /\ tx.acc.amount[y] - Held(y) >= Arrived(p, v, x, {}, y)
            BY <1>3, <1>7, <2>2 DEF FeesArrived, Arrived
        <3>2. tx'.acc.amount[y] >= tx.acc.amount[y] /\ tx'.acc.amount[y] \in Nat
            BY <1>7, <1>10, <3>1
        <3>3. Arrived(p, v, x, {}, y) \in Nat
            BY <1>6 DEF Arrived
        <3> QED BY <1>7, <3>1, <3>2, <3>3
    <2>4. tx'.acc.referrer = referrer
        BY <1>1, <1>3 DEF OwnCopiesKept
    <2>5. RefundingNext(p, v, x, refund, user_a, user_b, left)
        BY <1>1, <1>3, <1>10, <2>1, <2>2, <2>4 DEF RefundingNext, to, paid
    <2>6. ReductionWritten(p, v, j, expiry)'
        <3>1. vault' = vault /\ vault_period' = vault_period /\ position' = position
            BY <1>1 DEF Unwritten
        <3>2. tx'.acc.vault = tx.acc.vault /\ tx'.acc.vault_period = tx.acc.vault_period
            BY <1>1 DEF OwnCopiesKept
        <3> QED BY <1>3, <3>1, <3>2 DEF ReductionWritten, Data
    <2>7. RefundingA(p, v, i, j, expiry, user_a, user_b, left)'
        BY <1>1, <1>3, <1>4, <1>10, <2>5, <2>6, RefundingKept
    <2>8. /\ CloseGiven(p, v, i, j, expiry, user_a, user_b)'
          /\ PeriodAccounts' = PeriodAccounts /\ PayoutAccounts' = PayoutAccounts
        BY <1>1, <1>2, CloseKept, WithdrawalKept
    <2>9. WithdrawalWritten(p, BeforeFees(p, v, i, j))'
        <3>1. BeforeFees(p, v, i, j)' = BeforeFees(p, v, i, j) /\ position' = position
            BY <1>1, WithdrawalKept DEF Unwritten
        <3> QED BY <1>1, <1>2, <3>1 DEF WithdrawalWritten, OwnCopiesKept
    <2> QED BY <1>1, <1>2, <1>10, <2>7, <2>8, <2>9, Zenon DEF ClosingA
<1>11. /\ 1 \in due => refund > 0 /\ (2 \in due <=> nft_holder[p] = tx.signer)
       /\ 2 \in due => 3 \in due
       /\ 3 \in due => nft_holder[p] = tx.signer
    BY <1>3 DEF InOrderA
<1>12. nft_holder' = nft_holder /\ nft_mint' = nft_mint /\ tx'.signer = tx.signer
    BY <1>1 DEF Unwritten
<1>13. CASE 1 \in due
    <2>1. NextCall = Transfer(<<v, "A">>, user_a, v, refund) /\ "A" \in Tokens
          /\ Shown = paid /\ user_a \in TokenAccounts
        BY <1>3, <1>7, <1>9, <1>13 DEF a, Tokens
    <2>2. /\ Copied'
          /\ CanPay(paid, v, "A", user_a, refund)
          /\ Shown' = Paid(paid, v, "A", user_a, refund)
          /\ \A y \in TokenAccounts :
                tx'.acc.amount[y] = tx.acc.amount[y] - (IF y = <<v, "A">> THEN refund ELSE 0)
                                      + (IF y = user_a THEN refund ELSE 0)
          /\ UNCHANGED <<tx.acc.nft_holder, tx.acc.nft_mint>>
        BY <1>3, <1>5, <2>1, PaymentEffect
    <2>3. NftWritten(p, due \ {1})'
        BY <1>3, <1>12, <2>2 DEF NftWritten
    <2>4. InOrderA(p, refund, due \ {1})
        BY <1>11 DEF InOrderA
    <2> DEFINE left == due \ {1}
    <2>5. left \in SUBSET (1 .. 3) /\ 1 \notin left
        OBVIOUS
    <2> QED BY <1>5, <1>9, <1>10, <1>13, <2>2, <2>3, <2>4, <2>5
<1>14. CASE 1 \notin due
    <2>1. ASSUME UNCHANGED tx.acc.amount
          PROVE  /\ Copied' /\ Shown' = Paid(paid, v, "A", user_a, refund)
                 /\ \A y \in TokenAccounts :
                      tx'.acc.amount[y] = tx.acc.amount[y] - (IF y = <<v, "A">> THEN 0 ELSE 0)
                                            + (IF y = user_a THEN 0 ELSE 0)
        <3>1. Copied'
            BY <1>1, <2>1 DEF Copied, OwnCopiesKept
        <3>2. Shown' = Shown
            BY <2>1 DEF Shown, InVaults
        <3>3. Shown = Paid(paid, v, "A", user_a, refund)
            BY <1>3, <1>14
        <3> QED BY <1>7, <2>1, <3>1, <3>2, <3>3
    <2>4. refund > 0 => CanPay(paid, v, "A", user_a, refund)
        BY <1>3, <1>14
    <2>2. CASE 2 \in due
        <3>1. NextCall.kind = "burn" /\ NextCall.mint = p
            BY <1>9, <1>14, <2>2 DEF b, NftCall
        <3>2. /\ tx'.acc.amount = tx.acc.amount
              /\ tx'.acc.nft_mint = [tx.acc.nft_mint EXCEPT ![p].supply = @ - 1]
              /\ tx'.acc.nft_holder = [tx.acc.nft_holder EXCEPT ![p] = NoHolder]
            BY <3>1, BurnEffect
        <3>3. tx.acc.nft_holder = nft_holder /\ tx.acc.nft_mint = nft_mint
            BY <1>3, <2>2 DEF NftWritten
        <3>4. NftWritten(p, due \ {2})'
            BY <1>11, <1>12, <2>2, <3>2, <3>3 DEF NftWritten
        <3>5. InOrderA(p, refund, due \ {2})
            BY <1>11, <1>14 DEF InOrderA
        <3> DEFINE left == due \ {2}
        <3>6. left \in SUBSET (1 .. 3) /\ 1 \notin left
            BY <1>14
        <3> QED BY <1>9, <1>10, <1>14, <2>1, <2>2, <2>4, <3>2, <3>4, <3>5, <3>6
    <2>3. CASE 2 \notin due
        <3>1. NextCall.kind = "close"
            BY <1>9, <1>14, <2>3 DEF c, NftCall
        <3>2. UNCHANGED <<tx.acc.amount, tx.acc.nft_holder, tx.acc.nft_mint>>
            BY <3>1, QuietCallEffect
        <3>3. NftWritten(p, due \ {3})'
            BY <1>3, <1>12, <3>2 DEF NftWritten
        <3>4. InOrderA(p, refund, due \ {3})
            BY <1>14, <2>3 DEF InOrderA
        <3>5. due \ {3} \in SUBSET (1 .. 3) /\ 1 \notin due \ {3}
            BY <1>14
        <3> QED BY <1>9, <1>10, <1>14, <2>1, <2>3, <2>4, <3>2, <3>3, <3>4, <3>5
    <2> QED BY <2>2, <2>3
<1> QED BY <1>13, <1>14

\* The position's account is dropped when the A has been refunded.
LEMMA Drops ==
    ASSUME Between, Shaped, Copied, ClosingA, DropPosition
    PROVE  Underway' /\ Unwritten
<1>1. Unwritten /\ tx.then = "close" /\ tx.calls = <<>>
    BY DEF DropPosition, Unwritten, vars
<1>2. PICK p \in Positions, v \in Vaults, i \in PeriodAccounts, j \in PeriodAccounts,
           expiry \in PeriodAccounts, user_a \in PayoutAccounts, user_b \in PayoutAccounts,
           due \in SUBSET (1 .. 3) :
        /\ CloseGiven(p, v, i, j, expiry, user_a, user_b)
        /\ RefundingA(p, v, i, j, expiry, user_a, user_b, due)
        /\ WithdrawalWritten(p, BeforeFees(p, v, i, j))
    BY <1>1 DEF ClosingA
<1> DEFINE x == BeforeFees(p, v, i, j)
           P == [position EXCEPT ![p].withdrawn_token_b_amount = @ + x, ![p].status = "closed"]
           acc == [tx.acc EXCEPT !.position = P]
<1>3. tx.given.mint = p
    BY <1>2 DEF CloseGiven
<1>4. tx.acc.position = [position EXCEPT ![p].withdrawn_token_b_amount = @ + x]
    BY <1>2 DEF WithdrawalWritten
<1>5. tx' = [tx EXCEPT !.acc = acc, !.then = "exit"]
    <2>1. tx' = [tx EXCEPT !.acc.position[p].status = "closed", !.then = "exit"]
        BY <1>3 DEF DropPosition
    <2> DEFINE Q == [position EXCEPT ![p].withdrawn_token_b_amount = @ + x]
    <2>2. P = [Q EXCEPT ![p].status = "closed"]
        OBVIOUS
    <2> HIDE DEF P, Q
    <2>3. tx.acc.position = Q
        BY <1>4 DEF Q
    <2> QED BY <2>1, <2>2, <2>3
<1>6. /\ tx'.acc = acc /\ tx'.then = "exit"
      /\ UNCHANGED <<tx.ix, tx.signer, tx.v, tx.given, tx.calls>>
      /\ tx' = [ix |-> tx'.ix, signer |-> tx'.signer, v |-> tx'.v, given |-> tx'.given,
                acc |-> tx'.acc, calls |-> tx'.calls, then |-> tx'.then]
    <2> HIDE DEF acc
    <2> QED BY <1>5 DEF Shaped
<1>7. /\ acc = [vault |-> acc.vault, vault_period |-> acc.vault_period,
                position |-> acc.position, referrer |-> acc.referrer,
                nft_holder |-> acc.nft_holder, nft_mint |-> acc.nft_mint,
                amount |-> acc.amount]
      /\ acc.position = P
      /\ acc.vault = tx.acc.vault /\ acc.vault_period = tx.acc.vault_period
      /\ acc.referrer = tx.acc.referrer /\ acc.nft_holder = tx.acc.nft_holder
      /\ acc.nft_mint = tx.acc.nft_mint /\ acc.amount = tx.acc.amount
    <2> DEFINE old == tx.acc
    <2>1. old = [vault |-> old.vault, vault_period |-> old.vault_period,
                 position |-> old.position, referrer |-> old.referrer,
                 nft_holder |-> old.nft_holder, nft_mint |-> old.nft_mint,
                 amount |-> old.amount]
        BY DEF Shaped
    <2>2. acc = [old EXCEPT !.position = P]
        OBVIOUS
    <2> HIDE DEF old, P, acc
    <2>3. /\ acc = [vault |-> acc.vault, vault_period |-> acc.vault_period,
                    position |-> acc.position, referrer |-> acc.referrer,
                    nft_holder |-> acc.nft_holder, nft_mint |-> acc.nft_mint,
                    amount |-> acc.amount]
          /\ acc.position = P
          /\ acc.vault = old.vault /\ acc.vault_period = old.vault_period
          /\ acc.referrer = old.referrer /\ acc.nft_holder = old.nft_holder
          /\ acc.nft_mint = old.nft_mint /\ acc.amount = old.amount
        BY <2>1, <2>2
    <2> QED BY <2>3 DEF old
<1>8. P \in [Positions -> PositionType]
    <2>1. ValidWithdrawal(p, v, i, j)
        BY <1>2 DEF RefundingA
    <2> QED BY <2>1, WithdrawnRecord DEF Between
<1> HIDE DEF acc
<1>9. Shaped' /\ Copied'
    <2> HIDE DEF P
    <2>1. Shaped'
        BY <1>6, <1>7 DEF Shaped
    <2>2. Copied'
        BY <1>6, <1>7, <1>8 DEF Copied
    <2> QED BY <2>1, <2>2
<1>10. /\ UNCHANGED <<tx.acc.vault, tx.acc.vault_period, tx.acc.referrer, tx.acc.nft_holder,
                      tx.acc.nft_mint, tx.acc.amount>>
       /\ tx'.acc.position = P
    BY <1>6, <1>7
<1>11. RefundingA(p, v, i, j, expiry, user_a, user_b, due)'
    <2> DEFINE refund == RefundOf(p, i, j)
               to     == Payees(p, v, user_b)
               paid   == AfterReferrer(v, x, to)
    <2>1. UNCHANGED <<vault, vault_period, position, nft_holder, balance, wallet, nft_mint,
                      referrer>>
        BY <1>1 DEF Unwritten
    <2>2. /\ ValidWithdrawal(p, v, i, j)
          /\ WithdrawTokenADefined(i.period_id, j.period_id,
                 position[p].number_of_swaps, position[p].periodic_drip_amount)
          /\ tx.v = v
          /\ InOrderA(p, refund, due) /\ tx.calls = CallsDueA(p, v, refund, user_a, due)
          /\ to \in PayeesB /\ CanPayB(v, x, to) /\ paid \in Balances
          /\ 1 \notin due /\ refund > 0 => CanPay(paid, v, "A", user_a, refund)
          /\ Shown = IF 1 \in due THEN paid ELSE Paid(paid, v, "A", user_a, refund)
          /\ tx.acc.referrer = referrer
          /\ Received({TreasuryOf[v], user_b, referrer[p], user_a})
          /\ FeesArrived(p, v, x, {})
        BY <1>2 DEF RefundingA
    <2>3. ReductionWritten(p, v, j, expiry) /\ NftWritten(p, due)
        BY <1>2 DEF RefundingA
    <2>4. ReductionWritten(p, v, j, expiry)' /\ NftWritten(p, due)'
        BY <1>6, <1>10, <2>1, <2>3 DEF ReductionWritten, Data, NftWritten
    <2>5. x = BeforeFees(p, v, i, j) /\ refund = RefundOf(p, i, j)
        OBVIOUS
    <2> HIDE DEF x, refund, to
    <2>6. Shown' = Shown
        BY <1>10 DEF Shown, InVaults
    <2>7. \A y \in TokenAccounts :
             tx'.acc.amount[y] > Held(y) => y \in {TreasuryOf[v], user_b, referrer[p], user_a}
        BY <1>10, <2>2 DEF Received
    <2>8. \A y \in {TreasuryOf[v], referrer[p]} \ {<<v, "B">>} :
             tx'.acc.amount[y] - Held(y) >= Arrived(p, v, x, {}, y)
        BY <1>10, <2>2 DEF FeesArrived, Arrived
    <2>9. RefundingNext(p, v, x, refund, user_a, user_b, due)
        BY <1>6, <1>10, <2>2, <2>6, <2>7, <2>8 DEF RefundingNext, to
    <2> QED BY <1>1, <2>2, <2>4, <2>5, <2>9, RefundingKept
<1>12. /\ CloseGiven(p, v, i, j, expiry, user_a, user_b)'
       /\ PeriodAccounts' = PeriodAccounts /\ PayoutAccounts' = PayoutAccounts
    BY <1>1, <1>2, <1>6, CloseKept, WithdrawalKept
<1>13. /\ tx'.calls = <<>> /\ tx'.then = "exit"
       /\ ClosedWritten(p, BeforeFees(p, v, i, j))'
    <2>1. BeforeFees(p, v, i, j)' = x /\ position' = position
        BY <1>1, WithdrawalKept DEF Unwritten
    <2> QED BY <1>1, <1>6, <1>10, <2>1 DEF ClosedWritten
<1>14. ClosingA'
    <2> HIDE DEF x, P
    <2> QED BY <1>11, <1>12, <1>13 DEF ClosingA
<1> QED BY <1>1, <1>9, <1>14 DEF Underway

\* A close that has come to its end is DripVault's.
LEMMA CloseEnds ==
    ASSUME Between, Shaped, Copied, ClosingA, Exit
    PROVE  Next /\ InstructionInv'
<1>1. /\ tx.calls = <<>> /\ tx.then = "exit"
      /\ vault' = tx.acc.vault /\ vault_period' = tx.acc.vault_period
      /\ position' = tx.acc.position /\ referrer' = tx.acc.referrer
      /\ nft_holder' = tx.acc.nft_holder /\ nft_mint' = tx.acc.nft_mint
      /\ UNCHANGED <<now, proto_config>>
    BY DEF Exit
<1>2. PICK p \in Positions, v \in Vaults, i \in PeriodAccounts, j \in PeriodAccounts,
           expiry \in PeriodAccounts, user_a \in PayoutAccounts, user_b \in PayoutAccounts,
           due \in SUBSET (1 .. 3) :
        /\ CloseGiven(p, v, i, j, expiry, user_a, user_b)
        /\ RefundingA(p, v, i, j, expiry, user_a, user_b, due)
        /\ tx.acc.position = [position EXCEPT
              ![p].withdrawn_token_b_amount = @ + BeforeFees(p, v, i, j),
              ![p].status = "closed"]
    BY <1>1 DEF ClosingA, ClosedWritten
<1> DEFINE x      == BeforeFees(p, v, i, j)
           refund == RefundOf(p, i, j)
           to     == Payees(p, v, user_b)
           paid   == AfterReferrer(v, x, to)
<1>3. /\ ValidWithdrawal(p, v, i, j)
      /\ WithdrawTokenADefined(i.period_id, j.period_id,
             position[p].number_of_swaps, position[p].periodic_drip_amount)
      /\ tx.calls = CallsDueA(p, v, refund, user_a, due)
      /\ to \in PayeesB /\ CanPayB(v, x, to) /\ paid \in Balances
      /\ 1 \notin due /\ refund > 0 => CanPay(paid, v, "A", user_a, refund)
      /\ Shown = IF 1 \in due THEN paid ELSE Paid(paid, v, "A", user_a, refund)
      /\ ReductionWritten(p, v, j, expiry)
      /\ tx.acc.referrer = referrer
      /\ NftWritten(p, due)
    BY <1>2 DEF RefundingA
<1>4. 1 \notin due /\ 2 \notin due
    <2>1. InRow(due, Transfer(<<v, "A">>, user_a, v, refund),
                     NftCall("burn", p, tx.signer), NftCall("close", p, tx.signer)) = <<>>
        BY <1>1, <1>3 DEF CallsDueA
    <2> QED BY <2>1, CallsInRow
<1>5. refund \in Nat
    BY <1>3, RefundType, CheckedAmounts DEF RefundOf, Between, TypeInv
<1>6. PaysOut(v, x, refund, to, user_a)
    <2> HIDE DEF x, refund, to, paid
    <2>1. balance' = Paid(paid, v, "A", user_a, refund)
        BY <1>3, <1>4, BalanceWritten
    <2>2. CASE refund > 0
        BY <1>3, <1>4, <2>1, <2>2 DEF PaysOut, paid
    <2>3. CASE ~ refund > 0
        <3>1. refund = 0
            BY <1>5, <2>3
        <3>2. balance' = paid
            BY <1>3, <2>1, <3>1, NothingPaid DEF Tokens
        <3> QED BY <1>3, <2>3, <3>2 DEF PaysOut, paid
    <2> QED BY <2>2, <2>3
<1>7. tx.signer # nft_holder[p] => {to.user_b, user_a} \cap VaultAccounts = {}
    <2>1. to.user_b = user_b
        BY DEF Payees
    <2>2. nft_holder[p] \in Signers
        BY <1>3 DEF Between, NftsMintedOnce, ValidWithdrawal, TypeInv, TypeOK
    <2>3. ASSUME tx.signer # nft_holder[p], NEW y \in {user_b, user_a}
          PROVE  y \notin VaultAccounts
        <3>1. OwnerOf(y) = nft_holder[p]
            BY <1>2, <2>3 DEF CloseGiven, MayClose
        <3>2. ASSUME NEW w \in Vaults, NEW u \in Tokens, y = <<w, u>>
              PROVE  FALSE
            <4>1. OwnerOf(y) = w
                BY <3>2, TokenAccountFacts
            <4> QED BY <2>2, <3>1, <4>1, AddressAssumption
        <3> QED BY <3>2 DEF VaultAccounts
    <2> HIDE DEF to
    <2> QED BY <2>1, <2>3
<1>9. /\ tx.signer \in Signers
      /\ tx.signer \in {nft_holder[p], Config(v).admin}
      /\ IsPeriod(expiry, v, Expiry(p))
    BY <1>2 DEF CloseGiven, MayClose
<1>10. ReduceDrip(p, v, j, expiry)
    BY <1>1, <1>3 DEF ReductionWritten, ReduceDrip
<1>11. nft_holder' =
          [nft_holder EXCEPT ![p] = IF tx.signer = @ THEN NoHolder ELSE @]
    <2>1. nft_holder \in [Positions -> Signers \cup {NoHolder}]
        BY DEF Between, TypeInv, TypeOK
    <2> QED BY <1>1, <1>3, <1>4, <2>1 DEF NftWritten
<1>12. ClosePosition(p, v, tx.signer, i, j, expiry)
    <2>1. refund = WithdrawTokenA(i.period_id, j.period_id,
                      position[p].number_of_swaps, position[p].periodic_drip_amount)
        BY DEF RefundOf
    <2>2. position' = [position EXCEPT ![p].withdrawn_token_b_amount = @ + x,
                                       ![p].status = "closed"]
        BY <1>1, <1>2
    <2>3. user_a \in PayoutAccounts
        OBVIOUS
    <2> HIDE DEF refund, to
    <2>4. \E payees \in PayeesB, a \in PayoutAccounts :
             /\ tx.signer # nft_holder[p] => {payees.user_b, a} \cap VaultAccounts = {}
             /\ PaysOut(v, x, refund, payees, a)
        BY <1>3, <1>6, <1>7, <2>3, Zenon
    <2> QED BY <1>1, <1>3, <1>9, <1>10, <1>11, <2>1, <2>2, <2>4, Zenon DEF ClosePosition
<1>13. Next
    BY <1>9, <1>12, Zenon DEF Next, ClosePositionStep
<1>14. /\ position'[p].status = "closed"
       /\ \A q \in Positions : q # p => position'[q] = position[q]
    BY <1>1, <1>2 DEF Between, TypeInv, TypeOK
<1>15. /\ tx.acc.nft_mint \in [Positions -> NftMintType]
       /\ NftsMintedOnce'
    <2>1. /\ nft_mint[p] = [supply |-> 1, authority |-> NoAuthority]
          /\ nft_holder[p] # NoHolder
        BY <1>3 DEF Between, NftsMintedOnce, ValidWithdrawal
    <2>2. CASE nft_holder[p] = tx.signer
        <3>1. nft_mint' = [nft_mint EXCEPT ![p].supply = @ - 1]
              /\ nft_holder' = [nft_holder EXCEPT ![p] = NoHolder]
            BY <1>1, <1>3, <1>4, <2>2 DEF NftWritten
        <3>2. nft_mint' = [nft_mint EXCEPT ![p] = [supply |-> 0, authority |-> NoAuthority]]
            <4> DEFINE minted == [supply |-> 1, authority |-> NoAuthority]
                       burned == [supply |-> 0, authority |-> NoAuthority]
            <4>1. [minted EXCEPT !.supply = @ - 1] = burned
                OBVIOUS
            <4>2. [nft_mint EXCEPT ![p].supply = @ - 1]
                    = [nft_mint EXCEPT ![p] = [nft_mint[p] EXCEPT !.supply = @ - 1]]
                OBVIOUS
            <4> HIDE DEF minted, burned
            <4>3. nft_mint[p] = minted
                BY <2>1 DEF minted
            <4>4. nft_mint' = [nft_mint EXCEPT ![p] = burned]
                BY <3>1, <4>1, <4>2, <4>3
            <4> QED BY <4>4 DEF burned
        <3>3. [supply |-> 0, authority |-> NoAuthority] \in NftMintType
            BY DEF NftMintType
        <3>4. /\ nft_mint'[p] = [supply |-> 0, authority |-> NoAuthority]
              /\ \A q \in Positions : q # p =>
                    nft_mint'[q] = nft_mint[q] /\ nft_holder'[q] = nft_holder[q]
            BY <3>1, <3>2 DEF Between, TypeInv, TypeOK
        <3> QED BY <1>1, <1>14, <3>2, <3>3, <3>4 DEF Between, NftsMintedOnce
    <2>3. CASE nft_holder[p] # tx.signer
        <3>1. nft_mint' = nft_mint /\ nft_holder' = nft_holder
            BY <1>1, <1>3, <2>3 DEF NftWritten
        <3> QED BY <1>1, <1>14, <2>1, <3>1 DEF Between, NftsMintedOnce
    <2> QED BY <2>2, <2>3
<1>16. /\ tx.acc.referrer \in [Positions -> Destinations \cup {NoHolder}]
       /\ \A q \in Positions : position'[q].status = "open" => referrer'[q] \in AccountsOfB
    BY <1>1, <1>3, <1>14 DEF Between
<1> QED BY <1>13, <1>15, <1>16, ExitBetween

-----------------------------------------------------------------------------
(* The admin's withdrawals *)

\* What the admin empties and where to, while it is under way.
EmptyingNow(v, token, destination) ==
    /\ vault[v].exists
    /\ tx.signer \in Signers
    /\ tx.signer = Config(v).admin
    /\ token \in AdminTakes
    /\ vault[v].drip_amount = 0
    /\ balance[v][token] > 0

\* The admin's withdrawal starts on the accounts as they are.
LEMMA EmptyingStarts ==
    ASSUME Between, NEW ix, NEW v \in Vaults, NEW admin \in Signers, NEW token \in Tokens,
           NEW destination \in PayoutAccounts, StartedEmptying(ix, v, admin, token, destination)
    PROVE  Underway' /\ Unwritten
<1> DEFINE given == [token |-> token]
           calls == <<Transfer(<<v, token>>, destination, v, balance[v][token])>>
           acc   == Accounts
<1>1. Started(ix, admin, v, given, acc, calls, "exit")
    BY DEF StartedEmptying
<1>2. acc = [vault |-> acc.vault, vault_period |-> acc.vault_period,
             position |-> acc.position, referrer |-> acc.referrer,
             nft_holder |-> acc.nft_holder, nft_mint |-> acc.nft_mint,
             amount |-> acc.amount]
      /\ acc.vault = vault /\ acc.vault_period = vault_period /\ acc.position = position
      /\ acc.referrer = referrer /\ acc.nft_holder = nft_holder /\ acc.nft_mint = nft_mint
      /\ acc.amount = Accounts.amount
    BY DEF Accounts
<1> HIDE DEF given, calls, acc
<1>3. /\ Shaped' /\ Unwritten
      /\ tx'.signer = admin /\ tx'.v = v /\ tx'.then = "exit"
      /\ tx'.acc = acc /\ tx'.calls = calls
    BY <1>1, <1>2, StartedEffect
<1>4. /\ tx'.acc.amount \in [TokenAccounts -> Amount]
      /\ Shown' = balance'
    BY <1>2, <1>3, StartAmounts
<1>5. Copied'
    BY <1>2, <1>3, <1>4 DEF Copied, Between, TypeInv, TypeOK
<1>6. EmptyingAt(v, token, destination)'
    <2>1. tx'.calls = <<Transfer(<<v, token>>, destination, v, balance'[v][token])>>
        BY <1>3 DEF calls, Unwritten
    <2> QED BY <1>4, <2>1 DEF EmptyingAt
<1>10. PayoutAccounts' = PayoutAccounts
    BY <1>3 DEF PayoutAccounts, Unwritten
<1>7. EmptyingNow(v, token, destination)'
    BY <1>3 DEF StartedEmptying, EmptyingNow, Unwritten, Config
<1>8. /\ tx'.acc.vault = vault' /\ tx'.acc.vault_period = vault_period'
      /\ tx'.acc.position = position' /\ tx'.acc.referrer = referrer'
      /\ tx'.acc.nft_holder = nft_holder' /\ tx'.acc.nft_mint = nft_mint'
    BY <1>2, <1>3 DEF Unwritten
<1>9. Emptying'
    BY <1>3, <1>6, <1>7, <1>8, <1>10 DEF Emptying, EmptyingNow
<1> QED BY <1>3, <1>5, <1>9 DEF Underway

\* Its one transfer empties the token account.
LEMMA EmptyingContinues ==
    ASSUME Between, Shaped, Copied, Emptying, CallStep
    PROVE  Copied' /\ Emptying'
<1>1. tx.calls # <<>> /\ Shaped' /\ Unwritten /\ OwnCopiesKept
      /\ tx'.signer = tx.signer /\ tx'.v = tx.v
      /\ tx'.then = tx.then /\ tx'.calls = Tail(tx.calls)
    BY CallReturns DEF Inside
<1>2. PICK v \in Vaults, token \in Tokens, destination \in PayoutAccounts :
        /\ tx.v = v
        /\ tx.then = "exit"
        /\ EmptyingNow(v, token, destination)
        /\ tx.acc.vault = vault
        /\ tx.acc.vault_period = vault_period
        /\ tx.acc.position = position
        /\ tx.acc.referrer = referrer
        /\ tx.acc.nft_holder = nft_holder
        /\ tx.acc.nft_mint = nft_mint
        /\ EmptyingAt(v, token, destination)
    BY DEF Emptying, EmptyingNow
<1> DEFINE held == balance[v][token]
<1>3. tx.calls = <<Transfer(<<v, token>>, destination, v, held)>> /\ Shown = balance
    BY <1>1, <1>2 DEF EmptyingAt
<1>4. NextCall = Transfer(<<v, token>>, destination, v, held) /\ tx'.calls = <<>>
    BY <1>1, <1>3 DEF NextCall
<1>5. balance \in Balances /\ destination \in TokenAccounts
    BY DestinationFacts DEF Between, TypeInv, TypeOK, Balances
<1>6. held \in Nat
    BY <1>5, BalanceNat
<1>7. /\ Copied'
      /\ CanPay(balance, v, token, destination, held)
      /\ Shown' = Paid(balance, v, token, destination, held)
      /\ UNCHANGED <<tx.acc.nft_holder, tx.acc.nft_mint>>
    <2> HIDE DEF held
    <2> QED BY <1>3, <1>4, <1>5, <1>6, PaymentEffect
<1>8. balance' = balance /\ PayoutAccounts' = PayoutAccounts
    BY <1>1 DEF Unwritten, PayoutAccounts
<1>9. EmptyingAt(v, token, destination)'
    BY <1>4, <1>7, <1>8 DEF EmptyingAt, CanPay, Paid
<1>10. EmptyingNow(v, token, destination)'
    BY <1>1, <1>2 DEF EmptyingNow, Unwritten, Config
<1>11. /\ tx'.acc.vault = vault' /\ tx'.acc.vault_period = vault_period'
       /\ tx'.acc.position = position' /\ tx'.acc.referrer = referrer'
       /\ tx'.acc.nft_holder = nft_holder' /\ tx'.acc.nft_mint = nft_mint'
    BY <1>1, <1>2, <1>7 DEF Unwritten, OwnCopiesKept
<1>12. Emptying'
    BY <1>1, <1>2, <1>8, <1>9, <1>10, <1>11 DEF Emptying, EmptyingNow
<1> QED BY <1>7, <1>12

\* An admin's withdrawal that has come to its end is DripVault's.
LEMMA EmptyingEnds ==
    ASSUME Between, Shaped, Copied, Emptying, Exit
    PROVE  Next /\ InstructionInv'
<1>1. /\ tx.calls = <<>> /\ tx.then = "exit"
      /\ vault' = tx.acc.vault /\ vault_period' = tx.acc.vault_period
      /\ position' = tx.acc.position /\ referrer' = tx.acc.referrer
      /\ nft_holder' = tx.acc.nft_holder /\ nft_mint' = tx.acc.nft_mint
      /\ UNCHANGED <<now, proto_config>>
    BY DEF Exit
<1>2. PICK v \in Vaults, token \in Tokens, destination \in PayoutAccounts :
        /\ EmptyingNow(v, token, destination)
        /\ tx.acc.vault = vault
        /\ tx.acc.vault_period = vault_period
        /\ tx.acc.position = position
        /\ tx.acc.referrer = referrer
        /\ tx.acc.nft_holder = nft_holder
        /\ tx.acc.nft_mint = nft_mint
        /\ EmptyingAt(v, token, destination)
    BY DEF Emptying, EmptyingNow
<1> DEFINE held == balance[v][token]
<1>3. CanPay(balance, v, token, destination, held)
      /\ Shown = Paid(balance, v, token, destination, held)
    BY <1>1, <1>2 DEF EmptyingAt
<1>4. balance' = Paid(balance, v, token, destination, held)
    BY <1>3, BalanceWritten
<1>5. AdminWithdraw(v, tx.signer, token, destination) /\ tx.signer \in Signers
    BY <1>1, <1>2, <1>3, <1>4 DEF EmptyTokenAccount, EmptyingNow, AdminWithdraw
<1>6. Next
    BY <1>5, Zenon DEF Next, AdminStep
<1>7. /\ position' = position /\ referrer' = referrer
      /\ nft_holder' = nft_holder /\ nft_mint' = nft_mint
    BY <1>1, <1>2
<1> QED BY <1>1, <1>6, <1>7, ExitBetween DEF Between, NftsMintedOnce

-----------------------------------------------------------------------------
(* The invariant is inductive *)

\* What each stage does when its calls have returned.
LEMMA StageThen ==
    /\ Depositing \/ WithdrawingB \/ Emptying => tx.then = "exit"
    /\ Dripping => tx.then \in {"verify", "exit"}
    /\ ClosingB => tx.then = "refund"
    /\ ClosingA => tx.then \in {"close", "exit"}
<1>1. ASSUME Dripping
      PROVE  tx.then \in {"verify", "exit"}
    <2>1. PICK v \in Vaults, last \in PeriodAccounts, current \in PeriodAccounts,
               swap \in Swaps \cup {DefaultKey} : DripCalling(v, last, current, swap)
        BY <1>1 DEF Dripping
    <2> QED BY <2>1 DEF DripCalling
<1>2. Depositing => tx.then = "exit"
    <2> SUFFICES ASSUME Depositing
                 PROVE  tx.then = "exit"
        OBVIOUS
    <2>1. PICK p \in Positions, v \in Vaults, depositor \in Users, end \in PeriodAccounts,
               amount \in DepositAmounts, n \in SwapCounts, source \in Wallets,
               ref \in AccountsOfB :
            /\ tx.v = v /\ tx.given = [mint |-> p, depositor |-> depositor]
            /\ tx.then = "exit"
            /\ DepositValid(p, v, end, amount, n)
            /\ DepositWritten(p, v, depositor, end, amount, n, ref)
            /\ DepositCalling(p, v, depositor, amount, source)
        BY DEF Depositing
    <2> QED BY <2>1
<1>3. WithdrawingB => tx.then = "exit"
    BY Zenon DEF WithdrawingB
<1>4. Emptying => tx.then = "exit"
    BY Zenon DEF Emptying
<1>5. ClosingB => tx.then = "refund"
    BY Zenon DEF ClosingB
<1>6. ASSUME ClosingA
      PROVE  tx.then \in {"close", "exit"}
    <2>1. PICK p \in Positions, v \in Vaults, i \in PeriodAccounts, j \in PeriodAccounts,
               expiry \in PeriodAccounts, user_a \in PayoutAccounts, user_b \in PayoutAccounts,
               due \in SUBSET (1 .. 3) :
            /\ CloseGiven(p, v, i, j, expiry, user_a, user_b)
            /\ RefundingA(p, v, i, j, expiry, user_a, user_b, due)
            /\ \/ tx.then = "close" /\ WithdrawalWritten(p, BeforeFees(p, v, i, j))
               \/ /\ tx.then = "exit" /\ tx.calls = <<>>
                  /\ ClosedWritten(p, BeforeFees(p, v, i, j))
        BY <1>6 DEF ClosingA
    <2> QED BY <2>1
<1> QED BY <1>1, <1>2, <1>3, <1>4, <1>5, <1>6

\* Between instructions nothing is called, verified, refunded or written back, and
\* none starts before the last has ended.
LEMMA IdleOrUnderway ==
    /\ tx = Idle => ~ CallStep /\ ~ VerifySwap /\ ~ RefundA /\ ~ DropPosition /\ ~ Exit
    /\ Underway => tx # Idle
<1>1. ASSUME Underway
      PROVE  tx # Idle
    <2>1. tx.then # "none"
        BY <1>1, StageThen DEF Underway
    <2> QED BY <2>1 DEF Idle
<1>2. ASSUME tx = Idle
      PROVE  ~ CallStep /\ ~ VerifySwap /\ ~ RefundA /\ ~ DropPosition /\ ~ Exit
    <2>1. tx.then = "none" /\ tx.calls = <<>>
        BY <1>2 DEF Idle
    <2> QED BY <2>1
            DEF CallStep, CallTransfer, CallMint, CallMetadata, CallRevoke, CallBurn,
                CallCloseAccount, CallSwapStep, Calling, VerifySwap, RefundA, DropPosition, Exit
<1> QED BY <1>1, <1>2

\* Whatever is called next, the instruction goes on.
LEMMA CallsContinue ==
    ASSUME Between, Underway, CallStep
    PROVE  Underway' /\ Unwritten
<1>1. Shaped /\ Copied
    BY DEF Underway
<1>2. Shaped' /\ Unwritten
    BY <1>1, CallReturns DEF Inside
<1>3. CASE Depositing
    BY <1>1, <1>2, <1>3, DepositContinues
<1>4. CASE Dripping
    BY <1>1, <1>2, <1>4, DripContinues
<1>5. CASE WithdrawingB
    BY <1>1, <1>2, <1>5, WithdrawBContinues DEF Underway
<1>6. CASE ClosingB
    BY <1>1, <1>2, <1>6, CloseContinuesB DEF Underway
<1>7. CASE ClosingA
    BY <1>1, <1>2, <1>7, RefundContinues DEF Underway
<1>8. CASE Emptying
    BY <1>1, <1>2, <1>8, EmptyingContinues DEF Underway
<1> QED BY <1>3, <1>4, <1>5, <1>6, <1>7, <1>8 DEF Underway

\* Nor does the work between and after the calls write anything back.
LEMMA WorkContinues ==
    ASSUME Between, Underway, VerifySwap \/ RefundA \/ DropPosition
    PROVE  Underway' /\ Unwritten
<1>1. Shaped /\ Copied
    BY DEF Underway
<1>2. CASE VerifySwap
    <2>1. tx.then = "verify"
        BY <1>2, Zenon DEF VerifySwap
    <2>2. Dripping
        BY <2>1, StageThen DEF Underway
    <2> QED BY <1>1, <1>2, <2>2, DripVerified
<1>3. CASE RefundA
    <2>1. tx.then = "refund"
        BY <1>3, Zenon DEF RefundA
    <2>2. ClosingB
        BY <2>1, StageThen DEF Underway
    <2> QED BY <1>1, <1>3, <2>2, RefundStarts
<1>4. CASE DropPosition
    <2>1. tx.then = "close"
        BY <1>4 DEF DropPosition
    <2>2. ClosingA
        BY <2>1, StageThen DEF Underway
    <2> QED BY <1>1, <1>4, <2>2, Drops
<1> QED BY <1>2, <1>3, <1>4

\* An instruction that comes to its end is an action of DripVault.
LEMMA EndsInNext ==
    ASSUME Between, Underway, Exit
    PROVE  Next /\ InstructionInv'
<1>1. Shaped /\ Copied
    BY DEF Underway
<1>2. ~ ClosingB
    BY StageThen DEF Exit
<1> QED BY <1>1, <1>2, DepositEnds, DripEnds, WithdrawBEnds, CloseEnds, EmptyingEnds
        DEF Underway

StartStep ==
    \/ StartDepositStep \/ StartDripStep \/ StartWithdrawBStep
    \/ StartClosePositionStep \/ StartAdminStep

\* Every instruction starts at a stage of the invariant.
LEMMA StartsUnderway ==
    ASSUME Between, StartStep
    PROVE  Underway' /\ Unwritten
<1>1. CASE StartDepositStep
    BY <1>1, DepositStarts DEF StartDepositStep
<1>2. CASE StartDripStep
    BY <1>2, DripStarts DEF StartDripStep
<1>3. CASE StartWithdrawBStep
    BY <1>3, WithdrawBStarts DEF StartWithdrawBStep
<1>4. CASE StartClosePositionStep
    BY <1>4, CloseStarts DEF StartClosePositionStep
<1>5. CASE StartAdminStep
    <2>1. PICK v \in Vaults, admin \in Signers, destination \in PayoutAccounts :
             \/ StartWithdrawA(v, admin, destination)
             \/ \E token \in Tokens : StartAdminWithdraw(v, admin, token, destination)
        BY <1>5 DEF StartAdminStep
    <2>2. PICK ix \in {"withdraw_a", "admin_withdraw"}, token \in Tokens :
             StartedEmptying(ix, v, admin, token, destination)
        BY <2>1 DEF StartWithdrawA, StartAdminWithdraw, Tokens
    <2> QED BY <2>2, EmptyingStarts
<1> QED BY <1>1, <1>2, <1>3, <1>4, <1>5 DEF StartStep

\* The instructions without calls, and the world, are DripVault's, and touch
\* neither a mint nor a referrer.
LEMMA CallFreeStep ==
    ASSUME Between, CallFree
    PROVE  Next /\ InstructionInv'
<1>1. tx' = Idle /\ UNCHANGED <<wallet, nft_mint, referrer>>
    BY DEF CallFree
<1>2. /\ Next
      /\ \A p \in Positions : /\ position'[p].status = "open" => position[p].status = "open"
                              /\ nft_holder[p] # NoHolder => nft_holder'[p] # NoHolder
    <2>1. ASSUME UNCHANGED <<position, nft_holder>>, Next
          PROVE  <1>2!2
        BY <2>1
    <2>2. ASSUME NEW c \in Configs, NEW params \in ConfigParams, InitVaultProtoConfig(c, params)
          PROVE  Next /\ UNCHANGED <<position, nft_holder>>
        BY <2>2 DEF Next, InitVaultProtoConfig
    <2>3. ASSUME NEW v \in Vaults, NEW admin \in Signers, NEW list \in WhitelistParams,
                 InitVault(v, admin, list) \/ SetVaultSwapWhitelist(v, admin, list)
          PROVE  Next /\ UNCHANGED <<position, nft_holder>>
        BY <2>3 DEF Next, AdminStep, InitVault, SetVaultSwapWhitelist
    <2>4. ASSUME NEW v \in Vaults, NEW k \in PeriodIds, InitVaultPeriod(v, k)
          PROVE  Next /\ UNCHANGED <<position, nft_holder>>
        BY <2>4 DEF Next, InitVaultPeriod
    <2>5. ASSUME NEW p \in Positions, NEW v \in Vaults, NEW admin \in Signers,
                 ClosePositionAccount(p, v, admin)
          PROVE  Next /\ <1>2!2
        <3>1. Next
            BY <2>5 DEF Next, AdminStep
        <3>2. position' = [position EXCEPT ![p].status = "closed"] /\ nft_holder' = nft_holder
            BY <2>5 DEF ClosePositionAccount
        <3> QED BY <3>1, <3>2 DEF Between, TypeInv, TypeOK
    <2>6. ASSUME NEW p \in Positions, NEW to \in Users, TransferNft(p, to)
          PROVE  Next /\ <1>2!2
        <3>1. Next
            BY <2>6 DEF Next
        <3>2. position' = position /\ nft_holder' = [nft_holder EXCEPT ![p] = to]
            BY <2>6 DEF TransferNft
        <3> QED BY <3>1, <3>2, AddressAssumption DEF Between, TypeInv, TypeOK
    <2>7. ASSUME Tick
          PROVE  Next /\ UNCHANGED <<position, nft_holder>>
        BY <2>7 DEF Next, Tick
    <2> QED BY <2>1, <2>2, <2>3, <2>4, <2>5, <2>6, <2>7 DEF CallFree
<1>3. TypeInv'
    BY <1>2, StepType DEF Between
<1> QED BY <1>1, <1>2, <1>3 DEF InstructionInv, Between, NftsMintedOnce

\* A step in which nothing happens.
LEMMA NothingHappens == InstructionInv /\ UNCHANGED instruction => InstructionInv'
<1> SUFFICES ASSUME InstructionInv, UNCHANGED instruction
             PROVE  InstructionInv'
    OBVIOUS
<1>1. Unwritten /\ tx' = tx
    BY DEF instruction, vars, Unwritten
<1>2. Between'
    BY <1>1, BetweenKept DEF InstructionInv
<1>3. ASSUME Underway
      PROVE  Underway'
    <2>1. Shaped' /\ Copied'
        BY <1>1, <1>3 DEF Underway, Shaped, Copied
    <2>2. ASSUME Depositing
          PROVE  Depositing'
        <3>1. PICK p \in Positions, v \in Vaults, depositor \in Users, end \in PeriodAccounts,
                   amount \in DepositAmounts, n \in SwapCounts, source \in Wallets,
                   ref \in AccountsOfB :
                /\ tx.v = v /\ tx.given = [mint |-> p, depositor |-> depositor]
                /\ tx.then = "exit"
                /\ DepositValid(p, v, end, amount, n)
                /\ DepositWritten(p, v, depositor, end, amount, n, ref)
                /\ DepositCalling(p, v, depositor, amount, source)
            BY <2>2 DEF Depositing
        <3>2. DepositWritten(p, v, depositor, end, amount, n, ref)'
            BY <1>1, <3>1 DEF DepositWritten, Unwritten
        <3>3. DepositCalling(p, v, depositor, amount, source)'
            BY <1>1, <3>1 DEF DepositCalling, DepositAt, Shown, InVaults, Unwritten
        <3> QED BY <1>1, <3>1, <3>2, <3>3, DepositValidKept DEF Depositing
    <2>3. ASSUME Dripping
          PROVE  Dripping'
        <3>1. PICK v \in Vaults, last \in PeriodAccounts, current \in PeriodAccounts,
                   swap \in Swaps \cup {DefaultKey} :
                /\ tx.v = v
                /\ tx.given = [last |-> last, current |-> current, swap |-> swap,
                               drip_amount |-> vault[v].drip_amount,
                               swap_amount |-> SwapAmount(v),
                               spread |-> SpreadOnDrip(v), balance |-> balance[v]]
                /\ DripValid(v, last, current, swap)
                /\ DripWritten(v, current)
                /\ DripCalling(v, last, current, swap)
            BY <2>3 DEF Dripping
        <3>2. /\ SpreadOnDrip(v)' = SpreadOnDrip(v) /\ SwapAmount(v)' = SwapAmount(v)
              /\ PeriodAccounts' = PeriodAccounts /\ PayoutAccounts' = PayoutAccounts
              /\ DripValid(v, last, current, swap)'
            BY <1>1, <3>1, DripValidKept
        <3>3. DripWritten(v, current)'
            BY <1>1, <3>1 DEF DripWritten, Unwritten, Config, Data
        <3>4. DripCalling(v, last, current, swap)'
            <4> DEFINE fee == SpreadOnDrip(v)
            <4>1. /\ UNCHANGED <<now, vault, vault_period, balance, wallet>>
                  /\ Shown' = Shown
                BY <1>1 DEF Unwritten, Shown, InVaults
            <4>2. ASSUME NEW swap_a \in Wallets, NEW swap_b \in Wallets, NEW to \in PayoutAccounts,
                         \/ /\ tx.calls = <<Transfer(<<v, "A">>, to, v, fee),
                                            SwapCall(v, swap, swap_a, swap_b)>>
                            /\ Shown = balance
                         \/ /\ tx.calls = <<SwapCall(v, swap, swap_a, swap_b)>>
                            /\ CanPay(balance, v, "A", to, fee)
                            /\ Shown = Paid(balance, v, "A", to, fee),
                         NobodyLost, tx.then = "verify", tx.acc.vault_period = vault_period
                  PROVE  DripCalling(v, last, current, swap)'
                <5>1. SwapCall(v, swap, swap_a, swap_b)' = SwapCall(v, swap, swap_a, swap_b)
                    BY <3>2 DEF SwapCall, WhirlpoolSwap, SplTokenSwap
                <5>2. Transfer(<<v, "A">>, to, v, fee)' = Transfer(<<v, "A">>, to, v, fee)
                    BY <3>2 DEF Transfer
                <5>3. /\ CanPay(balance, v, "A", to, fee)' <=> CanPay(balance, v, "A", to, fee)
                      /\ Paid(balance, v, "A", to, fee)' = Paid(balance, v, "A", to, fee)
                    BY <1>1, DripFeeKept
                <5>4. NobodyLost' /\ tx'.then = "verify" /\ tx'.acc.vault_period = vault_period'
                      /\ to \in PayoutAccounts'
                    BY <1>1, <3>2, <4>1, <4>2 DEF NobodyLost
                <5>5. \/ /\ tx'.calls = <<Transfer(<<v, "A">>, to, v, fee)',
                                          SwapCall(v, swap, swap_a, swap_b)'>>
                         /\ Shown' = balance'
                      \/ /\ tx'.calls = <<SwapCall(v, swap, swap_a, swap_b)'>>
                         /\ CanPay(balance, v, "A", to, fee)'
                         /\ Shown' = Paid(balance, v, "A", to, fee)'
                    BY <1>1, <4>1, <4>2, <5>1, <5>2, <5>3
                <5> QED BY <5>4, <5>5, Zenon DEF DripCalling
            <4>3. ASSUME NEW to \in PayoutAccounts, NEW taken \in 0 .. SwapAmount(v),
                         NEW received \in ReceivedAmounts,
                         NEW paid, paid = Paid(balance, v, "A", to, fee),
                         tx.calls = <<>>,
                         CanPay(balance, v, "A", to, fee),
                         taken <= paid[v]["A"],
                         Shown = [paid EXCEPT ![v]["A"] = @ - taken, ![v]["B"] = @ + received],
                         swap \in Swaps,
                         \A w \in Wallets : tx.acc.amount[w] < wallet[w] => WalletOwner[w] = swap,
                         \/ tx.then = "verify" /\ tx.acc.vault_period = vault_period
                         \/ /\ tx.then = "exit"
                            /\ SwapCompleted(v, balance[v]["A"] - paid[v]["A"] + taken, received)
                            /\ PriceWritten(v, last, current, received)
                  PROVE  DripCalling(v, last, current, swap)'
                <5>1. CanPay(balance, v, "A", to, fee)'
                      /\ Paid(balance, v, "A", to, fee)' = paid
                    BY <1>1, <4>3, DripFeeKept
                <5>2. \/ tx'.then = "verify" /\ tx'.acc.vault_period = vault_period'
                      \/ /\ tx'.then = "exit"
                         /\ (SwapCompleted(v, balance[v]["A"] - paid[v]["A"] + taken, received))'
                         /\ PriceWritten(v, last, current, received)'
                    BY <1>1, <3>2, <4>1, <4>3 DEF SwapCompleted, PriceWritten, Data
                <5>3. /\ taken \in 0 .. SwapAmount(v)' /\ tx'.calls = <<>>
                      /\ to \in PayoutAccounts'
                      /\ \A w \in Wallets : tx'.acc.amount[w] < wallet'[w] => WalletOwner[w] = swap
                    BY <1>1, <3>2, <4>1, <4>3
                <5>4. /\ taken <= Paid(balance, v, "A", to, fee)'[v]["A"]
                      /\ Shown' = [Paid(balance, v, "A", to, fee)' EXCEPT
                                     ![v]["A"] = @ - taken, ![v]["B"] = @ + received]
                    BY <4>1, <4>3, <5>1
                <5>5. \/ tx'.then = "verify" /\ tx'.acc.vault_period = vault_period'
                      \/ /\ tx'.then = "exit"
                         /\ (SwapCompleted(v, balance[v]["A"]
                                 - Paid(balance, v, "A", to, SpreadOnDrip(v))[v]["A"] + taken,
                                 received))'
                         /\ PriceWritten(v, last, current, received)'
                    BY <4>1, <5>1, <5>2 DEF SwapCompleted
                <5> QED BY <4>3, <5>1, <5>3, <5>4, <5>5, Zenon DEF DripCalling
            <4> QED BY <3>1, <4>2, <4>3 DEF DripCalling
        <3>5. tx'.given = [last |-> last, current |-> current, swap |-> swap,
                           drip_amount |-> vault'[v].drip_amount,
                           swap_amount |-> SwapAmount(v)',
                           spread |-> SpreadOnDrip(v)', balance |-> balance'[v]]
            BY <1>1, <3>1, <3>2 DEF Unwritten
        <3> QED BY <1>1, <3>1, <3>2, <3>3, <3>4, <3>5 DEF Dripping
    <2>4. ASSUME NEW v \in Vaults, NEW p \in Positions, NEW i, NEW j, NEW user_b, NEW due,
                 PayingB(p, v, i, j, user_b, due)
          PROVE  PayingB(p, v, i, j, user_b, due)'
        <3>1. PICK x : x = BeforeFees(p, v, i, j)
            OBVIOUS
        <3>2. ValidWithdrawal(p, v, i, j)
            BY <2>4 DEF PayingB
        <3>3. PayingNext(p, v, x, user_b, due)
            BY <1>1, <2>4, <3>1 DEF PayingB, PayingNext, WithdrawalWritten, Received, FeesArrived,
                                    Arrived, Shown, InVaults
        <3> QED BY <1>1, <3>1, <3>2, <3>3, PayingKept
    <2>5. WithdrawingB => WithdrawingB'
        <3> SUFFICES ASSUME WithdrawingB
                     PROVE  WithdrawingB'
            OBVIOUS
        <3>1. PICK p \in Positions, v \in Vaults, i \in PeriodAccounts, j \in PeriodAccounts,
                   user_b \in PayoutAccounts, due \in SUBSET (1 .. 3) :
                /\ tx.then = "exit"
                /\ tx.signer \in Signers
                /\ NetOfFees(v, BeforeFees(p, v, i, j)) > 0
                /\ nft_holder[p] = tx.signer
                /\ PayingB(p, v, i, j, user_b, due)
            BY DEF WithdrawingB
        <3>2. PeriodAccounts' = PeriodAccounts /\ PayoutAccounts' = PayoutAccounts
            BY <1>1, WithdrawalKept
        <3>3. NetOfFees(v, BeforeFees(p, v, i, j))' > 0 /\ nft_holder' = nft_holder
            BY <1>1, <3>1, PaymentsKept DEF Unwritten
        <3> QED BY <1>1, <2>4, <3>1, <3>2, <3>3 DEF WithdrawingB
    <2>6. ClosingB => ClosingB'
        <3> SUFFICES ASSUME ClosingB
                     PROVE  ClosingB'
            OBVIOUS
        <3>1. PICK p \in Positions, v \in Vaults, i \in PeriodAccounts, j \in PeriodAccounts,
                   expiry \in PeriodAccounts, user_a \in PayoutAccounts, user_b \in PayoutAccounts,
                   due \in SUBSET (1 .. 3) :
                /\ tx.then = "refund"
                /\ CloseGiven(p, v, i, j, expiry, user_a, user_b)
                /\ PayingB(p, v, i, j, user_b, due)
            BY DEF ClosingB
        <3>2. /\ PeriodAccounts' = PeriodAccounts /\ PayoutAccounts' = PayoutAccounts
              /\ CloseGiven(p, v, i, j, expiry, user_a, user_b)'
            BY <1>1, <3>1, CloseKept, WithdrawalKept
        <3> QED BY <1>1, <2>4, <3>1, <3>2 DEF ClosingB
    <2>7. ClosingA => ClosingA'
        <3> SUFFICES ASSUME ClosingA
                     PROVE  ClosingA'
            OBVIOUS
        <3>1. PICK p \in Positions, v \in Vaults, i \in PeriodAccounts, j \in PeriodAccounts,
                   expiry \in PeriodAccounts, user_a \in PayoutAccounts, user_b \in PayoutAccounts,
                   due \in SUBSET (1 .. 3) :
                /\ CloseGiven(p, v, i, j, expiry, user_a, user_b)
                /\ RefundingA(p, v, i, j, expiry, user_a, user_b, due)
                /\ \/ tx.then = "close" /\ WithdrawalWritten(p, BeforeFees(p, v, i, j))
                   \/ /\ tx.then = "exit" /\ tx.calls = <<>>
                      /\ ClosedWritten(p, BeforeFees(p, v, i, j))
            BY DEF ClosingA
        <3>2. /\ PeriodAccounts' = PeriodAccounts /\ PayoutAccounts' = PayoutAccounts
              /\ CloseGiven(p, v, i, j, expiry, user_a, user_b)'
            BY <1>1, <3>1, CloseKept, WithdrawalKept
        <3>3. PICK x, refund : x = BeforeFees(p, v, i, j) /\ refund = RefundOf(p, i, j)
            OBVIOUS
        <3>4. /\ ValidWithdrawal(p, v, i, j)
              /\ WithdrawTokenADefined(i.period_id, j.period_id,
                     position[p].number_of_swaps, position[p].periodic_drip_amount)
            BY <3>1 DEF RefundingA
        <3>5. RefundingNext(p, v, x, refund, user_a, user_b, due)
            <4> DEFINE to   == Payees(p, v, user_b)
                       paid == AfterReferrer(v, x, to)
            <4>1. /\ tx.v = v
                  /\ InOrderA(p, refund, due) /\ tx.calls = CallsDueA(p, v, refund, user_a, due)
                  /\ to \in PayeesB /\ CanPayB(v, x, to) /\ paid \in Balances
                  /\ 1 \notin due /\ refund > 0 => CanPay(paid, v, "A", user_a, refund)
                  /\ Shown = IF 1 \in due THEN paid ELSE Paid(paid, v, "A", user_a, refund)
                  /\ tx.acc.referrer = referrer
                  /\ Received({TreasuryOf[v], user_b, referrer[p], user_a})
                  /\ FeesArrived(p, v, x, {})
                BY <3>1, <3>3 DEF RefundingA
            <4> HIDE DEF to
            <4>2. Shown' = Shown
                BY <1>1 DEF Shown, InVaults
            <4>3. /\ \A y \in TokenAccounts : tx'.acc.amount[y] > Held(y) =>
                         y \in {TreasuryOf[v], user_b, referrer[p], user_a}
                  /\ \A y \in {TreasuryOf[v], referrer[p]} \ {<<v, "B">>} :
                         tx'.acc.amount[y] - Held(y) >= Arrived(p, v, x, {}, y)
                BY <1>1, <4>1 DEF Received, FeesArrived, Arrived
            <4> QED BY <1>1, <4>1, <4>2, <4>3 DEF RefundingNext, to
        <3>6. ReductionWritten(p, v, j, expiry)' /\ NftWritten(p, due)'
            BY <1>1, <3>1 DEF RefundingA, ReductionWritten, NftWritten, Unwritten, Data
        <3>7. RefundingA(p, v, i, j, expiry, user_a, user_b, due)'
            BY <1>1, <3>3, <3>4, <3>5, <3>6, RefundingKept
        <3>8. /\ WithdrawalWritten(p, BeforeFees(p, v, i, j))'
                    <=> WithdrawalWritten(p, BeforeFees(p, v, i, j))
              /\ ClosedWritten(p, BeforeFees(p, v, i, j))'
                    <=> ClosedWritten(p, BeforeFees(p, v, i, j))
            <4>1. BeforeFees(p, v, i, j)' = x /\ position' = position
                BY <1>1, <3>3, WithdrawalKept DEF Unwritten
            <4>2. /\ WithdrawalWritten(p, BeforeFees(p, v, i, j))' <=> WithdrawalWritten(p, x)
                  /\ ClosedWritten(p, BeforeFees(p, v, i, j))' <=> ClosedWritten(p, x)
                BY <1>1, <4>1 DEF WithdrawalWritten, ClosedWritten
            <4> QED BY <3>3, <4>2
        <3> QED BY <1>1, <3>1, <3>2, <3>7, <3>8 DEF ClosingA
    <2>8. Emptying => Emptying'
        <3> SUFFICES ASSUME Emptying
                     PROVE  Emptying'
            OBVIOUS
        <3>1. PICK v \in Vaults, token \in Tokens, destination \in PayoutAccounts :
                /\ tx.v = v
                /\ tx.then = "exit"
                /\ EmptyingNow(v, token, destination)
                /\ tx.acc.vault = vault
                /\ tx.acc.vault_period = vault_period
                /\ tx.acc.position = position
                /\ tx.acc.referrer = referrer
                /\ tx.acc.nft_holder = nft_holder
                /\ tx.acc.nft_mint = nft_mint
                /\ EmptyingAt(v, token, destination)
            BY DEF Emptying, EmptyingNow
        <3>2. Shown' = Shown /\ PayoutAccounts' = PayoutAccounts /\ balance' = balance
            BY <1>1 DEF Unwritten, Shown, InVaults, PayoutAccounts
        <3>3. /\ CanPay(balance, v, token, destination, balance[v][token])'
                    <=> CanPay(balance, v, token, destination, balance[v][token])
              /\ Paid(balance, v, token, destination, balance[v][token])'
                    = Paid(balance, v, token, destination, balance[v][token])
            BY <3>2 DEF CanPay, Paid
        <3>4. EmptyingAt(v, token, destination)'
            BY <1>1, <3>1, <3>2, <3>3 DEF EmptyingAt, Transfer
        <3>5. EmptyingNow(v, token, destination)'
            BY <1>1, <3>1 DEF EmptyingNow, Unwritten, Config
        <3>6. /\ tx'.acc.vault = vault' /\ tx'.acc.vault_period = vault_period'
              /\ tx'.acc.position = position' /\ tx'.acc.referrer = referrer'
              /\ tx'.acc.nft_holder = nft_holder' /\ tx'.acc.nft_mint = nft_mint'
              /\ tx'.v = v /\ tx'.then = "exit"
            BY <1>1, <3>1 DEF Unwritten
        <3> QED BY <3>2, <3>4, <3>5, <3>6 DEF Emptying, EmptyingNow
    <2> QED BY <1>3, <2>1, <2>2, <2>3, <2>5, <2>6, <2>7, <2>8 DEF Underway
<1> QED BY <1>1, <1>2, <1>3 DEF InstructionInv

\* The invariant holds when the model starts.
LEMMA InstructionInit1 == InstructionInit => InstructionInv
<1> SUFFICES ASSUME InstructionInit
             PROVE  InstructionInv
    OBVIOUS
<1>1. TypeInv
    BY InitType DEF InstructionInit
<1>2. \A p \in Positions : position[p].status # "open"
    <2>1. PICK owner \in [LegacyPositions -> UpgradedVaults] :
             position = [p \in Positions |->
                 IF p \in LegacyPositions
                 THEN [NoPosition EXCEPT !.status = "legacy", !.vault = owner[p]]
                 ELSE NoPosition]
        BY Zenon DEF InstructionInit, Init
    <2> DEFINE legacy(p) == [NoPosition EXCEPT !.status = "legacy", !.vault = owner[p]]
    <2>2. ASSUME NEW p \in Positions
          PROVE  legacy(p).status = "legacy" /\ NoPosition.status = "none"
        BY DEF NoPosition
    <2>3. \A p \in Positions : position[p] \in {legacy(p), NoPosition}
        BY <2>1
    <2> HIDE DEF legacy
    <2> QED BY <2>2, <2>3
<1>3. /\ wallet \in [Wallets -> Amount]
      /\ nft_mint \in [Positions -> NftMintType]
      /\ referrer \in [Positions -> Destinations \cup {NoHolder}]
      /\ \A p \in Positions : ~ (nft_mint[p].supply > 0)
    BY WalletAssumption DEF InstructionInit, NftMintType
<1> QED BY <1>1, <1>2, <1>3 DEF InstructionInit, InstructionInv, Between, NftsMintedOnce

\* Every step of an instruction keeps the invariant, and writes back either nothing
\* or what an action of DripVault would.
LEMMA InstructionStep ==
    ASSUME InstructionInv, [InstructionNext]_instruction
    PROVE  InstructionInv' /\ (vars' # vars => Next)
<1> DEFINE Goal == InstructionInv' /\ (vars' # vars => Next)
<1>1. ASSUME Unwritten, Underway' \/ tx' = Idle
      PROVE  Goal
    <2>1. Between' /\ vars' = vars
        BY <1>1, BetweenKept DEF InstructionInv, Unwritten, vars
    <2> QED BY <1>1, <2>1 DEF InstructionInv
<1>2. CASE CallFree
    BY <1>2, CallFreeStep DEF InstructionInv
<1>3. CASE StartStep
    BY <1>1, <1>3, StartsUnderway DEF InstructionInv
<1>4. CASE CallStep
    BY <1>1, <1>4, CallsContinue, IdleOrUnderway DEF InstructionInv
<1>5. CASE VerifySwap \/ RefundA \/ DropPosition
    BY <1>1, <1>5, WorkContinues, IdleOrUnderway DEF InstructionInv
<1>6. CASE Exit
    BY <1>6, EndsInNext, IdleOrUnderway DEF InstructionInv
<1>7. CASE Abort
    BY <1>1, <1>7 DEF Abort, Unwritten, vars
<1>8. CASE UNCHANGED instruction
    BY <1>8, NothingHappens DEF instruction
<1> QED BY <1>2, <1>3, <1>4, <1>5, <1>6, <1>7, <1>8
        DEF InstructionNext, StartStep, CallStep

-----------------------------------------------------------------------------
(* Atomicity *)

\* The invariant holds whenever the program has run for a while.
THEOREM InstructionInvariant == InstructionSpec => []InstructionInv
BY InstructionInit1, InstructionStep, PTL DEF InstructionSpec

\* The steps of an instruction come to one action of DripVault, or to none when it
\* fails: the validate/execute split and the calls between the copies and the
\* write-back show in no other instruction.
THEOREM InstructionsAreAtomic == InstructionSpec => InstructionsAtomic
<1>1. InstructionInit => Init
    BY DEF InstructionInit
<1>2. InstructionInv /\ [InstructionNext]_instruction => [vars' # vars => Next]_vars
    BY InstructionStep
<1> QED BY <1>1, <1>2, InstructionInvariant, PTL DEF InstructionSpec, InstructionsAtomic

\* So what is proved of DripVault is true of the program with its calls.
THEOREM InstructionsImplementVault == InstructionSpec => Spec
<1>1. InstructionInit => Init
    BY DEF InstructionInit
<1>2. InstructionInv /\ [InstructionNext]_instruction => [Next]_vars
    BY InstructionStep
<1> QED BY <1>1, <1>2, InstructionInvariant, PTL DEF InstructionSpec, Spec

\* A position's NFT is minted once: as long as the position is open or the NFT there, it
\* is the only one and nobody can mint another.
THEOREM MintedOnce == InstructionSpec => []NftsMintedOnce
<1>1. InstructionInv => NftsMintedOnce
    BY DEF InstructionInv, Between
<1> QED BY <1>1, InstructionInvariant, PTL

-----------------------------------------------------------------------------
(* Types *)

\* A transfer, if it is one, is of an amount that a u64 holds, between two token
\* accounts; a swap is between two accounts of a vault and two of others.
Fits(c) ==
    /\ c.kind = "transfer" =>
         /\ c.amount \in Amount
         /\ c.from \in TokenAccounts /\ c.to \in TokenAccounts
    /\ c.kind = "swap" =>
         /\ c.amount_in \in Nat
         /\ c.pool_source \in Wallets /\ c.pool_destination \in Wallets
         /\ \E v \in Vaults : c.source = <<v, "A">> /\ c.destination = <<v, "B">>

AllFit(calls) ==
    /\ \A k \in DOMAIN calls : Fits(calls[k])
    /\ calls # <<>> => Fits(Head(calls))

\* Whichever of three calls are still due, their amounts fit if all three do.
LEMMA RowFits ==
    ASSUME NEW a, NEW b, NEW c, NEW due, Fits(a), Fits(b), Fits(c)
    PROVE  AllFit(InRow(due, a, b, c))
<1>1. AllFit(<<a, b, c>>) /\ AllFit(<<a, b>>) /\ AllFit(<<a, c>>) /\ AllFit(<<b, c>>)
    BY DEF AllFit
<1>2. AllFit(<<a>>) /\ AllFit(<<b>>) /\ AllFit(<<c>>) /\ AllFit(<<>>)
    BY DEF AllFit
<1> QED BY <1>1, <1>2, RowWritten, Zenon

\* The amounts a deposit and a drip transfer.
LEMMA DepositFits ==
    ASSUME Depositing
    PROVE  AllFit(tx.calls)
<1>1. PICK p \in Positions, v \in Vaults, depositor \in Users, end \in PeriodAccounts,
           amount \in DepositAmounts, n \in SwapCounts, source \in Wallets,
       ref \in AccountsOfB :
        /\ tx.v = v /\ tx.given = [mint |-> p, depositor |-> depositor]
        /\ tx.then = "exit"
        /\ DepositValid(p, v, end, amount, n)
        /\ DepositWritten(p, v, depositor, end, amount, n, ref)
        /\ DepositCalling(p, v, depositor, amount, source)
    BY DEF Depositing
<1> DEFINE pay      == Transfer(source, <<v, "A">>, depositor, amount)
           mint     == NftCall("mint", p, v)
           metadata == NftCall("metadata", p, v)
           revoke   == NftCall("revoke", p, v)
<1>2. tx.calls \in {<<pay, mint, metadata, revoke>>, <<pay, mint, revoke>>,
                    <<mint, metadata, revoke>>, <<mint, revoke>>,
                    <<metadata, revoke>>, <<revoke>>, <<>>}
    BY <1>1 DEF DepositCalling
<1>3. Fits(pay) /\ Fits(mint) /\ Fits(metadata) /\ Fits(revoke)
    <2>1. source \in TokenAccounts /\ <<v, "A">> \in TokenAccounts
        BY WalletFacts DEF Tokens
    <2>2. /\ pay.kind = "transfer" /\ pay.from = source /\ pay.to = <<v, "A">>
          /\ pay.amount = amount /\ amount \in Amount
        BY BoundAssumption DEF Transfer
    <2>3. mint.kind = "mint" /\ metadata.kind = "metadata" /\ revoke.kind = "revoke"
        BY DEF NftCall
    <2> HIDE DEF pay, mint, metadata, revoke
    <2> QED BY <2>1, <2>2, <2>3 DEF Fits
<1> HIDE DEF pay, mint, metadata, revoke
<1>4. AllFit(<<pay, mint, metadata, revoke>>) /\ AllFit(<<pay, mint, revoke>>)
      /\ AllFit(<<mint, metadata, revoke>>)
    BY <1>3 DEF AllFit
<1>5. AllFit(<<mint, revoke>>) /\ AllFit(<<metadata, revoke>>)
      /\ AllFit(<<revoke>>) /\ AllFit(<<>>)
    BY <1>3 DEF AllFit
<1> QED BY <1>2, <1>4, <1>5

\* A drip's fee is part of what the vault drips.
LEMMA DripFits ==
    ASSUME Between, Dripping
    PROVE  AllFit(tx.calls)
<1>1. PICK v \in Vaults, last \in PeriodAccounts, current \in PeriodAccounts,
           swap \in Swaps \cup {DefaultKey} :
        /\ DripValid(v, last, current, swap)
        /\ DripCalling(v, last, current, swap)
    BY DEF Dripping
<1> DEFINE fee == SpreadOnDrip(v)
<1>2. fee \in Amount /\ SwapAmount(v) \in Nat
    <2>1. fee \in Nat /\ SwapAmount(v) \in Nat
        BY <1>1, SwapAmountType DEF Between, DripValid
    <2>2. vault[v].drip_amount \in Amount
        BY VaultParts DEF Between, TypeInv
    <2>3. SwapAmount(v) = vault[v].drip_amount - fee
        BY DEF SwapAmount
    <2> HIDE DEF fee
    <2> QED BY <2>1, <2>2, <2>3, WidthAssumption DEF Amount
<1>3. \/ \E swap_a, swap_b \in Wallets, to \in PayoutAccounts :
            \/ tx.calls = <<Transfer(<<v, "A">>, to, v, fee), SwapCall(v, swap, swap_a, swap_b)>>
            \/ tx.calls = <<SwapCall(v, swap, swap_a, swap_b)>>
      \/ tx.calls = <<>>
    BY <1>1 DEF DripCalling
<1> HIDE DEF fee
<1>4. ASSUME NEW swap_a \in Wallets, NEW swap_b \in Wallets, NEW to \in PayoutAccounts
      PROVE  Fits(Transfer(<<v, "A">>, to, v, fee)) /\ Fits(SwapCall(v, swap, swap_a, swap_b))
    <2>1. to \in TokenAccounts /\ <<v, "A">> \in TokenAccounts
        BY DestinationFacts, TokenAccountFacts DEF Tokens
    <2> DEFINE pay == Transfer(<<v, "A">>, to, v, fee)
               c == SwapCall(v, swap, swap_a, swap_b)
    <2>2. pay.kind = "transfer" /\ pay.from = <<v, "A">> /\ pay.to = to /\ pay.amount = fee
        BY DEF Transfer
    <2>3. SwapShape(c, v, swap, swap_a, swap_b)
        BY SwapCallShape
    <2> HIDE DEF pay, c
    <2>4. Fits(pay)
        BY <1>2, <2>1, <2>2 DEF Fits
    <2>5. Fits(c)
        BY <1>2, <2>3 DEF Fits, SwapShape
    <2> QED BY <2>4, <2>5 DEF pay, c
<1>5. ASSUME NEW a, NEW b, Fits(a), Fits(b)
      PROVE  AllFit(<<a, b>>) /\ AllFit(<<b>>) /\ AllFit(<<>>)
    BY <1>5 DEF AllFit
<1>6. CASE tx.calls = <<>>
    BY <1>6 DEF AllFit
<1> QED BY <1>3, <1>4, <1>5, <1>6, Zenon

\* The amounts of a withdrawal are parts of what the position withdraws.
LEMMA PayingFits ==
    ASSUME Between, NEW v \in Vaults, NEW p \in Positions,
           NEW i \in PeriodAccounts, NEW j \in PeriodAccounts, NEW user_b \in PayoutAccounts,
           NEW due, PayingB(p, v, i, j, user_b, due)
    PROVE  AllFit(tx.calls)
<1> DEFINE x == BeforeFees(p, v, i, j)
           a == Transfer(<<v, "B">>, TreasuryOf[v], v, TreasuryShare(v, x))
           b == Transfer(<<v, "B">>, user_b, v, NetOfFees(v, x))
           c == Transfer(<<v, "B">>, referrer[p], v, ReferrerShare(v, x))
<1>1. ValidWithdrawal(p, v, i, j) /\ tx.calls = InRow(due, a, b, c)
    BY DEF PayingB, CallsDueB
<1>2. x \in Nat /\ position[p].withdrawn_token_b_amount + x \in Amount
      /\ position[p].withdrawn_token_b_amount \in Nat
    BY <1>1, BeforeFeesType, PositionParts DEF Between, TypeInv
<1>3. /\ TreasuryShare(v, x) \in Nat /\ ReferrerShare(v, x) \in Nat /\ NetOfFees(v, x) \in Nat
      /\ x = TreasuryShare(v, x) + NetOfFees(v, x) + ReferrerShare(v, x)
    BY <1>1, WithdrawalParts DEF Between
<1>4. TreasuryShare(v, x) \in Amount /\ ReferrerShare(v, x) \in Amount /\ NetOfFees(v, x) \in Amount
    <2> HIDE DEF x
    <2> QED BY <1>2, <1>3, WidthAssumption DEF Amount
<1>5. Fits(a) /\ Fits(b) /\ Fits(c)
    <2>1. TreasuryOf[v] \in TokenAccounts /\ referrer[p] \in TokenAccounts
          /\ user_b \in TokenAccounts
        BY <1>1, DestinationFacts DEF ValidWithdrawal, Between
    <2>2. <<v, "B">> \in TokenAccounts
        BY TokenAccountFacts DEF Tokens
    <2> QED BY <1>4, <2>1, <2>2 DEF Fits, Transfer
<1> HIDE DEF a, b, c
<1> QED BY <1>1, <1>5, RowFits

\* So is the refund of a close, and what the admin takes.
LEMMA RefundFits ==
    ASSUME Between, NEW v \in Vaults, NEW p \in Positions,
           NEW i \in PeriodAccounts, NEW j \in PeriodAccounts, NEW expiry,
           NEW user_a \in PayoutAccounts, NEW user_b,
           NEW due, RefundingA(p, v, i, j, expiry, user_a, user_b, due)
    PROVE  AllFit(tx.calls)
<1> DEFINE refund == RefundOf(p, i, j)
           a == Transfer(<<v, "A">>, user_a, v, refund)
           b == NftCall("burn", p, tx.signer)
           c == NftCall("close", p, tx.signer)
<1>1. /\ WithdrawTokenADefined(i.period_id, j.period_id,
             position[p].number_of_swaps, position[p].periodic_drip_amount)
      /\ tx.calls = InRow(due, a, b, c)
    BY DEF RefundingA, CallsDueA
<1>2. refund \in Amount
    BY <1>1, RefundType DEF RefundOf, Between, TypeInv
<1>3. Fits(a) /\ Fits(b) /\ Fits(c)
    <2>1. user_a \in TokenAccounts /\ <<v, "A">> \in TokenAccounts
        BY DestinationFacts, TokenAccountFacts DEF Tokens
    <2> QED BY <1>2, <2>1 DEF Fits, Transfer, NftCall
<1> HIDE DEF a, b, c
<1> QED BY <1>1, <1>3, RowFits

\* The admin takes what the token account holds.
LEMMA EmptyingFits ==
    ASSUME Between, Emptying
    PROVE  AllFit(tx.calls)
<1>1. PICK v \in Vaults, token \in Tokens, destination \in PayoutAccounts :
         EmptyingAt(v, token, destination)
    BY DEF Emptying
<1>2. balance[v][token] \in Amount
    BY VaultParts DEF Between, TypeInv, Tokens
<1> DEFINE pay == Transfer(<<v, token>>, destination, v, balance[v][token])
<1>3. tx.calls = <<pay>> \/ tx.calls = <<>>
    BY <1>1 DEF EmptyingAt
<1>4. Fits(pay)
    <2>1. destination \in TokenAccounts /\ <<v, token>> \in TokenAccounts
        BY DestinationFacts, TokenAccountFacts
    <2> QED BY <1>2, <2>1 DEF Fits, Transfer
<1> HIDE DEF pay
<1> QED BY <1>3, <1>4 DEF AllFit

\* At every stage of every instruction.
LEMMA CallsFit ==
    ASSUME InstructionInv, tx # Idle
    PROVE  AllFit(tx.calls)
<1>1. Between /\ Underway
    BY DEF InstructionInv
<1>2. CASE Depositing
    BY <1>2, DepositFits
<1>3. CASE Dripping
    BY <1>1, <1>3, DripFits
<1>4. CASE WithdrawingB \/ ClosingB
    <2>1. PICK p \in Positions, v \in Vaults, i \in PeriodAccounts, j \in PeriodAccounts,
               user_b \in PayoutAccounts, due \in SUBSET (1 .. 3) :
            PayingB(p, v, i, j, user_b, due)
        BY <1>4 DEF WithdrawingB, ClosingB
    <2> QED BY <1>1, <2>1, PayingFits
<1>5. CASE ClosingA
    <2>1. PICK p \in Positions, v \in Vaults, i \in PeriodAccounts, j \in PeriodAccounts,
               expiry \in PeriodAccounts, user_a \in PayoutAccounts, user_b \in PayoutAccounts,
               due \in SUBSET (1 .. 3) :
            RefundingA(p, v, i, j, expiry, user_a, user_b, due)
        BY <1>5 DEF ClosingA
    <2> QED BY <1>1, <2>1, RefundFits
<1>6. CASE Emptying
    BY <1>1, <1>6, EmptyingFits
<1> QED BY <1>1, <1>2, <1>3, <1>4, <1>5, <1>6 DEF Underway

\* At every step inside an instruction the copies hold what their types can hold,
\* and so do the amounts about to be transferred.
THEOREM InstructionTypeCorrect == InstructionSpec => []InstructionTypeOK
<1>1. ASSUME InstructionInv
      PROVE  InstructionTypeOK
    <2>1. TypeOK /\ wallet \in [Wallets -> Amount] /\ nft_mint \in [Positions -> NftMintType]
          /\ referrer \in [Positions -> Destinations \cup {NoHolder}]
        BY <1>1 DEF InstructionInv, Between, TypeInv
    <2>2. tx # Idle => AllFit(tx.calls)
        BY <1>1, CallsFit
    <2> QED BY <1>1, <2>1, <2>2
            DEF InstructionInv, InstructionTypeOK, Underway, Copied, AllFit, Fits
<1> QED BY <1>1, InstructionInvariant, PTL

-----------------------------------------------------------------------------
(* Who is paid *)

\* What an instruction leaves in a token account is what is in it afterwards.
LEMMA HeldWritten ==
    ASSUME Exit, NEW x \in TokenAccounts
    PROVE  Held(x)' = tx.acc.amount[x]
<1>1. /\ balance' = [v \in Vaults |-> [t \in Tokens |-> tx.acc.amount[<<v, t>>]]]
      /\ wallet' = [w \in Wallets |-> tx.acc.amount[w]]
    BY DEF Exit
<1>2. Held(x)' = IF x \in Wallets THEN wallet'[x] ELSE balance'[x[1]][x[2]]
    BY DEF Held
<1>3. CASE x \in Wallets
    BY <1>1, <1>2, <1>3
<1>4. CASE x \notin Wallets
    <2>1. PICK v \in Vaults, t \in Tokens : x = <<v, t>>
        BY <1>4 DEF TokenAccounts, VaultAccounts
    <2>2. balance'[v][t] = tx.acc.amount[x]
        BY <1>1, <2>1
    <2>3. x[1] = v /\ x[2] = t
        BY <2>1
    <2> QED BY <1>2, <1>4, <2>2, <2>3
<1> QED BY <1>3, <1>4

\* The accounts change when an instruction ends, and otherwise only by what makes no
\* calls.
LEMMA OnlyEndsWrite ==
    ASSUME InstructionInv, [InstructionNext]_instruction
    PROVE  Between /\ (Unwritten \/ CallFree \/ (Underway /\ Exit))
<1>1. CASE StartStep
    BY <1>1, StartsUnderway DEF InstructionInv
<1>2. CASE CallStep
    BY <1>2, CallsContinue, IdleOrUnderway DEF InstructionInv
<1>3. CASE VerifySwap \/ RefundA \/ DropPosition
    BY <1>3, WorkContinues, IdleOrUnderway DEF InstructionInv
<1>4. CASE Exit
    BY <1>4, IdleOrUnderway DEF InstructionInv
<1>5. CASE Abort
    BY <1>5 DEF Abort, Unwritten, vars, InstructionInv
<1>6. CASE UNCHANGED instruction
    BY <1>6 DEF instruction, vars, Unwritten, InstructionInv
<1> QED BY <1>1, <1>2, <1>3, <1>4, <1>5, <1>6
        DEF InstructionNext, StartStep, CallStep, InstructionInv

\* A mint that no deposit has used is empty.
Unminted == \A p \in Positions : position[p].status = "none" => ~ (nft_mint[p].supply > 0)

\* What a step leaves of a position's NFT.
NftAfter(p) ==
    /\ nft_mint[p].supply > 0 =>
         IF ClosedByHolder(p)
         THEN nft_mint'[p].supply = 0 /\ nft_holder'[p] = NoHolder
         ELSE nft_mint'[p] = nft_mint[p] /\ nft_holder'[p] # NoHolder
    /\ position'[p].status = "none" => ~ (nft_mint'[p].supply > 0)

\* An NFT that a step leaves alone, with a position that it does not close.
LEMMA NftKept ==
    ASSUME Between, Unminted, NEW p \in Positions,
           nft_mint'[p] = nft_mint[p],
           nft_mint[p].supply > 0 => nft_holder'[p] # NoHolder,
           position[p].status = "open" /\ position'[p].status = "closed"
             => tx.signer # nft_holder[p],
           position'[p].status = "none" => position[p].status = "none"
    PROVE  NftAfter(p)
BY DEF NftAfter, ClosedByHolder, Unminted

\* Only a close by the holder burns an NFT, and such a close does.
LEMMA NftsAtEnd ==
    ASSUME Between, Unminted, Underway, Exit, NEW p \in Positions
    PROVE  NftAfter(p)
<1>1. /\ Shaped /\ Copied /\ tx.calls = <<>> /\ tx.then = "exit"
      /\ position' = tx.acc.position
      /\ nft_holder' = tx.acc.nft_holder /\ nft_mint' = tx.acc.nft_mint
    BY DEF Underway, Exit
<1>2. /\ position \in [Positions -> PositionType]
      /\ nft_holder \in [Positions -> Signers \cup {NoHolder}]
      /\ nft_mint \in [Positions -> NftMintType]
    BY DEF Between, TypeInv, TypeOK
<1>3. nft_mint[p].supply > 0 =>
        nft_mint[p] = [supply |-> 1, authority |-> NoAuthority] /\ nft_holder[p] # NoHolder
    BY DEF Between, NftsMintedOnce
<1>4. ASSUME nft_mint'[p] = nft_mint[p], nft_holder'[p] = nft_holder[p],
             position'[p].status = position[p].status
      PROVE  NftAfter(p)
    BY <1>3, <1>4, NftKept
<1>5. CASE Depositing
    <2>1. PICK q \in Positions, v \in Vaults, depositor \in Users, end \in PeriodAccounts,
               amount \in DepositAmounts, n \in SwapCounts, source \in Wallets,
               ref \in AccountsOfB :
            /\ DepositValid(q, v, end, amount, n)
            /\ DepositWritten(q, v, depositor, end, amount, n, ref)
            /\ DepositCalling(q, v, depositor, amount, source)
        BY <1>5 DEF Depositing
    <2>2. PICK holder, supply, authority :
            /\ tx.acc.nft_holder = [nft_holder EXCEPT ![q] = holder]
            /\ tx.acc.nft_mint =
                  [nft_mint EXCEPT ![q] = [supply |-> supply, authority |-> authority]]
        <3>1. PICK b, holder, supply, authority : DepositAt(q, b, holder, supply, authority)
            BY <2>1, Zenon DEF DepositCalling
        <3> QED BY <3>1 DEF DepositAt
    <2>3. position[q].status = "none"
        BY <2>1 DEF DepositValid, FreshMint
    <2>4. PICK new : new.status = "open" /\ position' = [position EXCEPT ![q] = new]
        BY <1>1, <2>1 DEF DepositWritten
    <2>5. CASE p = q
        <3>1. ~ (nft_mint[p].supply > 0)
            BY <2>3, <2>5 DEF Unminted
        <3>2. position'[p].status = "open"
            BY <1>2, <2>4, <2>5
        <3> QED BY <3>1, <3>2 DEF NftAfter
    <2>6. CASE p # q
        <3>1. /\ nft_mint'[p] = nft_mint[p] /\ nft_holder'[p] = nft_holder[p]
              /\ position'[p] = position[p]
            BY <1>1, <1>2, <2>2, <2>4, <2>6
        <3> QED BY <1>4, <3>1
    <2> QED BY <2>5, <2>6
<1>6. CASE Dripping
    <2>1. position' = position /\ nft_holder' = nft_holder /\ nft_mint' = nft_mint
        BY <1>1, <1>6 DEF Dripping, DripWritten
    <2> QED BY <1>4, <2>1
<1>7. CASE Emptying
    <2>1. position' = position /\ nft_holder' = nft_holder /\ nft_mint' = nft_mint
        BY <1>1, <1>7 DEF Emptying
    <2> QED BY <1>4, <2>1
<1>8. CASE WithdrawingB
    <2>1. PICK q \in Positions, v \in Vaults, i \in PeriodAccounts, j \in PeriodAccounts,
               user_b \in PayoutAccounts, due \in SUBSET (1 .. 3) :
             PayingB(q, v, i, j, user_b, due)
        BY <1>8 DEF WithdrawingB
    <2>2. PICK x : x = BeforeFees(q, v, i, j)
        OBVIOUS
    <2>3. nft_holder' = nft_holder /\ nft_mint' = nft_mint /\ WithdrawalWritten(q, x)
        BY <1>1, <2>1, <2>2 DEF PayingB
    <2>4. position'[p].status = position[p].status
        BY <1>1, <1>2, <2>3 DEF WithdrawalWritten, PositionType
    <2> QED BY <1>4, <2>3, <2>4
<1>9. CASE ClosingA
    <2>1. PICK q \in Positions, v \in Vaults, i \in PeriodAccounts, j \in PeriodAccounts,
               expiry \in PeriodAccounts, user_a \in PayoutAccounts, user_b \in PayoutAccounts,
               due \in SUBSET (1 .. 3) :
            /\ RefundingA(q, v, i, j, expiry, user_a, user_b, due)
            /\ ClosedWritten(q, BeforeFees(q, v, i, j))
        BY <1>1, <1>9 DEF ClosingA
    <2>2. PICK x : x = BeforeFees(q, v, i, j)
        OBVIOUS
    <2>3. position' = [position EXCEPT ![q].withdrawn_token_b_amount = @ + x,
                                       ![q].status = "closed"]
        BY <1>1, <2>1, <2>2 DEF ClosedWritten
    <2>4. tx.calls = CallsDueA(q, v, RefundOf(q, i, j), user_a, due)
          /\ NftWritten(q, due) /\ position[q].status = "open"
        BY <2>1 DEF RefundingA, ValidWithdrawal
    <2>5. 2 \notin due
        BY <1>1, <2>4, CallsInRow DEF CallsDueA
    <2>6. CASE p # q
        <3>1. position'[p] = position[p]
            BY <1>2, <2>3, <2>6
        <3>2. nft_mint'[p] = nft_mint[p] /\ nft_holder'[p] = nft_holder[p]
            BY <1>1, <1>2, <2>4, <2>6 DEF NftWritten
        <3> QED BY <1>4, <3>1, <3>2
    <2>7. CASE p = q /\ tx.signer = nft_holder[p]
        <3>1. position'[p].status = "closed" /\ position[p].status = "open"
            BY <1>2, <2>3, <2>4, <2>7 DEF PositionType
        <3>2. nft_holder' = [nft_holder EXCEPT ![p] = NoHolder]
              /\ nft_mint' = [nft_mint EXCEPT ![p].supply = @ - 1]
            BY <1>1, <2>4, <2>5, <2>7 DEF NftWritten
        <3>3. nft_mint[p].supply > 0 => nft_mint'[p].supply = 0 /\ nft_holder'[p] = NoHolder
            BY <1>2, <1>3, <3>2 DEF NftMintType
        <3> QED BY <2>7, <3>1, <3>3 DEF NftAfter, ClosedByHolder
    <2>8. CASE p = q /\ tx.signer # nft_holder[p]
        <3>1. position'[p].status = "closed"
            BY <1>2, <2>3, <2>8 DEF PositionType
        <3>2. nft_mint' = nft_mint /\ nft_holder' = nft_holder
            BY <1>1, <2>4, <2>8 DEF NftWritten
        <3> QED BY <1>3, <2>8, <3>1, <3>2, NftKept
    <2> QED BY <2>6, <2>7, <2>8
<1>10. ~ ClosingB
    BY <1>1, StageThen
<1> QED BY <1>5, <1>6, <1>7, <1>8, <1>9, <1>10 DEF Underway

\* What makes no calls burns no NFT, and moves it to a user's wallet at most.
LEMMA CallFreeNfts ==
    ASSUME Between, Unminted, CallFree, NEW p \in Positions
    PROVE  NftAfter(p)
<1>1. nft_mint' = nft_mint
    BY DEF CallFree
<1>2. nft_mint[p].supply > 0 => nft_holder'[p] # NoHolder
    <2>1. CASE \E q \in Positions, to \in Users : TransferNft(q, to)
        <3>1. PICK q \in Positions, to \in Users : nft_holder' = [nft_holder EXCEPT ![q] = to]
            BY <2>1 DEF TransferNft
        <3>2. to # NoHolder
            BY AddressAssumption
        <3>3. nft_holder'[p] \in {to, nft_holder[p]}
            BY <3>1 DEF Between, TypeInv, TypeOK
        <3> QED BY <3>2, <3>3 DEF Between, NftsMintedOnce
    <2>2. CASE ~ \E q \in Positions, to \in Users : TransferNft(q, to)
        <3>1. nft_holder' = nft_holder
            BY <2>2 DEF CallFree, InitVaultProtoConfig, InitVault, InitVaultPeriod,
                        SetVaultSwapWhitelist, ClosePositionAccount, Tick
        <3> QED BY <3>1 DEF Between, NftsMintedOnce
    <2> QED BY <2>1, <2>2
<1>3. position'[p] # position[p] =>
        position[p].status = "legacy" /\ position'[p].status = "closed"
    <2>1. CASE \E q \in Positions, v \in Vaults, admin \in Signers : ClosePositionAccount(q, v, admin)
        <3>1. PICK q \in Positions : /\ position[q].status = "legacy"
                                     /\ position' = [position EXCEPT ![q].status = "closed"]
            BY <2>1 DEF ClosePositionAccount
        <3> QED BY <3>1 DEF Between, TypeInv, TypeOK, PositionType
    <2>2. CASE ~ \E q \in Positions, v \in Vaults, admin \in Signers : ClosePositionAccount(q, v, admin)
        BY <2>2 DEF CallFree, InitVaultProtoConfig, InitVault, InitVaultPeriod,
                    SetVaultSwapWhitelist, TransferNft, Tick
    <2> QED BY <2>1, <2>2
<1> QED BY <1>1, <1>2, <1>3, NftKept

\* So after every step.
LEMMA NftsAfterStep ==
    ASSUME InstructionInv, Unminted, [InstructionNext]_instruction, NEW p \in Positions
    PROVE  NftAfter(p)
<1>1. Between /\ (Unwritten \/ CallFree \/ (Underway /\ Exit))
    BY OnlyEndsWrite
<1>2. CASE Unwritten
    <2>1. /\ nft_mint'[p] = nft_mint[p] /\ nft_holder'[p] = nft_holder[p]
          /\ position'[p] = position[p]
        BY <1>2 DEF Unwritten
    <2>2. nft_mint[p].supply > 0 => nft_holder[p] # NoHolder
        BY <1>1 DEF Between, NftsMintedOnce
    <2> QED BY <1>1, <2>1, <2>2, NftKept
<1> QED BY <1>1, <1>2, CallFreeNfts, NftsAtEnd

\* An NFT is gone exactly when the signer who holds it closes its position: no admin's
\* close burns it, and no close by its holder leaves it.
THEOREM NftGoneWithItsPosition == InstructionSpec => NftGoneWithPosition
<1>1. InstructionInit => Unminted
    BY DEF InstructionInit, Unminted
<1>2. InstructionInv /\ Unminted /\ [InstructionNext]_instruction => Unminted'
    BY NftsAfterStep DEF NftAfter, Unminted
<1>3. ASSUME InstructionInv, Unminted, [InstructionNext]_instruction,
             NEW p \in Positions, nft_mint[p].supply > 0
      PROVE  IF ClosedByHolder(p)
             THEN nft_mint'[p].supply = 0 /\ nft_holder'[p] = NoHolder
             ELSE nft_mint'[p] = nft_mint[p] /\ nft_holder'[p] # NoHolder
    BY <1>3, NftsAfterStep DEF NftAfter
<1>4. InstructionInv /\ Unminted /\ [InstructionNext]_instruction =>
        [\A p \in Positions : nft_mint[p].supply > 0 =>
           IF ClosedByHolder(p)
           THEN nft_mint'[p].supply = 0 /\ nft_holder'[p] = NoHolder
           ELSE nft_mint'[p] = nft_mint[p] /\ nft_holder'[p] # NoHolder]_instruction
    BY <1>3, Zenon
<1> QED BY <1>1, <1>2, <1>4, InstructionInvariant, PTL DEF InstructionSpec, NftGoneWithPosition

\* What has been paid for a position when an instruction that changes it ends: its
\* fees, and at a close to nobody else than to those MayClose has checked.
Settled(p, v, x, user_a, user_b) ==
    /\ v = position[p].vault
    /\ position'[p].withdrawn_token_b_amount = position[p].withdrawn_token_b_amount + x
    /\ FeesArrived(p, v, x, {})
    /\ position'[p].status = "closed" =>
         /\ MayClose(p, v, tx.signer, user_a, user_b)
         /\ Received({TreasuryOf[v], user_b, referrer[p], user_a})

\* Only a withdrawal and a close change a position in use.
LEMMA SettledAtEnd ==
    ASSUME Between, Underway, Exit, NEW p \in Positions, position[p].status = "open",
           position'[p] # position[p]
    PROVE  \E v \in Vaults, x \in Nat, user_a \in PayoutAccounts, user_b \in PayoutAccounts :
              Settled(p, v, x, user_a, user_b)
<1>1. Shaped /\ Copied /\ tx.calls = <<>> /\ tx.then = "exit" /\ position' = tx.acc.position
    BY DEF Underway, Exit
<1>2. position \in [Positions -> PositionType]
    BY DEF Between, TypeInv, TypeOK
<1>3. CASE Depositing
    <2>1. PICK q \in Positions, v \in Vaults, depositor \in Users, end \in PeriodAccounts,
               amount \in DepositAmounts, n \in SwapCounts, source \in Wallets,
               ref \in AccountsOfB :
            /\ DepositValid(q, v, end, amount, n)
            /\ DepositWritten(q, v, depositor, end, amount, n, ref)
        BY <1>3 DEF Depositing
    <2>2. q # p
        BY <2>1 DEF DepositValid, FreshMint
    <2>3. position'[p] = position[p]
        BY <1>1, <1>2, <2>1, <2>2 DEF DepositWritten
    <2> QED BY <2>3
<1>4. CASE Dripping
    <2>1. position' = position
        BY <1>1, <1>4 DEF Dripping, DripWritten
    <2> QED BY <2>1
<1>5. CASE Emptying
    <2>1. position' = position
        BY <1>1, <1>5 DEF Emptying
    <2> QED BY <2>1
<1>6. CASE WithdrawingB
    <2>1. PICK q \in Positions, v \in Vaults, i \in PeriodAccounts, j \in PeriodAccounts,
               user_b \in PayoutAccounts, due \in SUBSET (1 .. 3) :
             PayingB(q, v, i, j, user_b, due)
        BY <1>6 DEF WithdrawingB
    <2>2. PICK x : x = BeforeFees(q, v, i, j)
        OBVIOUS
    <2>3. ValidWithdrawal(q, v, i, j) /\ WithdrawalWritten(q, x)
        BY <2>1, <2>2 DEF PayingB
    <2>4. p = q
        BY <1>1, <1>2, <2>3 DEF WithdrawalWritten
    <2>5. x \in Nat /\ balance[v]["B"] \in Nat
        BY <2>2, <2>3, BeforeFeesType, VaultParts, CheckedAmounts DEF Between, TypeInv
    <2>6. FeesArrived(p, v, x, {})
        <3>1. FeesArrived(q, v, x, {})
            BY <1>1, <2>1, <2>2, PaidOut
        <3> QED BY <2>4, <3>1
    <2>7. /\ position'[p].withdrawn_token_b_amount = position[p].withdrawn_token_b_amount + x
          /\ position'[p].status # "closed"
        BY <1>1, <1>2, <2>3, <2>4 DEF WithdrawalWritten, PositionType
    <2>8. v = position[p].vault
        BY <2>3, <2>4 DEF ValidWithdrawal
    <2>9. Settled(p, v, x, user_b, user_b)
        BY <2>6, <2>7, <2>8 DEF Settled
    <2> QED BY <2>5, <2>9
<1>7. CASE ClosingA
    <2>1. PICK q \in Positions, v \in Vaults, i \in PeriodAccounts, j \in PeriodAccounts,
               expiry \in PeriodAccounts, user_a \in PayoutAccounts, user_b \in PayoutAccounts,
               due \in SUBSET (1 .. 3) :
            /\ CloseGiven(q, v, i, j, expiry, user_a, user_b)
            /\ RefundingA(q, v, i, j, expiry, user_a, user_b, due)
            /\ ClosedWritten(q, BeforeFees(q, v, i, j))
        BY <1>1, <1>7 DEF ClosingA
    <2>2. PICK x : x = BeforeFees(q, v, i, j)
        OBVIOUS
    <2>3. /\ ValidWithdrawal(q, v, i, j)
          /\ FeesArrived(q, v, x, {})
          /\ Received({TreasuryOf[v], user_b, referrer[q], user_a})
          /\ MayClose(q, v, tx.signer, user_a, user_b)
        BY <2>1, <2>2 DEF RefundingA, CloseGiven
    <2>4. x \in Nat
        BY <2>2, <2>3, BeforeFeesType DEF Between
    <2>5. position' = [position EXCEPT ![q].withdrawn_token_b_amount = @ + x,
                                       ![q].status = "closed"]
        BY <1>1, <2>1, <2>2 DEF ClosedWritten
    <2>6. p = q
        BY <1>2, <2>5
    <2>7. position'[p].withdrawn_token_b_amount = position[p].withdrawn_token_b_amount + x
        BY <1>2, <2>5, <2>6 DEF PositionType
    <2>8. v = position[p].vault
        BY <2>3, <2>6 DEF ValidWithdrawal
    <2>9. Settled(p, v, x, user_a, user_b)
        BY <2>3, <2>6, <2>7, <2>8 DEF Settled
    <2> QED BY <2>4, <2>9
<1>8. ~ ClosingB
    BY <1>1, StageThen
<1> QED BY <1>3, <1>4, <1>5, <1>6, <1>7, <1>8 DEF Underway

\* What makes no calls withdraws nothing and closes nothing in use.
LEMMA CallFreePositions ==
    ASSUME Between, CallFree, NEW p \in Positions, position[p].status = "open"
    PROVE  position'[p] = position[p]
<1>1. CASE \E q \in Positions, v \in Vaults, admin \in Signers : ClosePositionAccount(q, v, admin)
    <2>1. PICK q \in Positions, v \in Vaults, admin \in Signers : ClosePositionAccount(q, v, admin)
        BY <1>1
    <2>2. q # p /\ position' = [position EXCEPT ![q].status = "closed"]
        BY <2>1 DEF ClosePositionAccount
    <2> QED BY <2>2 DEF Between, TypeInv, TypeOK
<1>2. CASE ~ \E q \in Positions, v \in Vaults, admin \in Signers : ClosePositionAccount(q, v, admin)
    BY <1>2 DEF CallFree, InitVaultProtoConfig, InitVault, InitVaultPeriod,
                SetVaultSwapWhitelist, TransferNft, Tick
<1> QED BY <1>1, <1>2

\* A position in use changes only by a step that settles it.
LEMMA PositionSettled ==
    ASSUME InstructionInv, [InstructionNext]_instruction,
           NEW p \in Positions, position[p].status = "open", position'[p] # position[p]
    PROVE  /\ Exit
           /\ \E v \in Vaults, x \in Nat, user_a \in PayoutAccounts, user_b \in PayoutAccounts :
                 Settled(p, v, x, user_a, user_b)
<1>1. Between /\ (Unwritten \/ CallFree \/ (Underway /\ Exit))
    BY OnlyEndsWrite
<1>2. ~ Unwritten
    BY DEF Unwritten
<1>3. ~ CallFree
    BY <1>1, CallFreePositions
<1> QED BY <1>1, <1>2, <1>3, SettledAtEnd

\* Whatever a position withdraws, the treasury of its vault and its referrer have
\* received their shares of it when the instruction ends, both where they are the same
\* account.
THEOREM FeesArePaid == InstructionSpec => FeesPaid
<1>1. ASSUME InstructionInv, [InstructionNext]_instruction, NEW p \in Positions,
             position[p].status = "open",
             NEW taken, taken = position'[p].withdrawn_token_b_amount
                                  - position[p].withdrawn_token_b_amount,
             taken > 0, NEW v, v = position[p].vault,
             NEW x \in {TreasuryOf[v], referrer[p]} \ {<<v, "B">>}
      PROVE  Held(x)' - Held(x)
               >= (IF x = TreasuryOf[v] THEN TreasuryShare(v, taken) ELSE 0)
                    + (IF x = referrer[p] THEN ReferrerShare(v, taken) ELSE 0)
    <2>1. position[p].withdrawn_token_b_amount \in Nat /\ v = position[p].vault
        BY <1>1, PositionParts DEF InstructionInv, Between, TypeInv
    <2>2. position'[p] # position[p]
        BY <1>1, <2>1
    <2>3. PICK y \in Nat, user_a \in PayoutAccounts, user_b \in PayoutAccounts :
             Exit /\ v \in Vaults /\ Settled(p, v, y, user_a, user_b)
        BY <1>1, <2>2, PositionSettled DEF Settled
    <2>4. taken = y
        BY <1>1, <2>1, <2>3 DEF Settled
    <2>5. x \in TokenAccounts
        BY <1>1, <2>3, DestinationFacts DEF InstructionInv, Between
    <2>6. Held(x)' = tx.acc.amount[x]
        BY <2>3, <2>5, HeldWritten
    <2>7. tx.acc.amount[x] - Held(x)
            >= (IF x = TreasuryOf[v] THEN TreasuryShare(v, y) ELSE 0)
                 + (IF x = referrer[p] THEN ReferrerShare(v, y) ELSE 0)
        BY <1>1, <2>3 DEF Settled, FeesArrived
    <2> QED BY <2>4, <2>6, <2>7
<1>2. InstructionInv /\ [InstructionNext]_instruction =>
        [\A p \in Positions :
         LET v == position[p].vault
             taken == position'[p].withdrawn_token_b_amount
                        - position[p].withdrawn_token_b_amount
             share(x) == (IF x = TreasuryOf[v] THEN TreasuryShare(v, taken) ELSE 0)
                           + (IF x = referrer[p] THEN ReferrerShare(v, taken) ELSE 0)
         IN  position[p].status = "open" /\ taken > 0 =>
               \A x \in {TreasuryOf[v], referrer[p]} \ {<<v, "B">>} :
                   Held(x)' - Held(x) >= share(x)]_instruction
    BY <1>1, Zenon
<1> QED BY <1>2, InstructionInvariant, PTL DEF InstructionSpec, FeesPaid

\* When someone else than its holder closes a position, no token account but the
\* holder's, the treasury's and the referrer's receives anything.
THEOREM PayoutsReachTheHolder == InstructionSpec => PayoutsReachHolder
<1>1. ASSUME InstructionInv, [InstructionNext]_instruction, NEW p \in Positions,
             position[p].status = "open", position'[p].status = "closed",
             tx.signer # nft_holder[p], NEW x \in TokenAccounts, Held(x)' > Held(x)
      PROVE  \/ OwnerOf(x) = nft_holder[p]
             \/ x \in {TreasuryOf[position[p].vault], referrer[p]}
    <2>1. position'[p] # position[p]
        BY <1>1
    <2>2. PICK v \in Vaults, n \in Nat, user_a \in PayoutAccounts, user_b \in PayoutAccounts :
             Exit /\ Settled(p, v, n, user_a, user_b)
        BY <1>1, <2>1, PositionSettled
    <2>3. /\ v = position[p].vault
          /\ MayClose(p, v, tx.signer, user_a, user_b)
          /\ Received({TreasuryOf[v], user_b, referrer[p], user_a})
        BY <1>1, <2>2 DEF Settled
    <2>4. OwnerOf(user_a) = nft_holder[p] /\ OwnerOf(user_b) = nft_holder[p]
        BY <1>1, <2>3 DEF MayClose
    <2>5. x \in {TreasuryOf[v], user_b, referrer[p], user_a}
        BY <1>1, <2>2, <2>3, HeldWritten DEF Received
    <2> QED BY <2>3, <2>4, <2>5
<1>2. InstructionInv /\ [InstructionNext]_instruction =>
        [\A p \in Positions :
         position[p].status = "open" /\ position'[p].status = "closed"
           /\ tx.signer # nft_holder[p] =>
             \A x \in TokenAccounts : Held(x)' > Held(x) =>
                 \/ OwnerOf(x) = nft_holder[p]
                 \/ x \in {TreasuryOf[position[p].vault], referrer[p]}]_instruction
    BY <1>1, Zenon
<1> QED BY <1>2, InstructionInvariant, PTL DEF InstructionSpec, PayoutsReachHolder

\* A drip's end: the one vault it drips, and the pool it swapped with.
LEMMA DrippedAtEnd ==
    ASSUME Between, Underway, Exit, NEW v \in Vaults,
           vault'[v].last_drip_period # vault[v].last_drip_period
    PROVE  \E s \in Swaps : /\ SwapAllowed(v, s)
                            /\ \A w \in Wallets : wallet'[w] < wallet[w] => WalletOwner[w] = s
<1>1. /\ tx.calls = <<>> /\ tx.then = "exit" /\ vault' = tx.acc.vault
      /\ \A w \in Wallets : wallet'[w] = tx.acc.amount[w]
    BY DEF Exit
<1>2. vault \in [Vaults -> VaultType]
    BY DEF Between, TypeInv, TypeOK
<1>3. ASSUME NEW u \in Vaults, NEW d, vault' = [vault EXCEPT ![u].drip_amount = d]
      PROVE  FALSE
    BY <1>2, <1>3 DEF VaultType
<1>4. ~ Depositing
    <2> SUFFICES ASSUME Depositing
                 PROVE  FALSE
        OBVIOUS
    <2>1. PICK p \in Positions, u \in Vaults, depositor \in Users, end \in PeriodAccounts,
               amount \in DepositAmounts, n \in SwapCounts, source \in Wallets,
               ref \in AccountsOfB : DepositWritten(p, u, depositor, end, amount, n, ref)
        BY DEF Depositing
    <2> DEFINE d == vault[u].drip_amount + PeriodicDripAmount(amount, n)
    <2>2. vault' = [vault EXCEPT ![u].drip_amount = d]
        BY <1>1, <2>1 DEF DepositWritten
    <2> HIDE DEF d
    <2> QED BY <1>3, <2>2
<1>5. ~ ClosingA
    <2> SUFFICES ASSUME ClosingA
                 PROVE  FALSE
        OBVIOUS
    <2>1. PICK p \in Positions, u \in Vaults, i \in PeriodAccounts, j \in PeriodAccounts,
               expiry \in PeriodAccounts, user_a \in PayoutAccounts, user_b \in PayoutAccounts,
               due \in SUBSET (1 .. 3) :
             RefundingA(p, u, i, j, expiry, user_a, user_b, due)
        BY DEF ClosingA
    <2> DEFINE d == vault[u].drip_amount - position[p].periodic_drip_amount
    <2>2. vault' = [vault EXCEPT ![u].drip_amount = d] \/ vault' = vault
        BY <1>1, <2>1 DEF RefundingA, ReductionWritten
    <2> HIDE DEF d
    <2> QED BY <1>3, <2>2
<1>6. ~ WithdrawingB /\ ~ Emptying /\ ~ ClosingB
    <2>1. ASSUME NEW p, NEW u, NEW i, NEW j, NEW user_b, NEW due,
                 PayingB(p, u, i, j, user_b, due)
          PROVE  FALSE
        BY <1>1, <2>1 DEF PayingB
    <2>2. ~ WithdrawingB
        BY <2>1, Zenon DEF WithdrawingB
    <2>3. ~ Emptying
        BY <1>1 DEF Emptying
    <2> QED BY <1>1, <2>2, <2>3, StageThen
<1>7. PICK u \in Vaults, last \in PeriodAccounts, current \in PeriodAccounts,
           s \in Swaps \cup {DefaultKey} :
        /\ DripValid(u, last, current, s)
        /\ DripWritten(u, current)
        /\ DripCalling(u, last, current, s)
    BY <1>4, <1>5, <1>6 DEF Underway, Dripping
<1>8. u = v
    BY <1>1, <1>2, <1>7 DEF DripWritten
<1>9. s \in Swaps /\ \A w \in Wallets : tx.acc.amount[w] < wallet[w] => WalletOwner[w] = s
    BY <1>1, <1>7 DEF DripCalling
<1> QED BY <1>1, <1>7, <1>8, <1>9 DEF DripValid

\* A vault that limits its swaps trades with the pools on its list and no other.
THEOREM ListedPoolsOnly == InstructionSpec => OnlyListedPoolsTrade
<1>1. ASSUME InstructionInv, [InstructionNext]_instruction, NEW v \in Vaults, NEW s \in Swaps,
             vault'[v].last_drip_period # vault[v].last_drip_period,
             NEW w \in Wallets, WalletOwner[w] = s, wallet'[w] < wallet[w]
      PROVE  \/ ~ vault[v].limit_swaps
             \/ \E slot \in 1 .. WhitelistSize : vault[v].whitelisted_swaps[slot] = s
    <2>1. Between /\ (Unwritten \/ CallFree \/ (Underway /\ Exit))
        BY <1>1, OnlyEndsWrite
    <2>2. wallet[w] \in Nat
        BY <2>1, CheckedAmounts DEF Between
    <2>3. ~ Unwritten /\ ~ CallFree
        BY <1>1, <2>2 DEF Unwritten, CallFree
    <2>4. PICK t \in Swaps : /\ SwapAllowed(v, t)
                             /\ \A u \in Wallets : wallet'[u] < wallet[u] => WalletOwner[u] = t
        BY <1>1, <2>1, <2>3, DrippedAtEnd
    <2> QED BY <1>1, <2>4 DEF SwapAllowed
<1>2. InstructionInv /\ [InstructionNext]_instruction =>
        [\A v \in Vaults, s \in Swaps :
         /\ vault'[v].last_drip_period # vault[v].last_drip_period
         /\ \E w \in Wallets : WalletOwner[w] = s /\ wallet'[w] < wallet[w]
         => \/ ~ vault[v].limit_swaps
            \/ \E slot \in 1 .. WhitelistSize :
                  vault[v].whitelisted_swaps[slot] = s]_instruction
    BY <1>1, Zenon
<1> QED BY <1>2, InstructionInvariant, PTL DEF InstructionSpec, OnlyListedPoolsTrade

-----------------------------------------------------------------------------
(* What there is of each mint *)

\* The token accounts, listed one by one.
Listing(account, n) ==
    /\ n \in Nat
    /\ account \in [1 .. n -> TokenAccounts]
    /\ \A x \in TokenAccounts : \E k \in 1 .. n : account[k] = x
    /\ \A k, l \in 1 .. n : account[k] = account[l] => k = l

\* What those of one mint hold, and all they hold together.
Holdings(account, n, t, amount) ==
    [k \in 1 .. n |-> IF TokenOf(account[k]) = t THEN amount[account[k]] ELSE 0]
Supply(account, n, t, amount) == SumTo(Holdings(account, n, t, amount), n)

\* An account of a mint holds of that mint alone.
LEMMA HoldingsType ==
    ASSUME NEW n, NEW account, Listing(account, n), NEW t,
           NEW amount \in [TokenAccounts -> Amount]
    PROVE  /\ Holdings(account, n, t, amount) \in [1 .. n -> Nat]
           /\ Holdings(account, n, t, amount) \in [1 .. n -> Int]
           /\ \A k \in 1 .. n : Holdings(account, n, t, amount)[k] =
                IF TokenOf(account[k]) = t THEN amount[account[k]] ELSE 0
<1>1. \A k \in 1 .. n : account[k] \in TokenAccounts
    BY DEF Listing
<1>2. \A x \in TokenAccounts : amount[x] \in Nat
    BY CheckedAmounts
<1> QED BY <1>1, <1>2 DEF Holdings

\* Two accounts of one mint hold no more together than there is of it.
LEMMA TwoWithinSupply ==
    ASSUME NEW n, NEW account, Listing(account, n), NEW t,
           NEW amount \in [TokenAccounts -> Amount],
           NEW x \in TokenAccounts, NEW y \in TokenAccounts, x # y,
           TokenOf(x) = t, TokenOf(y) = t
    PROVE  amount[x] + amount[y] <= Supply(account, n, t, amount)
<1>1. PICK k \in 1 .. n : account[k] = x
    BY DEF Listing
<1>2. PICK l \in 1 .. n : account[l] = y
    BY DEF Listing
<1> DEFINE f == Holdings(account, n, t, amount)
<1>3. f \in [1 .. n -> Nat] /\ f[k] = amount[x] /\ f[l] = amount[y]
    BY <1>1, <1>2, HoldingsType
<1>4. n \in Nat /\ k # l
    BY <1>1, <1>2 DEF Listing
<1> HIDE DEF f
<1>5. f[k] + f[l] <= SumTo(f, n)
    BY <1>3, <1>4, SumBoundsTwo
<1> QED BY <1>3, <1>5 DEF Supply, f

\* What one account gains or loses, its mint gains or loses.
LEMMA OneAmountChanges ==
    ASSUME NEW n, NEW account, Listing(account, n), NEW t,
           NEW before \in [TokenAccounts -> Amount], NEW after \in [TokenAccounts -> Amount],
           NEW x \in TokenAccounts, \A y \in TokenAccounts : y # x => after[y] = before[y]
    PROVE  Supply(account, n, t, after) = Supply(account, n, t, before)
               + (IF TokenOf(x) = t THEN after[x] - before[x] ELSE 0)
<1>1. PICK k \in 1 .. n : account[k] = x
    BY DEF Listing
<1> DEFINE f == Holdings(account, n, t, before)
           g == Holdings(account, n, t, after)
<1>2. /\ f \in [1 .. n -> Int] /\ g \in [1 .. n -> Int]
      /\ \A l \in 1 .. n : f[l] = IF TokenOf(account[l]) = t THEN before[account[l]] ELSE 0
      /\ \A l \in 1 .. n : g[l] = IF TokenOf(account[l]) = t THEN after[account[l]] ELSE 0
    BY HoldingsType
<1>3. n \in Nat /\ \A l \in 1 .. n : account[l] \in TokenAccounts /\ (l # k => account[l] # x)
    BY <1>1 DEF Listing
<1> HIDE DEF f, g
<1>4. \A l \in 1 .. n : l # k => g[l] = f[l]
    BY <1>2, <1>3
<1>5. SumTo(g, n) = SumTo(f, n) + (g[k] - f[k])
    BY <1>2, <1>3, <1>4, SumUpdate
<1>6. g[k] - f[k] = IF TokenOf(x) = t THEN after[x] - before[x] ELSE 0
    BY <1>1, <1>2
<1> QED BY <1>5, <1>6 DEF Supply, f, g

\* So a transfer between two accounts of one mint leaves every mint as it was, and so
\* does one from an account to itself.
LEMMA SupplyMoved ==
    ASSUME NEW n, NEW account, Listing(account, n), NEW t,
           NEW amount \in [TokenAccounts -> Amount],
           NEW from \in TokenAccounts, NEW to \in TokenAccounts,
           TokenOf(from) = TokenOf(to),
           NEW m \in Nat, m <= amount[from], to # from => amount[to] + m < Two64
    PROVE  Supply(account, n, t, Moved(amount, from, to, m)) = Supply(account, n, t, amount)
<1> DEFINE taken == [amount EXCEPT ![from] = @ - m]
           after == Moved(amount, from, to, m)
<1>1. amount[from] \in Nat /\ amount[to] \in Nat /\ amount[from] - m \in Amount
    BY CheckedAmounts
<1>2. /\ taken \in [TokenAccounts -> Amount]
      /\ taken[from] = amount[from] - m
      /\ \A x \in TokenAccounts : x # from => taken[x] = amount[x]
    BY <1>1
<1>3. /\ after \in [TokenAccounts -> Amount]
      /\ \A x \in TokenAccounts : after[x] = amount[x] - (IF x = from THEN m ELSE 0)
                                                 + (IF x = to THEN m ELSE 0)
    BY MovedInFull
<1> HIDE DEF taken, after
<1>4. Supply(account, n, t, taken) = Supply(account, n, t, amount)
          + (IF TokenOf(from) = t THEN taken[from] - amount[from] ELSE 0)
    BY <1>2, OneAmountChanges
<1>5. Supply(account, n, t, after) = Supply(account, n, t, taken)
          + (IF TokenOf(to) = t THEN after[to] - taken[to] ELSE 0)
    <2>1. \A x \in TokenAccounts : amount[x] \in Nat
        BY CheckedAmounts
    <2>2. \A x \in TokenAccounts : x # to => after[x] = taken[x]
        BY <1>2, <1>3, <2>1
    <2> QED BY <1>2, <1>3, <2>2, OneAmountChanges
<1>6. Supply(account, n, t, amount) \in Int
    <2>1. n \in Nat /\ Holdings(account, n, t, amount) \in [1 .. n -> Int]
        BY HoldingsType DEF Listing
    <2> QED BY <2>1, SumInt DEF Supply
<1>7. taken[from] - amount[from] = 0 - m /\ after[to] - taken[to] = m
    BY <1>1, <1>2, <1>3
<1>8. Supply(account, n, t, after) = Supply(account, n, t, amount)
    BY <1>4, <1>5, <1>6, <1>7
<1> QED BY <1>8 DEF after

\* What there is of each mint fits a u64: a mint keeps its supply in one.
SupplyFits(account, n) ==
    /\ \A t \in Tokens : Supply(account, n, t, Accounts.amount) < Two64
    /\ tx # Idle => \A t \in Tokens : Supply(account, n, t, tx.acc.amount) < Two64

\* An instruction starts on the amounts in the accounts.
LEMMA StartedAmounts ==
    ASSUME NEW ix, NEW signer, NEW v, NEW given, NEW acc, NEW calls, NEW then,
           Started(ix, signer, v, given, acc, calls, then), acc.amount = Accounts.amount
    PROVE  tx'.acc.amount = Accounts.amount
<1>1. tx' = [ix |-> ix, signer |-> signer, v |-> v, given |-> given, acc |-> acc,
             calls |-> calls, then |-> then]
    BY DEF Started
<1> QED BY <1>1

\* Which of the five it is makes no difference.
LEMMA StartCopiesAmounts ==
    ASSUME StartStep
    PROVE  tx'.acc.amount = Accounts.amount
<1>1. CASE StartDepositStep
    <2>1. PICK p \in Positions, v \in Vaults, depositor \in Users, n \in SwapCounts,
               amount \in DepositAmounts, end \in PeriodAccounts, source \in Wallets,
               ref \in PayoutAccounts, with_metadata \in BOOLEAN :
             StartDeposit(p, v, depositor, end, amount, n, source, ref, with_metadata)
        BY <1>1 DEF StartDepositStep
    <2> DEFINE acc == WithDeposit(Accounts, p, v, depositor, end, amount, n, ref)
               calls == DepositCalls(p, v, depositor, amount, source, with_metadata)
               given == [mint |-> p, depositor |-> depositor]
    <2>2. Started("deposit", depositor, v, given, acc, calls, "exit")
        BY <2>1 DEF StartDeposit
    <2>3. acc.amount = Accounts.amount
        BY DEF WithDeposit, Accounts
    <2> HIDE DEF acc, calls, given
    <2> QED BY <2>2, <2>3, StartedAmounts
<1>2. CASE StartDripStep
    <2>1. PICK v \in Vaults, last \in PeriodAccounts, current \in PeriodAccounts,
               swap \in Swaps \cup {DefaultKey}, swap_a \in Wallets, swap_b \in Wallets,
               fee \in PayoutAccounts : StartDrip(v, last, current, swap, swap_a, swap_b, fee)
        BY <1>2 DEF StartDripStep
    <2> DEFINE acc == [Accounts EXCEPT
                         !.vault[v].drip_amount = @ - Data(current).dar,
                         !.vault[v].last_drip_period = current.period_id,
                         !.vault[v].drip_activation_timestamp =
                             ActivationTimestamp(now, Config(v).granularity, TRUE)]
    <2>2. PICK given, calls : Started("drip", NoHolder, v, given, acc, calls, "verify")
        BY <2>1 DEF StartDrip
    <2>3. acc.amount = Accounts.amount
        BY DEF Accounts
    <2> HIDE DEF acc
    <2> QED BY <2>2, <2>3, StartedAmounts
<1>3. CASE StartWithdrawBStep \/ StartClosePositionStep
    <2>1. ASSUME NEW ix, NEW p, NEW v, NEW withdrawer, NEW i, NEW j, NEW given,
                 NEW user_b, NEW then,
                 StartedWithdrawing(ix, p, v, withdrawer, i, j, given, user_b, then)
          PROVE  tx'.acc.amount = Accounts.amount
        <3> DEFINE x == BeforeFees(p, v, i, j)
                   acc == [Accounts EXCEPT !.position[p].withdrawn_token_b_amount = @ + x]
                   calls == WithdrawBCalls(p, v, x, user_b)
        <3>1. Started(ix, withdrawer, v, given, acc, calls, then)
            BY <2>1 DEF StartedWithdrawing
        <3>2. acc.amount = Accounts.amount
            BY DEF Accounts
        <3> HIDE DEF acc, calls, x
        <3> QED BY <3>1, <3>2, StartedAmounts
    <2>2. CASE StartWithdrawBStep
        <3>1. PICK p \in Positions, v \in Vaults, withdrawer \in Signers,
                   i \in PeriodAccounts, j \in PeriodAccounts, user_b \in PayoutAccounts :
                 StartWithdrawB(p, v, withdrawer, i, j, user_b)
            BY <2>2 DEF StartWithdrawBStep
        <3>2. StartedWithdrawing("withdraw_b", p, v, withdrawer, i, j, [mint |-> p],
                                 user_b, "exit")
            BY <3>1 DEF StartWithdrawB
        <3> QED BY <2>1, <3>2
    <2>3. CASE StartClosePositionStep
        <3>1. PICK p \in Positions, v \in Vaults, withdrawer \in Signers,
                   i \in PeriodAccounts, j \in PeriodAccounts, expiry \in PeriodAccounts,
                   user_a \in PayoutAccounts, user_b \in PayoutAccounts :
                 StartClosePosition(p, v, withdrawer, i, j, expiry, user_a, user_b)
            BY <2>3 DEF StartClosePositionStep
        <3>2. StartedWithdrawing("close_position", p, v, withdrawer, i, j,
                 [mint |-> p, i |-> i, j |-> j, expiry |-> expiry, user_a |-> user_a],
                 user_b, "refund")
            BY <3>1 DEF StartClosePosition
        <3> QED BY <2>1, <3>2
    <2> QED BY <1>3, <2>2, <2>3
<1>4. CASE StartAdminStep
    <2>1. PICK v \in Vaults, admin \in Signers, destination \in PayoutAccounts :
             \/ StartWithdrawA(v, admin, destination)
             \/ \E token \in Tokens : StartAdminWithdraw(v, admin, token, destination)
        BY <1>4 DEF StartAdminStep
    <2>2. PICK ix \in {"withdraw_a", "admin_withdraw"}, token \in Tokens :
             StartedEmptying(ix, v, admin, token, destination)
        BY <2>1 DEF StartWithdrawA, StartAdminWithdraw, Tokens
    <2>3. PICK given, calls : Started(ix, admin, v, given, Accounts, calls, "exit")
        BY <2>2 DEF StartedEmptying
    <2> QED BY <2>3, StartedAmounts
<1> QED BY <1>1, <1>2, <1>3, <1>4 DEF StartStep

\* The work between the calls moves no tokens.
LEMMA WorkMovesNothing ==
    ASSUME Shaped, VerifySwap \/ RefundA \/ DropPosition
    PROVE  tx'.acc.amount = tx.acc.amount
<1>1. CASE VerifySwap
    <2> DEFINE current == tx.given.current
               a == current.vault
               k == current.period_id
    <2>1. PICK twap : tx' = [tx EXCEPT !.acc.vault_period[a][k].twap = twap,
                                       !.acc.vault_period[a][k].drip_timestamp = now,
                                       !.then = "exit"]
        <3> DEFINE received_b == Reloaded("B") - tx.given.balance["B"]
                   price      == ComputePrice(received_b, tx.given.swap_amount)
                   last       == tx.given.last
                   twap == NewTwap(tx.acc.vault_period[last.vault][last.period_id].twap,
                                   current.period_id, price)
        <3>1. tx' = [tx EXCEPT !.acc.vault_period[a][k].twap = twap,
                               !.acc.vault_period[a][k].drip_timestamp = now,
                               !.then = "exit"]
            BY <1>1 DEF VerifySwap
        <3> HIDE DEF twap, a, k
        <3> QED BY <3>1
    <2> HIDE DEF a, k
    <2> QED BY <2>1 DEF Shaped
<1>2. CASE RefundA
    <2>1. PICK acc, calls : /\ acc.amount = tx.acc.amount
                            /\ tx' = [tx EXCEPT !.acc = acc, !.calls = calls, !.then = "close"]
        <3> DEFINE v == tx.v
                   expiry == tx.given.expiry
                   terms  == tx.acc.position[tx.given.mint]
                   reduced == [tx.acc EXCEPT
                      !.vault[v].drip_amount = @ - terms.periodic_drip_amount,
                      !.vault_period[expiry.vault][expiry.period_id].dar =
                          @ - terms.periodic_drip_amount]
        <3>1. reduced.amount = tx.acc.amount
            BY DEF Shaped
        <3>2. PICK calls : \/ tx' = [tx EXCEPT !.acc = reduced, !.calls = calls, !.then = "close"]
                           \/ tx' = [tx EXCEPT !.acc = tx.acc, !.calls = calls, !.then = "close"]
            BY <1>2 DEF RefundA
        <3> HIDE DEF reduced
        <3> QED BY <3>1, <3>2
    <2> QED BY <2>1 DEF Shaped
<1>3. CASE DropPosition
    <2> DEFINE p == tx.given.mint
    <2>1. PICK acc : /\ acc = [tx.acc EXCEPT !.position[p].status = "closed"]
                     /\ tx' = [tx EXCEPT !.acc = acc, !.then = "exit"]
        BY <1>3 DEF DropPosition
    <2> HIDE DEF p
    <2>2. acc.amount = tx.acc.amount /\ tx'.acc = acc
        BY <2>1 DEF Shaped
    <2> QED BY <2>2
<1> QED BY <1>1, <1>2, <1>3

\* What an instruction leaves in the token accounts is what is in them afterwards.
LEMMA ExitWritesAmounts ==
    ASSUME Copied, Exit
    PROVE  Accounts'.amount = tx.acc.amount
<1> DEFINE after == Accounts'.amount
<1>1. after = [x \in TokenAccounts |-> Held(x)']
    BY DEF Accounts
<1> HIDE DEF after
<1>2. tx.acc.amount \in [TokenAccounts -> Amount]
    BY DEF Copied
<1>3. after = tx.acc.amount
    BY <1>1, <1>2, HeldWritten
<1> QED BY <1>3 DEF after

\* Nor do the instructions without calls move any.
LEMMA CallFreeMovesNothing ==
    ASSUME CallFree
    PROVE  UNCHANGED <<balance, wallet>>
BY DEF CallFree, InitVaultProtoConfig, InitVault, InitVaultPeriod, SetVaultSwapWhitelist,
       ClosePositionAccount, TransferNft, Tick

\* No step makes or destroys tokens, whatever its transfers and swaps move between
\* whom.
LEMMA SupplyKept ==
    ASSUME NEW n, NEW account, Listing(account, n),
           InstructionInv, [InstructionNext]_instruction, SupplyFits(account, n)
    PROVE  SupplyFits(account, n)'
<1>1. Between /\ (tx # Idle => Underway)
    BY DEF InstructionInv
<1>2. ASSUME UNCHANGED <<balance, wallet>>
      PROVE  Accounts'.amount = Accounts.amount
    BY <1>2 DEF Accounts, Held
<1>3. CASE StartStep
    <2>1. UNCHANGED <<balance, wallet>>
        BY <1>1, <1>3, StartsUnderway DEF Unwritten
    <2> QED BY <1>2, <1>3, <2>1, StartCopiesAmounts DEF SupplyFits
<1>4. CASE CallStep
    <2>1. Shaped /\ Copied /\ tx # Idle /\ AllFit(tx.calls) /\ tx.calls # <<>>
        BY <1>1, <1>4, IdleOrUnderway, CallReturns, CallsFit DEF Underway
    <2>2. Fits(NextCall)
        BY <2>1 DEF AllFit, NextCall
    <2>3. UNCHANGED <<balance, wallet>>
        BY <1>4, <2>1, CallReturns DEF Inside, Unwritten
    <2>4. ASSUME NEW t \in Tokens
          PROVE  Supply(account, n, t, tx'.acc.amount) = Supply(account, n, t, tx.acc.amount)
        <3>1. tx.acc.amount \in [TokenAccounts -> Amount]
            BY <2>1 DEF Copied
        <3>2. CASE NextCall.kind = "transfer"
            <4> DEFINE from == NextCall.from
                       to == NextCall.to
                       m == NextCall.amount
            <4>1. from \in TokenAccounts /\ to \in TokenAccounts /\ m \in Nat
                BY <2>2, <3>2, CheckedAmounts DEF Fits
            <4>2. /\ TokenOf(from) = TokenOf(to)
                  /\ m <= tx.acc.amount[from]
                  /\ to # from => tx.acc.amount[to] + m < Two64
                  /\ tx'.acc.amount = Moved(tx.acc.amount, from, to, m)
                BY <1>4, <2>1, <3>2, TransferEffect DEF TransferOk
            <4> HIDE DEF from, to, m
            <4> QED BY <3>1, <4>1, <4>2, SupplyMoved
        <3>3. CASE NextCall.kind = "swap"
            <4> DEFINE a == NextCall.source
                       b == NextCall.destination
                       ps == NextCall.pool_source
                       pd == NextCall.pool_destination
            <4>1. PICK taken \in 0 .. NextCall.amount_in, received \in ReceivedAmounts :
                    /\ received <= tx.acc.amount[pd]
                    /\ tx.acc.amount[b] + received < Two64
                    /\ tx.acc.amount[ps] + taken < Two64
                    /\ tx'.acc.amount = Moved(Moved(tx.acc.amount, a, ps, taken),
                                              pd, b, received)
                BY <1>4, <2>1, <3>3, SwapEffect
            <4>2. SwapOk(NextCall)
                BY <1>4, <2>1, <3>3, SwapEffect
            <4>3. /\ TokenOf(a) = TokenOf(ps) /\ TokenOf(b) = TokenOf(pd)
                  /\ TokenOf(ps) # TokenOf(pd)
                  /\ NextCall.amount_in <= tx.acc.amount[a]
                BY <4>2 DEF SwapOk, SwapAccountsOk
            <4>4. PICK v \in Vaults : a = <<v, "A">> /\ b = <<v, "B">>
                BY <2>2, <3>3 DEF Fits
            <4>5. ps \in Wallets /\ pd \in Wallets /\ NextCall.amount_in \in Nat
                BY <2>2, <3>3 DEF Fits
            <4>6. taken \in Nat /\ taken <= NextCall.amount_in /\ received \in Nat
                BY <4>5, BoundAssumption, CheckedAmounts
            <4>7. /\ a \in TokenAccounts /\ ps \in TokenAccounts /\ a # ps
                  /\ b \in TokenAccounts /\ pd \in TokenAccounts /\ b # pd
                  /\ a # pd /\ b # ps /\ ps # pd /\ a # b
                BY <4>3, <4>4, <4>5, WalletFacts DEF Tokens
            <4>8. tx.acc.amount[a] \in Nat
                BY <3>1, <4>7, CheckedAmounts
            <4>9. taken <= tx.acc.amount[a]
                BY <4>3, <4>5, <4>6, <4>8
            <4> HIDE DEF a, b, ps, pd
            <4> DEFINE mid == Moved(tx.acc.amount, a, ps, taken)
            <4>10. /\ mid \in [TokenAccounts -> Amount]
                   /\ mid[pd] = tx.acc.amount[pd] /\ mid[b] = tx.acc.amount[b]
                BY <3>1, <4>1, <4>6, <4>7, <4>9, MovedAmounts
            <4>11. Supply(account, n, t, mid) = Supply(account, n, t, tx.acc.amount)
                BY <3>1, <4>1, <4>3, <4>6, <4>7, <4>9, SupplyMoved
            <4> HIDE DEF mid
            <4>12. Supply(account, n, t, Moved(mid, pd, b, received))
                       = Supply(account, n, t, mid)
                BY <4>1, <4>3, <4>6, <4>7, <4>10, SupplyMoved
            <4> QED BY <4>1, <4>11, <4>12 DEF mid
        <3>4. CASE NextCall.kind \notin {"transfer", "swap"}
            <4>1. CallMint \/ CallMetadata \/ CallRevoke \/ CallBurn \/ CallCloseAccount
                BY <1>4, <3>4 DEF CallStep, CallTransfer, CallSwapStep, Calling
            <4>2. NextCall.kind \in {"mint", "metadata", "revoke", "burn", "close"}
                BY <4>1 DEF CallMint, CallMetadata, CallRevoke, CallBurn, CallCloseAccount,
                            Calling
            <4>3. tx'.acc.amount = tx.acc.amount
                BY <1>4, <2>1, <4>2, MintEffect, QuietCallEffect, RevokeEffect, BurnEffect
            <4> QED BY <4>3
        <3> QED BY <3>2, <3>3, <3>4
    <2> QED BY <1>2, <2>1, <2>3, <2>4 DEF SupplyFits
<1>5. CASE VerifySwap \/ RefundA \/ DropPosition
    <2>1. tx # Idle /\ Underway /\ Shaped
        BY <1>1, <1>5, IdleOrUnderway DEF Underway
    <2>2. UNCHANGED <<balance, wallet>>
        BY <1>1, <1>5, <2>1, WorkContinues DEF Unwritten
    <2> QED BY <1>2, <1>5, <2>1, <2>2, WorkMovesNothing DEF SupplyFits
<1>6. CASE Exit
    <2>1. tx # Idle /\ Copied /\ tx' = Idle
        BY <1>1, <1>6, IdleOrUnderway DEF Underway, Exit
    <2> QED BY <1>6, <2>1, ExitWritesAmounts DEF SupplyFits
<1>7. CASE Abort \/ UNCHANGED instruction
    <2>1. UNCHANGED <<balance, wallet>> /\ (tx' = Idle \/ tx' = tx)
        BY <1>7 DEF Abort, instruction, vars
    <2> QED BY <1>2, <2>1 DEF SupplyFits
<1>8. CASE CallFree
    <2>1. UNCHANGED <<balance, wallet>> /\ tx' = tx
        BY <1>8, CallFreeMovesNothing DEF CallFree
    <2> QED BY <1>2, <2>1 DEF SupplyFits
<1> QED BY <1>3, <1>4, <1>5, <1>6, <1>7, <1>8 DEF InstructionNext, StartStep, CallStep

-----------------------------------------------------------------------------
(* No call fails *)

\* What the copies hold of a vault's token account.
LEMMA ShownAmount ==
    ASSUME NEW v \in Vaults, NEW t \in Tokens
    PROVE  tx.acc.amount[<<v, t>>] = Shown[v][t]
BY DEF Shown, InVaults

\* A payment that the vault's account covers is made: the payee's account can hold it,
\* because it and the vault's hold no more together than there is of their mint, or
\* is the vault's itself.
LEMMA PaymentSucceeds ==
    ASSUME NEW n, NEW account, Listing(account, n), Copied,
           \A t \in Tokens : Supply(account, n, t, tx.acc.amount) < Two64,
           NEW v \in Vaults, NEW t \in Tokens, NEW to \in TokenAccounts, NEW m \in Nat,
           NextCall = Transfer(<<v, t>>, to, v, m), tx.v = v, m <= tx.acc.amount[<<v, t>>]
    PROVE  CallsSucceed
<1> DEFINE from == <<v, t>>
<1>1. /\ NextCall.kind = "transfer" /\ NextCall.from = from /\ NextCall.to = to
      /\ NextCall.amount = m /\ NextCall.authority = v
    BY DEF Transfer
<1>2. from \in TokenAccounts /\ TokenOf(from) = t /\ OwnerOf(from) = v
    BY TokenAccountFacts
<1>4. tx.acc.amount \in [TokenAccounts -> Amount] /\ m <= tx.acc.amount[from]
    BY DEF Copied
<1> HIDE DEF from
<1>5. CASE TokenOf(from) = TokenOf(to)
    <2>1. ASSUME to # from
          PROVE  tx.acc.amount[to] + m < Two64
        <3>1. tx.acc.amount[from] + tx.acc.amount[to] <= Supply(account, n, t, tx.acc.amount)
            BY <1>2, <1>4, <1>5, <2>1, TwoWithinSupply
        <3>2. Supply(account, n, t, tx.acc.amount) < Two64
              /\ Supply(account, n, t, tx.acc.amount) \in Int
            <4>1. n \in Nat /\ Holdings(account, n, t, tx.acc.amount) \in [1 .. n -> Int]
                BY <1>4, HoldingsType DEF Listing
            <4> QED BY <4>1, SumInt DEF Supply
        <3>3. tx.acc.amount[from] \in Nat /\ tx.acc.amount[to] \in Nat /\ Two64 \in Nat
            BY <1>2, <1>4, CheckedAmounts, WidthAssumption
        <3> QED BY <1>4, <3>1, <3>2, <3>3
    <2>2. TransferOk(NextCall)
        BY <1>1, <1>2, <1>4, <1>5, <2>1 DEF TransferOk, Signed
    <2> QED BY <1>1, <2>2 DEF CallsSucceed, CallOk
<1>6. CASE TokenOf(from) # TokenOf(to)
    BY <1>1, <1>6 DEF CallsSucceed
<1> QED BY <1>5, <1>6

\* A deposit: after the depositor's transfer, the vault still is the mint's authority.
LEMMA DepositSucceeds ==
    ASSUME Between, Depositing
    PROVE  CallsSucceed
<1>1. PICK p \in Positions, v \in Vaults, depositor \in Users, end \in PeriodAccounts,
           amount \in DepositAmounts, n \in SwapCounts, source \in Wallets,
       ref \in AccountsOfB :
        /\ tx.v = v /\ tx.given = [mint |-> p, depositor |-> depositor]
        /\ tx.then = "exit"
        /\ DepositValid(p, v, end, amount, n)
        /\ DepositWritten(p, v, depositor, end, amount, n, ref)
        /\ DepositCalling(p, v, depositor, amount, source)
    BY DEF Depositing
<1> DEFINE pay      == Transfer(source, <<v, "A">>, depositor, amount)
           mint     == NftCall("mint", p, v)
           metadata == NftCall("metadata", p, v)
           revoke   == NftCall("revoke", p, v)
<1>2. /\ pay.kind = "transfer" /\ pay.from = source
      /\ \A c \in {mint, metadata, revoke} :
            c.kind \in {"mint", "metadata", "revoke"} /\ c.mint = p /\ c.authority = v
    BY DEF Transfer, NftCall
<1>3. \/ tx.calls \in {<<pay, mint, metadata, revoke>>, <<pay, mint, revoke>>}
      \/ /\ tx.calls \in {<<mint, metadata, revoke>>, <<mint, revoke>>,
                          <<metadata, revoke>>, <<revoke>>}
         /\ \E supply :
              tx.acc.nft_mint = [nft_mint EXCEPT ![p] = [supply |-> supply, authority |-> v]]
      \/ tx.calls = <<>>
    BY <1>1 DEF DepositCalling, DepositAt
<1> HIDE DEF pay, mint, metadata, revoke
<1>4. CASE tx.calls \in {<<pay, mint, metadata, revoke>>, <<pay, mint, revoke>>}
    <2>1. NextCall = pay
        BY <1>4 DEF NextCall
    <2> QED BY <1>2, <2>1 DEF CallsSucceed
<1>5. CASE /\ tx.calls \in {<<mint, metadata, revoke>>, <<mint, revoke>>,
                            <<metadata, revoke>>, <<revoke>>}
           /\ \E supply :
                tx.acc.nft_mint = [nft_mint EXCEPT ![p] = [supply |-> supply, authority |-> v]]
    <2>1. NextCall \in {mint, metadata, revoke}
        BY <1>5 DEF NextCall
    <2>2. tx.acc.nft_mint[p].authority = v
        BY <1>5 DEF Between
    <2>3. MintAuthorityOk(NextCall)
        BY <1>1, <1>2, <2>1, <2>2 DEF MintAuthorityOk, Signed
    <2>4. CallOk(NextCall)
        BY <1>2, <2>1, <2>3 DEF CallOk
    <2> QED BY <2>4 DEF CallsSucceed
<1>6. CASE tx.calls = <<>>
    BY <1>6 DEF CallsSucceed
<1> QED BY <1>3, <1>4, <1>5, <1>6

\* A drip: the vault holds all it is about to drip, the fee with it, and hands its
\* accounts to the pool in the pool's order.
LEMMA DripSucceeds ==
    ASSUME NEW n, NEW account, Listing(account, n), Between, AccountingInv, Copied, Dripping,
           \A t \in Tokens : Supply(account, n, t, tx.acc.amount) < Two64
    PROVE  CallsSucceed
<1>1. PICK v \in Vaults, last \in PeriodAccounts, current \in PeriodAccounts,
           swap \in Swaps \cup {DefaultKey} :
        /\ tx.v = v
        /\ DripValid(v, last, current, swap)
        /\ DripCalling(v, last, current, swap)
    BY DEF Dripping
<1> DEFINE fee  == SpreadOnDrip(v)
           held == balance[v]["A"]
<1>2. /\ fee \in Nat /\ SwapAmount(v) \in Nat /\ held \in Nat
      /\ fee + SwapAmount(v) <= held
    <2>1. fee \in Nat /\ SwapAmount(v) \in Nat
        BY <1>1, SwapAmountType DEF Between, DripValid
    <2>2. vault[v].drip_amount \in Nat /\ held \in Nat
        BY VaultParts, CheckedAmounts DEF Between, TypeInv
    <2>3. SwapAmount(v) = vault[v].drip_amount - fee
        BY DEF SwapAmount
    <2>4. vault[v].drip_amount <= held
        BY DripBacked
    <2> HIDE DEF fee, held
    <2> QED BY <2>1, <2>2, <2>3, <2>4
<1>3. \/ \E swap_a, swap_b \in Wallets, to \in PayoutAccounts :
            \/ /\ tx.calls = <<Transfer(<<v, "A">>, to, v, fee), SwapCall(v, swap, swap_a, swap_b)>>
               /\ Shown = balance
            \/ /\ tx.calls = <<SwapCall(v, swap, swap_a, swap_b)>>
               /\ CanPay(balance, v, "A", to, fee)
               /\ Shown = Paid(balance, v, "A", to, fee)
      \/ tx.calls = <<>>
    BY <1>1 DEF DripCalling
<1>7. "A" \in Tokens /\ balance \in Balances
    BY DEF Tokens, Between, TypeInv, TypeOK, Balances
<1> HIDE DEF fee
<1>4. ASSUME NEW swap_a \in Wallets, NEW swap_b \in Wallets, NEW to \in PayoutAccounts,
             tx.calls = <<Transfer(<<v, "A">>, to, v, fee), SwapCall(v, swap, swap_a, swap_b)>>,
             Shown = balance
      PROVE  CallsSucceed
    <2> DEFINE pay == Transfer(<<v, "A">>, to, v, fee)
               then == SwapCall(v, swap, swap_a, swap_b)
    <2>1. tx.calls = <<pay, then>>
        BY <1>4
    <2> HIDE DEF pay, then
    <2>2. NextCall = pay
        BY <2>1 DEF NextCall
    <2>3. tx.acc.amount[<<v, "A">>] = held
        BY <1>4, <1>7, ShownAmount
    <2> HIDE DEF held
    <2>4. fee <= tx.acc.amount[<<v, "A">>]
        BY <1>2, <2>3
    <2>5. to \in TokenAccounts
        BY DestinationFacts
    <2> QED BY <1>1, <1>2, <1>7, <2>2, <2>4, <2>5, PaymentSucceeds DEF pay
<1>5. ASSUME NEW swap_a \in Wallets, NEW swap_b \in Wallets, NEW to \in PayoutAccounts,
             tx.calls = <<SwapCall(v, swap, swap_a, swap_b)>>,
             CanPay(balance, v, "A", to, fee), Shown = Paid(balance, v, "A", to, fee)
      PROVE  CallsSucceed
    <2>6. /\ tx.acc.amount[<<v, "A">>] >= held - fee
          /\ tx.acc.amount[<<v, "A">>] \in Nat
        <3> DEFINE paid == Paid(balance, v, "A", to, fee)
        <3>1. SpentAtMost(balance, paid, v, "A", fee) /\ paid \in Balances
            BY <1>2, <1>5, <1>7, PaidFacts
        <3> HIDE DEF paid
        <3>2. paid[v]["A"] >= held - fee /\ paid[v]["A"] \in Nat
            BY <1>7, <3>1, BalanceNat DEF SpentAtMost
        <3>3. Shown = paid
            BY <1>5 DEF paid
        <3> QED BY <1>7, <3>2, <3>3, ShownAmount
    <2> HIDE DEF held
    <2> DEFINE c == SwapCall(v, swap, swap_a, swap_b)
    <2>1. SwapShape(c, v, swap, swap_a, swap_b)
        BY SwapCallShape
    <2>2. tx.calls = <<c>>
        BY <1>5
    <2> HIDE DEF c
    <2>3. NextCall = c
        BY <2>2 DEF NextCall
    <2>4. CASE SwapAccountsOk(c)
        <3> DEFINE ps == c.pool_source
                   pd == c.pool_destination
        <3>1. /\ TokenOf(ps) # TokenOf(pd)
              /\ TokenOf(swap_a) = FirstToken(swap)
            BY <2>1, <2>4 DEF SwapAccountsOk, SwapShape
        <3>2. /\ TokenOf(ps) \in {"A", "B"} /\ TokenOf(pd) \in {"A", "B"}
              /\ TokenOf(swap_a) \in {"A", "B"} /\ TokenOf(swap_b) \in {"A", "B"}
            BY <2>1, WalletAssumption DEF TokenOf, Tokens, SwapShape
        <3>3. TokenOf(ps) = "A" /\ TokenOf(pd) = "B"
            <4>1. CASE swap \in Whirlpools /\ TokenOf(swap_a) # "A"
                <5>1. ps = swap_b /\ pd = swap_a
                    BY <2>1, <4>1 DEF SwapShape
                <5> QED BY <3>1, <3>2, <4>1, <5>1
            <4>2. CASE ~ (swap \in Whirlpools /\ TokenOf(swap_a) # "A")
                <5>1. ps = swap_a /\ pd = swap_b
                    BY <2>1, <4>2 DEF SwapShape
                <5>2. TokenOf(swap_a) = "A"
                    BY <3>1, <4>2 DEF FirstToken
                <5> QED BY <3>1, <3>2, <5>1, <5>2
            <4> QED BY <4>1, <4>2
        <3>4. /\ TokenOf(<<v, "A">>) = "A" /\ OwnerOf(<<v, "A">>) = v
              /\ TokenOf(<<v, "B">>) = "B"
            BY TokenAccountFacts DEF Tokens
        <3>6. SwapAmount(v) <= tx.acc.amount[<<v, "A">>]
            BY <1>2, <2>6
        <3>7. /\ c.source = <<v, "A">> /\ c.destination = <<v, "B">> /\ c.authority = v
              /\ c.amount_in = SwapAmount(v) /\ c.kind = "swap"
            BY <2>1 DEF SwapShape
        <3>8. SwapOk(c)
            BY <1>1, <2>4, <3>3, <3>4, <3>6, <3>7 DEF SwapOk, Signed
        <3>9. CallOk(c)
            BY <3>7, <3>8 DEF CallOk
        <3> QED BY <2>3, <3>9 DEF CallsSucceed
    <2>5. CASE ~ SwapAccountsOk(c)
        <3>1. c.kind = "swap"
            BY <2>1 DEF SwapShape
        <3> QED BY <2>3, <2>5, <3>1 DEF CallsSucceed
    <2> QED BY <2>4, <2>5
<1>6. CASE tx.calls = <<>>
    BY <1>6 DEF CallsSucceed
<1> QED BY <1>3, <1>4, <1>5, <1>6

\* What a withdrawal has left the vault covers its next payment.
LEMMA StillCovered ==
    ASSUME Between, NEW v \in Vaults, NEW p \in Positions,
           NEW i \in PeriodAccounts, NEW j \in PeriodAccounts, ValidWithdrawal(p, v, i, j),
           NEW x, x = BeforeFees(p, v, i, j), x <= balance[v]["B"],
           NEW to, NEW due, CouldPay(v, x, to, due),
           NEW b, b = PaidSoFar(v, x, to, due)
    PROVE  /\ 1 \in due => TreasuryShare(v, x) <= b[v]["B"]
           /\ 1 \notin due /\ 2 \in due => NetOfFees(v, x) <= b[v]["B"]
           /\ 1 \notin due /\ 2 \notin due /\ 3 \in due => ReferrerShare(v, x) <= b[v]["B"]
<1> DEFINE t  == TreasuryShare(v, x)
           m  == NetOfFees(v, x)
           r  == ReferrerShare(v, x)
           b1 == AfterTreasury(v, x, to)
           b2 == AfterHolder(v, x, to)
<1>1. x \in Nat /\ t \in Nat /\ m \in Nat /\ r \in Nat /\ x = t + m + r
    BY WithdrawalParts DEF Between
<1>2. balance \in Balances /\ "B" \in Tokens
    BY DEF Between, TypeInv, TypeOK, Balances, Tokens
<1>3. balance[v]["B"] \in Nat
    BY <1>2, BalanceNat
<1>4. /\ b = IF 1 \in due THEN balance ELSE IF 2 \in due THEN b1
               ELSE IF 3 \in due THEN b2 ELSE AfterReferrer(v, x, to)
      /\ 1 \notin due /\ t > 0 => CanPay(balance, v, "B", to.treasury, t)
      /\ 2 \notin due => CanPay(b1, v, "B", to.user_b, m)
      /\ b1 = Paid(balance, v, "B", to.treasury, t) /\ b2 = Paid(b1, v, "B", to.user_b, m)
    BY DEF PaidSoFar, CouldPay, AfterTreasury, AfterHolder
<1> HIDE DEF t, m, r, b1, b2
<1>5. ASSUME 1 \notin due
      PROVE  b1 \in Balances /\ b1[v]["B"] >= balance[v]["B"] - t
    <2>1. CASE t > 0
        <3>1. b1 \in Balances /\ SpentAtMost(balance, b1, v, "B", t)
            BY <1>1, <1>2, <1>4, <1>5, <2>1, PaidFacts
        <3> QED BY <1>2, <3>1 DEF SpentAtMost
    <2>2. CASE t = 0
        <3>1. b1 = balance
            BY <1>2, <1>4, <2>2, NothingPaid
        <3> QED BY <1>2, <1>3, <2>2, <3>1
    <2> QED BY <1>1, <2>1, <2>2
<1>6. ASSUME 1 \notin due, 2 \notin due
      PROVE  b2[v]["B"] >= b1[v]["B"] - m /\ b1[v]["B"] \in Nat /\ b2[v]["B"] \in Nat
    <2>1. b2 \in Balances /\ SpentAtMost(b1, b2, v, "B", m)
        BY <1>1, <1>2, <1>4, <1>5, <1>6, PaidFacts
    <2>2. b2[v]["B"] >= b1[v]["B"] - m
        BY <1>2, <2>1 DEF SpentAtMost
    <2> QED BY <1>2, <1>5, <1>6, <2>1, <2>2, BalanceNat
<1>7. 1 \in due => t <= b[v]["B"]
    BY <1>1, <1>3, <1>4
<1>8. ASSUME 1 \notin due, 2 \in due
      PROVE  m <= b[v]["B"]
    <2>1. b[v]["B"] >= balance[v]["B"] - t /\ b[v]["B"] \in Nat
        BY <1>2, <1>4, <1>5, <1>8, BalanceNat
    <2> QED BY <1>1, <1>3, <2>1
<1>9. ASSUME 1 \notin due, 2 \notin due, 3 \in due
      PROVE  r <= b[v]["B"]
    <2>1. b[v]["B"] = b2[v]["B"]
        BY <1>4, <1>9
    <2> QED BY <1>1, <1>3, <1>5, <1>6, <1>9, <2>1
<1> QED BY <1>7, <1>8, <1>9 DEF t, m, r

\* A withdrawal, or the first half of a close: the vault holds the B a position is
\* owed, and the three payments still due are no more than is left of it.
LEMMA PayingSucceeds ==
    ASSUME NEW n, NEW account, Listing(account, n), Between, ClaimInv, Copied,
           \A q \in ConfigParams : q.token_a_drip_trigger_spread = 0,
           \A t \in Tokens : Supply(account, n, t, tx.acc.amount) < Two64,
           NEW v \in Vaults, NEW p \in Positions,
           NEW i \in PeriodAccounts, NEW j \in PeriodAccounts, NEW user_b \in PayoutAccounts,
           NEW due, PayingB(p, v, i, j, user_b, due)
    PROVE  CallsSucceed
<1> DEFINE x == BeforeFees(p, v, i, j)
           a == Transfer(<<v, "B">>, TreasuryOf[v], v, TreasuryShare(v, x))
           b == Transfer(<<v, "B">>, user_b, v, NetOfFees(v, x))
           c == Transfer(<<v, "B">>, referrer[p], v, ReferrerShare(v, x))
           to == Payees(p, v, user_b)
           left == tx.acc.amount[<<v, "B">>]
<1>1. /\ tx.v = v /\ ValidWithdrawal(p, v, i, j) /\ tx.calls = InRow(due, a, b, c)
      /\ Shown = PaidSoFar(v, x, to, due) /\ CouldPay(v, x, to, due)
    BY DEF PayingB, CallsDueB
<1>2. /\ x \in Nat
      /\ TreasuryShare(v, x) \in Nat /\ ReferrerShare(v, x) \in Nat /\ NetOfFees(v, x) \in Nat
    BY <1>1, WithdrawalParts DEF Between
<1>3. x <= balance[v]["B"]
    BY <1>1, PayoutBacked
<1>5. /\ TreasuryOf[v] \in TokenAccounts /\ referrer[p] \in TokenAccounts
      /\ user_b \in TokenAccounts /\ "B" \in Tokens
    BY <1>1, DestinationFacts DEF ValidWithdrawal, Between, Tokens
<1>6. left = Shown[v]["B"]
    BY <1>5, ShownAmount
<1>7. /\ 1 \in due => TreasuryShare(v, x) <= left
      /\ 1 \notin due /\ 2 \in due => NetOfFees(v, x) <= left
      /\ 1 \notin due /\ 2 \notin due /\ 3 \in due => ReferrerShare(v, x) <= left
    <2> HIDE DEF to, left
    <2> QED BY <1>1, <1>3, <1>6, StillCovered
<1> HIDE DEF x, a, b, c, to
<1>8. CASE 1 \in due
    <2>1. NextCall = a
        BY <1>1, <1>8, CallsInRow DEF NextCall
    <2> QED BY <1>1, <1>2, <1>5, <1>6, <1>7, <1>8, <2>1, PaymentSucceeds DEF a
<1>9. CASE 1 \notin due /\ 2 \in due
    <2>1. NextCall = b
        BY <1>1, <1>9, CallsInRow DEF NextCall
    <2> QED BY <1>1, <1>2, <1>5, <1>6, <1>7, <1>9, <2>1, PaymentSucceeds DEF b
<1>10. CASE 1 \notin due /\ 2 \notin due /\ 3 \in due
    <2>1. NextCall = c
        BY <1>1, <1>10, CallsInRow DEF NextCall
    <2> QED BY <1>1, <1>2, <1>5, <1>6, <1>7, <1>10, <2>1, PaymentSucceeds DEF c
<1>11. CASE 1 \notin due /\ 2 \notin due /\ 3 \notin due
    <2>1. tx.calls = <<>>
        BY <1>1, <1>11, CallsInRow
    <2> QED BY <2>1 DEF CallsSucceed
<1> QED BY <1>8, <1>9, <1>10, <1>11

\* The second half of a close: the vault holds the A to refund, and the NFT is burned
\* before its account is closed.
LEMMA RefundSucceeds ==
    ASSUME NEW n, NEW account, Listing(account, n), Between, AccountingInv, Copied,
           \A t \in Tokens : Supply(account, n, t, tx.acc.amount) < Two64,
           NEW v \in Vaults, NEW p \in Positions,
           NEW i \in PeriodAccounts, NEW j \in PeriodAccounts, NEW expiry,
           NEW user_a \in PayoutAccounts, NEW user_b,
           NEW due, RefundingA(p, v, i, j, expiry, user_a, user_b, due)
    PROVE  CallsSucceed
<1> DEFINE refund == RefundOf(p, i, j)
           a == Transfer(<<v, "A">>, user_a, v, refund)
           b == NftCall("burn", p, tx.signer)
           c == NftCall("close", p, tx.signer)
           to == Payees(p, v, user_b)
           x == BeforeFees(p, v, i, j)
           paid == AfterReferrer(v, x, to)
<1>1. /\ tx.v = v /\ ValidWithdrawal(p, v, i, j)
      /\ WithdrawTokenADefined(i.period_id, j.period_id,
             position[p].number_of_swaps, position[p].periodic_drip_amount)
      /\ tx.calls = InRow(due, a, b, c)
      /\ InOrderA(p, refund, due) /\ NftWritten(p, due)
      /\ CanPayB(v, x, to)
      /\ 1 \in due => Shown = paid
    BY DEF RefundingA, CallsDueA
<1>2. refund \in Nat
    BY <1>1, RefundType, CheckedAmounts DEF RefundOf, Between, TypeInv
<1>3. refund <= balance[v]["A"] /\ "A" \in Tokens /\ user_a \in TokenAccounts
    BY <1>1, RefundBacked, DestinationFacts DEF RefundOf, Tokens
<1>4. paid[v]["A"] = balance[v]["A"]
    <2>1. SpentAtMost(balance, paid, v, "B", x)
        <3> HIDE DEF to
        <3> QED BY <1>1, PaidBFacts DEF Between
    <2> HIDE DEF paid, x
    <2> QED BY <1>3, <2>1 DEF SpentAtMost
<1>5. b.kind = "burn" /\ b.mint = p /\ b.authority = tx.signer
      /\ c.kind = "close" /\ c.mint = p /\ c.authority = tx.signer
    BY DEF NftCall
<1> HIDE DEF refund, b, c, paid, x, to
<1>6. CASE 1 \in due
    <2>1. NextCall = a
        BY <1>1, <1>6, CallsInRow DEF NextCall
    <2>2. refund <= tx.acc.amount[<<v, "A">>]
        BY <1>1, <1>3, <1>4, <1>6, ShownAmount
    <2> HIDE DEF a
    <2> QED BY <1>1, <1>2, <1>3, <2>1, <2>2, PaymentSucceeds DEF a
<1>7. CASE 1 \notin due /\ 2 \in due
    <2>1. NextCall = b
        BY <1>1, <1>7, CallsInRow DEF NextCall
    <2>2. tx.acc.nft_holder[p] = tx.signer
        BY <1>1, <1>7 DEF InOrderA, NftWritten
    <2>3. CallOk(NextCall)
        BY <1>5, <2>1, <2>2 DEF CallOk, BurnOk, Signed
    <2> QED BY <2>3 DEF CallsSucceed
<1>8. CASE 1 \notin due /\ 2 \notin due /\ 3 \in due
    <2>1. NextCall = c
        BY <1>1, <1>8, CallsInRow DEF NextCall
    <2>2. tx.acc.nft_holder = [nft_holder EXCEPT ![p] = NoHolder]
        BY <1>1, <1>8 DEF InOrderA, NftWritten
    <2>3. tx.acc.nft_holder[p] = NoHolder
        BY <2>2 DEF Between, TypeInv, TypeOK
    <2>4. CallOk(NextCall)
        BY <1>5, <2>1, <2>3 DEF CallOk, CloseOk, Signed
    <2> QED BY <2>4 DEF CallsSucceed
<1>9. CASE 1 \notin due /\ 2 \notin due /\ 3 \notin due
    <2>1. tx.calls = <<>>
        BY <1>1, <1>9, CallsInRow
    <2> QED BY <2>1 DEF CallsSucceed
<1> QED BY <1>6, <1>7, <1>8, <1>9

\* The admin's one transfer takes what is there.
LEMMA EmptyingSucceeds ==
    ASSUME NEW n, NEW account, Listing(account, n), Between, Copied, Emptying,
           \A t \in Tokens : Supply(account, n, t, tx.acc.amount) < Two64
    PROVE  CallsSucceed
<1>1. PICK v \in Vaults, token \in Tokens, destination \in PayoutAccounts :
         tx.v = v /\ EmptyingAt(v, token, destination)
    BY DEF Emptying
<1> DEFINE held == balance[v][token]
           pay  == Transfer(<<v, token>>, destination, v, held)
<1>2. held \in Nat
    BY VaultParts, CheckedAmounts DEF Between, TypeInv, Tokens
<1>3. \/ tx.calls = <<pay>> /\ Shown = balance
      \/ tx.calls = <<>>
    BY <1>1 DEF EmptyingAt
<1>4. CASE tx.calls = <<pay>> /\ Shown = balance
    <2>1. tx.acc.amount[<<v, token>>] = held
        BY <1>4, ShownAmount
    <2>4. destination \in TokenAccounts
        BY DestinationFacts
    <2> HIDE DEF pay, held
    <2>2. NextCall = pay
        BY <1>4 DEF NextCall
    <2>3. held <= tx.acc.amount[<<v, token>>]
        BY <1>2, <2>1
    <2> QED BY <1>1, <1>2, <2>2, <2>3, <2>4, PaymentSucceeds DEF pay
<1>5. CASE tx.calls = <<>>
    BY <1>5 DEF CallsSucceed
<1> QED BY <1>3, <1>4, <1>5

\* What the token accounts hold when the model starts.
InitialAmount == [x \in TokenAccounts |-> IF x \in Wallets THEN InitialWallet[x] ELSE 0]

\* As long as the supply of each mint fits a u64, without a drip trigger spread, and
\* if the admin takes no B: no call of an instruction fails once its validation has
\* passed, except for accounts its sender chose or owns.
THEOREM NoCallFails ==
    ASSUME "B" \notin AdminTakes,
           \A q \in ConfigParams : q.token_a_drip_trigger_spread = 0,
           NEW n, NEW account, Listing(account, n),
           \A t \in Tokens : Supply(account, n, t, InitialAmount) < Two64
    PROVE  InstructionSpec => []CallsSucceed
<1>1. InstructionInit => SupplyFits(account, n)
    <2> SUFFICES ASSUME InstructionInit
                 PROVE  SupplyFits(account, n)
        OBVIOUS
    <2>1. tx = Idle /\ wallet = InitialWallet
          /\ \A v \in Vaults, t \in Tokens : balance[v][t] = 0
        BY DEF InstructionInit, Init
    <2>2. Accounts.amount = InitialAmount
        <3> DEFINE amount == Accounts.amount
        <3>1. amount = [x \in TokenAccounts |->
                          IF x \in Wallets THEN wallet[x] ELSE balance[x[1]][x[2]]]
            BY DEF Accounts, Held
        <3> HIDE DEF amount
        <3>2. \A x \in TokenAccounts : x \notin Wallets => balance[x[1]][x[2]] = 0
            BY <2>1 DEF TokenAccounts, VaultAccounts
        <3>3. amount = InitialAmount
            BY <2>1, <3>1, <3>2 DEF InitialAmount
        <3> QED BY <3>3 DEF amount
    <2> QED BY <2>1, <2>2 DEF SupplyFits
<1>2. /\ InstructionInv /\ SupplyFits(account, n) /\ [InstructionNext]_instruction
      => SupplyFits(account, n)'
    BY SupplyKept
<1>3. InstructionInv /\ ClaimInv /\ SupplyFits(account, n) => CallsSucceed
    <2> SUFFICES ASSUME InstructionInv, ClaimInv, SupplyFits(account, n)
                 PROVE  CallsSucceed
        OBVIOUS
    <2>1. CASE tx = Idle
        BY <2>1 DEF CallsSucceed, Idle
    <2>2. CASE tx # Idle
        <3>1. /\ Between /\ Underway /\ Copied /\ AccountingInv
              /\ \A t \in Tokens : Supply(account, n, t, tx.acc.amount) < Two64
            BY <2>2 DEF InstructionInv, Underway, ClaimInv, HistoryInv, SupplyFits
        <3>2. CASE Depositing
            BY <3>1, <3>2, DepositSucceeds
        <3>3. CASE Dripping
            BY <3>1, <3>3, DripSucceeds
        <3>4. CASE WithdrawingB \/ ClosingB
            <4>1. PICK p \in Positions, v \in Vaults, i \in PeriodAccounts,
                       j \in PeriodAccounts, user_b \in PayoutAccounts, due \in SUBSET (1 .. 3) :
                    PayingB(p, v, i, j, user_b, due)
                BY <3>4 DEF WithdrawingB, ClosingB
            <4> QED BY <3>1, <4>1, PayingSucceeds
        <3>5. CASE ClosingA
            <4>1. PICK p \in Positions, v \in Vaults, i \in PeriodAccounts,
                       j \in PeriodAccounts, expiry \in PeriodAccounts, user_a \in PayoutAccounts,
                       user_b \in PayoutAccounts, due \in SUBSET (1 .. 3) :
                    RefundingA(p, v, i, j, expiry, user_a, user_b, due)
                BY <3>5 DEF ClosingA
            <4> QED BY <3>1, <4>1, RefundSucceeds
        <3>6. CASE Emptying
            BY <3>1, <3>6, EmptyingSucceeds
        <3> QED BY <3>1, <3>2, <3>3, <3>4, <3>5, <3>6 DEF Underway
    <2> QED BY <2>1, <2>2
<1>4. Spec => []ClaimInv
    BY ClaimsInvariant
<1> QED BY <1>1, <1>2, <1>3, <1>4, InstructionInvariant, InstructionsImplementVault, PTL
        DEF InstructionSpec
=============================================================================
