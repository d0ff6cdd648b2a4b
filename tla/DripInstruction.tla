--------------------------- MODULE DripInstruction --------------------------
(***************************************************************************)
(* The inside of an instruction.                                           *)
(*                                                                         *)
(* An instruction of the drip program validates the accounts it is given,  *)
(* updates its copies of the program's own accounts, runs a list of calls  *)
(* into other programs one after the other, and for a drip and a close     *)
(* does more after them.  The calls move tokens at once; the program's     *)
(* accounts are written back when the instruction ends.  Whatever fails on *)
(* the way - a check, an arithmetic operation, a call, the budget - undoes *)
(* all of it.                                                              *)
(*                                                                         *)
(* The variables of DripVault are the accounts between instructions, and   *)
(* `tx` is the instruction under way, on its own copies.  No other         *)
(* instruction runs meanwhile: the runtime locks the accounts.             *)
(***************************************************************************)
EXTENDS DripVault

CONSTANTS
    Wallets,        \* token accounts other than the vaults' own
    WalletToken,    \* the mint of a wallet
    WalletOwner,    \* its owner: a signer, or a swap pool
    TreasuryOf,     \* vault.treasury_token_b_account
    Whirlpools,     \* the pools that belong to the whirlpool program
    FirstTokenOf,   \* which of the two mints a whirlpool calls its token A
    InitialWallet,  \* amounts in the wallets when the model starts
    NoAuthority     \* the mint authority of a mint that has been given up

TokenAccounts == Wallets \cup VaultAccounts

TokenOf(x) == IF x \in Wallets THEN WalletToken[x] ELSE x[2]
OwnerOf(x) == IF x \in Wallets THEN WalletOwner[x] ELSE x[1]

\* Any token account of the right mint may be a treasury, one of a vault included.
ASSUME WalletAssumption ==
    /\ WalletToken \in [Wallets -> Tokens]
    /\ WalletOwner \in [Wallets -> Signers \cup Swaps]
    /\ Destinations \subseteq TokenAccounts
    /\ TreasuryOf \in [Vaults -> {x \in Destinations : TokenOf(x) = "B"}]
    /\ Whirlpools \subseteq Swaps
    /\ FirstTokenOf \in [Whirlpools -> Tokens]
    /\ InitialWallet \in [Wallets -> Amount]
    /\ NoAuthority \notin Vaults
    /\ NoHolder \notin TokenAccounts
    /\ \A v \in Vaults, t \in Tokens : <<v, t>> \notin Wallets

VARIABLES
    wallet,      \* amounts in the wallets
    nft_mint,    \* supply and mint authority of the position NFTs' mints
    referrer,    \* Position.referrer
    tx           \* the instruction being executed

instruction == <<vars, wallet, nft_mint, referrer, tx>>

-----------------------------------------------------------------------------
(* The accounts of an instruction *)

\* What a token account holds between instructions.
Held(x) == IF x \in Wallets THEN wallet[x] ELSE balance[x[1]][x[2]]

\* The accounts an instruction works on, as they are when it begins.
Accounts ==
    [vault |-> vault, vault_period |-> vault_period, position |-> position,
     referrer |-> referrer, nft_holder |-> nft_holder, nft_mint |-> nft_mint,
     amount |-> [x \in TokenAccounts |-> Held(x)]]

Idle == [then |-> "none", calls |-> <<>>]

\* `given` is what the instruction was called with and has computed so far; `then`
\* is what it does when its calls have returned.
Started(ix, signer, v, given, acc, calls, then) ==
    /\ tx' = [ix |-> ix, signer |-> signer, v |-> v, given |-> given, acc |-> acc,
              calls |-> calls, then |-> then]
    /\ UNCHANGED <<vars, wallet, nft_mint, referrer>>

\* execute_all passes over a call that is None.
SomeIf(condition, call) == IF condition THEN <<call>> ELSE <<>>

Transfer(from, to, authority, amount) ==
    [kind |-> "transfer", from |-> from, to |-> to, authority |-> authority,
     amount |-> amount]

NftCall(kind, p, authority) == [kind |-> kind, mint |-> p, authority |-> authority]

-----------------------------------------------------------------------------
(* Deposit *)

\* Mutant: the vault stays the mint's authority.
DepositCallsKeepingAuthority(p, v, depositor, amount, source, with_metadata) ==
    <<Transfer(source, <<v, "A">>, depositor, amount), NftCall("mint", p, v)>>
    \o SomeIf(with_metadata, NftCall("metadata", p, v))

DepositCalls(p, v, depositor, amount, source, with_metadata) ==
    <<Transfer(source, <<v, "A">>, depositor, amount), NftCall("mint", p, v)>>
    \o SomeIf(with_metadata, NftCall("metadata", p, v))
    \o <<NftCall("revoke", p, v)>>

\* update_state, on accounts among which the position and its mint are new.
WithDeposit(acc, p, v, depositor, end, amount, n, ref) ==
    LET periodic == PeriodicDripAmount(amount, n) IN
    [acc EXCEPT
       !.vault[v].drip_amount = @ + periodic,
       !.vault_period[end.vault][end.period_id].dar = @ + periodic,
       !.position[p] =
         [status |-> "open", vault |-> v, deposited_token_a_amount |-> amount,
          withdrawn_token_b_amount |-> 0,
          drip_period_id_before_deposit |-> vault[v].last_drip_period,
          number_of_swaps |-> n, periodic_drip_amount |-> periodic],
       !.referrer[p] = ref,
       !.nft_holder[p] = NoHolder,
       !.nft_mint[p] = [supply |-> 0, authority |-> v]]

StartDeposit(p, v, depositor, end, amount, n, source, ref, with_metadata) ==
    LET periodic == PeriodicDripAmount(amount, n) IN
    /\ FreshMint(p)
    /\ vault[v].exists
    /\ IsPeriod(end, v, vault[v].last_drip_period + n)
    /\ TokenOf(ref) = "B"
    /\ n > 0
    /\ amount > 0
    /\ periodic > 0
    /\ vault[v].drip_amount + periodic < Two64
    /\ Data(end).dar + periodic < Two64
    /\ Started("deposit", depositor, v, [mint |-> p, depositor |-> depositor],
               WithDeposit(Accounts, p, v, depositor, end, amount, n, ref),
               DepositCalls(p, v, depositor, amount, source, with_metadata), "exit")

-----------------------------------------------------------------------------
(* Drip *)

\* Mutant: a padded whitelist lets any pool through.
SwapAllowedByPadding(v, swap) ==
    \/ ~ vault[v].limit_swaps
    \/ \E slot \in 1 .. WhitelistSize :
          vault[v].whitelisted_swaps[slot] \in {swap, DefaultKey}

SwapAllowed(v, swap) ==
    \/ ~ vault[v].limit_swaps
    \/ \E slot \in 1 .. WhitelistSize : vault[v].whitelisted_swaps[slot] = swap

\* swap_token_a_account and swap_token_b_account are the pool's accounts, for token
\* A and token B.
SplTokenSwap(v, swap, swap_a, swap_b, amount_in) ==
    [kind |-> "swap", pool |-> swap, first |-> swap_a, authority |-> v,
     source |-> <<v, "A">>, pool_source |-> swap_a,
     pool_destination |-> swap_b, destination |-> <<v, "B">>,
     amount_in |-> amount_in, minimum_out |-> 1]

\* Mutant: the vault's accounts are not put into the pool's order.
WhirlpoolSwapUnordered(v, swap, swap_a, swap_b, amount_in) ==
    LET a_to_b == TokenOf(swap_a) = "A" IN
    [SplTokenSwap(v, swap, swap_a, swap_b, amount_in) EXCEPT
        !.source = IF a_to_b THEN @ ELSE <<v, "B">>,
        !.pool_source = IF a_to_b THEN swap_a ELSE swap_b,
        !.pool_destination = IF a_to_b THEN swap_b ELSE swap_a,
        !.destination = IF a_to_b THEN @ ELSE <<v, "A">>]

\* swap_token_a_account is the pool's account for whichever mint the pool calls its
\* token A; whether the swap goes from A to B or back is found by comparing mints,
\* and the vault's accounts are put into the pool's order.
WhirlpoolSwap(v, swap, swap_a, swap_b, amount_in) ==
    LET a_to_b  == TokenOf(<<v, "A">>) = TokenOf(swap_a)
        owner_a == IF a_to_b THEN <<v, "A">> ELSE <<v, "B">>
        owner_b == IF a_to_b THEN <<v, "B">> ELSE <<v, "A">>
    IN  [SplTokenSwap(v, swap, swap_a, swap_b, amount_in) EXCEPT
           !.source = IF a_to_b THEN owner_a ELSE owner_b,
           !.pool_source = IF a_to_b THEN swap_a ELSE swap_b,
           !.pool_destination = IF a_to_b THEN swap_b ELSE swap_a,
           !.destination = IF a_to_b THEN owner_b ELSE owner_a]

SwapCall(v, swap, swap_a, swap_b) ==
    IF swap \in Whirlpools THEN WhirlpoolSwap(v, swap, swap_a, swap_b, SwapAmount(v))
                           ELSE SplTokenSwap(v, swap, swap_a, swap_b, SwapAmount(v))

\* Anyone may trigger a drip, and nothing depends on who does: the sender signs for
\* nothing.  process_drip comes before the calls; the amounts and balances the verification
\* compares with are those the instruction was given.
StartDrip(v, last, current, swap, swap_a, swap_b, fee) ==
    /\ vault[v].exists
    /\ IsPeriod(last, v, vault[v].last_drip_period)
    /\ IsPeriod(current, v, vault[v].last_drip_period + 1)
    /\ vault[v].drip_amount > 0
    /\ now >= vault[v].drip_activation_timestamp
    /\ SwapAllowed(v, swap)
    /\ Data(current).dar <= vault[v].drip_amount
    /\ Started("drip", NoHolder, v,
               [last |-> last, current |-> current, swap |-> swap,
                drip_amount |-> vault[v].drip_amount, swap_amount |-> SwapAmount(v),
                spread |-> SpreadOnDrip(v), balance |-> balance[v]],
               [Accounts EXCEPT
                  !.vault[v].drip_amount = @ - Data(current).dar,
                  !.vault[v].last_drip_period = current.period_id,
                  !.vault[v].drip_activation_timestamp =
                      ActivationTimestamp(now, Config(v).granularity, TRUE)],
               <<Transfer(<<v, "A">>, fee, v, SpreadOnDrip(v)),
                 SwapCall(v, swap, swap_a, swap_b)>>,
               "verify")

\* The vault's token account as it is after the calls.
Reloaded(token) == tx.acc.amount[<<tx.v, token>>]

\* Mutant: it is enough that the pool took no more than it was offered.
SpentWhatItShould(used_a) == used_a <= tx.given.drip_amount

\* Everything that drip_amount says, and exactly that, has left the vault.
SpentExactly(used_a) ==
    /\ used_a = tx.given.swap_amount + tx.given.spread
    /\ used_a = tx.given.drip_amount

\* The post-CPI verification and state updates of execute_drip.
VerifySwap ==
    LET received_b == Reloaded("B") - tx.given.balance["B"]
        used_a     == tx.given.balance["A"] - Reloaded("A")
        last       == tx.given.last
        current    == tx.given.current
        price      == ComputePrice(received_b, tx.given.swap_amount)
        twap       == tx.acc.vault_period[last.vault][last.period_id].twap
    IN
    /\ tx.then = "verify" /\ tx.calls = <<>>
    /\ received_b > 0
    /\ used_a >= 0
    /\ SpentExactly(used_a)
    /\ NewTwapDefined(twap, current.period_id, price)
    /\ tx' = [tx EXCEPT
         !.acc.vault_period[current.vault][current.period_id].twap =
             NewTwap(twap, current.period_id, price),
         !.acc.vault_period[current.vault][current.period_id].drip_timestamp = now,
         !.then = "exit"]
    /\ UNCHANGED <<vars, wallet, nft_mint, referrer>>

-----------------------------------------------------------------------------
(* Withdraw B and close position *)

\* Mutant: the two fees are paid to each other's accounts.
WithdrawBCallsCrossed(p, v, before_fees, user_b) ==
    LET treasury == TreasuryShare(v, before_fees)
        referral == ReferrerShare(v, before_fees)
    IN  SomeIf(treasury > 0, Transfer(<<v, "B">>, referrer[p], v, treasury))
        \o <<Transfer(<<v, "B">>, user_b, v, NetOfFees(v, before_fees))>>
        \o SomeIf(referral > 0, Transfer(<<v, "B">>, TreasuryOf[v], v, referral))

\* Mutant: what the position has withdrawn before is taken off a second time.
WithdrawBCallsShort(p, v, before_fees, user_b) ==
    <<Transfer(<<v, "B">>, user_b, v,
               NetOfFees(v, before_fees) - position[p].withdrawn_token_b_amount)>>

WithdrawBCalls(p, v, before_fees, user_b) ==
    LET treasury == TreasuryShare(v, before_fees)
        referral == ReferrerShare(v, before_fees)
    IN  SomeIf(treasury > 0, Transfer(<<v, "B">>, TreasuryOf[v], v, treasury))
        \o <<Transfer(<<v, "B">>, user_b, v, NetOfFees(v, before_fees))>>
        \o SomeIf(referral > 0, Transfer(<<v, "B">>, referrer[p], v, referral))

\* execute_withdraw_b, with which both instructions begin.  The treasury's and the
\* referrer's accounts are among those it is given, so they must exist.
StartedWithdrawing(ix, p, v, withdrawer, i, j, given, user_b, then) ==
    LET before_fees == BeforeFees(p, v, i, j) IN
    /\ ValidWithdrawal(p, v, i, j)
    /\ {TreasuryOf[v], referrer[p]} \subseteq PayoutAccounts
    /\ Started(ix, withdrawer, v, given,
               [Accounts EXCEPT !.position[p].withdrawn_token_b_amount = @ + before_fees],
               WithdrawBCalls(p, v, before_fees, user_b), then)

StartWithdrawB(p, v, withdrawer, i, j, user_b) ==
    /\ StartedWithdrawing("withdraw_b", p, v, withdrawer, i, j, [mint |-> p],
                          user_b, "exit")
    /\ NetOfFees(v, BeforeFees(p, v, i, j)) > 0
    /\ nft_holder[p] = withdrawer

\* Mutant: an admin may have the holder's tokens paid to any account.
MayCloseForAnyone(p, v, withdrawer, user_a, user_b) ==
    withdrawer \in {nft_holder[p], Config(v).admin}

\* The admin closes for the holder, and must name the holder's accounts.
MayClose(p, v, withdrawer, user_a, user_b) ==
    \/ withdrawer = nft_holder[p]
    \/ /\ withdrawer = Config(v).admin
       /\ OwnerOf(user_a) = nft_holder[p]
       /\ OwnerOf(user_b) = nft_holder[p]

StartClosePosition(p, v, withdrawer, i, j, expiry, user_a, user_b) ==
    /\ StartedWithdrawing("close_position", p, v, withdrawer, i, j,
           [mint |-> p, i |-> i, j |-> j, expiry |-> expiry, user_a |-> user_a],
           user_b, "refund")
    /\ MayClose(p, v, withdrawer, user_a, user_b)
    /\ IsPeriod(expiry, v, Expiry(p))

\* Mutant: the NFT's account is closed before the NFT in it is burned.
CloseCallsSwapped(p, v, withdrawer, holder, withdrawable_a, user_a) ==
    SomeIf(withdrawable_a > 0, Transfer(<<v, "A">>, user_a, v, withdrawable_a))
    \o SomeIf(holder = withdrawer, NftCall("close", p, withdrawer))
    \o SomeIf(holder = withdrawer, NftCall("burn", p, withdrawer))

\* Mutant: nobody's NFT is burned.
CloseCallsKeepingNft(p, v, withdrawer, holder, withdrawable_a, user_a) ==
    SomeIf(withdrawable_a > 0, Transfer(<<v, "A">>, user_a, v, withdrawable_a))

\* Only the holder can burn the NFT, so an admin's close leaves it where it is.
CloseCalls(p, v, withdrawer, holder, withdrawable_a, user_a) ==
    SomeIf(withdrawable_a > 0, Transfer(<<v, "A">>, user_a, v, withdrawable_a))
    \o SomeIf(holder = withdrawer, NftCall("burn", p, withdrawer))
    \o SomeIf(holder = withdrawer, NftCall("close", p, withdrawer))

\* The second half of a close, once the B has been paid out: the A to refund and
\* the end of the position's part in later drips.
RefundA ==
    LET p      == tx.given.mint
        v      == tx.v
        i      == tx.given.i
        j      == tx.given.j
        expiry == tx.given.expiry
        terms  == tx.acc.position[p]
        withdrawable_a == WithdrawTokenA(i.period_id, j.period_id,
                              terms.number_of_swaps, terms.periodic_drip_amount)
        still_dripping == j.period_id < expiry.period_id
        reduced == [tx.acc EXCEPT
                      !.vault[v].drip_amount = @ - terms.periodic_drip_amount,
                      !.vault_period[expiry.vault][expiry.period_id].dar =
                          @ - terms.periodic_drip_amount]
    IN
    /\ tx.then = "refund" /\ tx.calls = <<>>
    /\ WithdrawTokenADefined(i.period_id, j.period_id,
                              terms.number_of_swaps, terms.periodic_drip_amount)
    /\ still_dripping =>
         /\ terms.periodic_drip_amount <= tx.acc.vault[v].drip_amount
         /\ terms.periodic_drip_amount
              <= tx.acc.vault_period[expiry.vault][expiry.period_id].dar
    /\ tx' = [tx EXCEPT
         !.acc = IF still_dripping THEN reduced ELSE @,
         !.calls = CloseCalls(p, v, tx.signer, nft_holder[p], withdrawable_a,
                              tx.given.user_a),
         !.then = "close"]
    /\ UNCHANGED <<vars, wallet, nft_mint, referrer>>

\* The last effect of a close: the position's account is gone.
DropPosition ==
    /\ tx.then = "close" /\ tx.calls = <<>>
    /\ tx' = [tx EXCEPT !.acc.position[tx.given.mint].status = "closed",
                        !.then = "exit"]
    /\ UNCHANGED <<vars, wallet, nft_mint, referrer>>

-----------------------------------------------------------------------------
(* The admin's withdrawals *)

StartedEmptying(ix, v, admin, token, destination) ==
    /\ vault[v].exists
    /\ admin = Config(v).admin
    /\ token \in AdminTakes
    /\ vault[v].drip_amount = 0
    /\ balance[v][token] > 0
    /\ Started(ix, admin, v, [token |-> token], Accounts,
               <<Transfer(<<v, token>>, destination, v, balance[v][token])>>, "exit")

StartWithdrawA(v, admin, destination) ==
    /\ OwnerOf(destination) = admin
    /\ StartedEmptying("withdraw_a", v, admin, "A", destination)

StartAdminWithdraw(v, admin, token, destination) ==
    StartedEmptying("admin_withdraw", v, admin, token, destination)

-----------------------------------------------------------------------------
(* The programs called *)

NextCall == Head(tx.calls)

\* Who has signed: the sender, and the vault, for which the program signs.
Signed(authority) == authority \in {tx.signer, tx.v}

\* SPL token: the source's owner has signed, it holds the amount, the mints agree.  A
\* transfer from an account to itself moves nothing.
TransferOk(c) ==
    /\ Signed(c.authority) /\ OwnerOf(c.from) = c.authority
    /\ TokenOf(c.from) = TokenOf(c.to)
    /\ c.amount <= tx.acc.amount[c.from]
    /\ c.to # c.from => tx.acc.amount[c.to] + c.amount < Two64

\* SPL token and Metaplex: the mint's authority has signed.
MintAuthorityOk(c) ==
    Signed(c.authority) /\ tx.acc.nft_mint[c.mint].authority = c.authority

\* SPL token: the NFT is in the signer's account; an account must be empty to be
\* closed.
BurnOk(c)  == Signed(c.authority) /\ tx.acc.nft_holder[c.mint] = c.authority
CloseOk(c) == Signed(c.authority) /\ tx.acc.nft_holder[c.mint] = NoHolder

\* A swap program: the pool exists, its accounts are its own, one for each of its two
\* mints, in the order a whirlpool has them and otherwise the one for A first, and the
\* vault's accounts match them.
FirstToken(pool) == IF pool \in Whirlpools THEN FirstTokenOf[pool] ELSE "A"
SwapAccountsOk(c) ==
    /\ {OwnerOf(c.pool_source), OwnerOf(c.pool_destination)} = {c.pool}
    /\ TokenOf(c.pool_source) # TokenOf(c.pool_destination)
    /\ TokenOf(c.first) = FirstToken(c.pool)
SwapOk(c) ==
    /\ SwapAccountsOk(c)
    /\ Signed(c.authority) /\ OwnerOf(c.source) = c.authority
    /\ TokenOf(c.source) = TokenOf(c.pool_source)
    /\ TokenOf(c.destination) = TokenOf(c.pool_destination)
    /\ c.amount_in <= tx.acc.amount[c.source]

CallOk(c) ==
    CASE c.kind = "transfer"                      -> TransferOk(c)
      [] c.kind \in {"mint", "metadata", "revoke"} -> MintAuthorityOk(c)
      [] c.kind = "burn"                          -> BurnOk(c)
      [] c.kind = "close"                         -> CloseOk(c)
      [] c.kind = "swap"                          -> SwapOk(c)

\* execute_all runs the next call, and goes on when it has succeeded.
Calling(kind) ==
    /\ tx.calls # <<>>
    /\ NextCall.kind = kind
    /\ CallOk(NextCall)

Returned(acc) ==
    /\ tx' = [tx EXCEPT !.acc = acc, !.calls = Tail(@)]
    /\ UNCHANGED <<vars, wallet, nft_mint, referrer>>

Moved(amount, from, to, n) ==
    LET taken == [amount EXCEPT ![from] = @ - n] IN [taken EXCEPT ![to] = @ + n]

CallTransfer ==
    /\ Calling("transfer")
    /\ Returned([tx.acc EXCEPT
         !.amount = Moved(@, NextCall.from, NextCall.to, NextCall.amount)])

CallMint ==
    /\ Calling("mint")
    /\ Returned([tx.acc EXCEPT !.nft_mint[NextCall.mint].supply = @ + 1,
                               !.nft_holder[NextCall.mint] = tx.given.depositor])

CallMetadata == Calling("metadata") /\ Returned(tx.acc)

CallRevoke ==
    /\ Calling("revoke")
    /\ Returned([tx.acc EXCEPT !.nft_mint[NextCall.mint].authority = NoAuthority])

CallBurn ==
    /\ Calling("burn")
    /\ Returned([tx.acc EXCEPT !.nft_mint[NextCall.mint].supply = @ - 1,
                               !.nft_holder[NextCall.mint] = NoHolder])

CallCloseAccount == Calling("close") /\ Returned(tx.acc)

\* The pool takes some part of what it is offered and returns at least the minimum.
CallSwap(taken, received) ==
    /\ received >= NextCall.minimum_out
    /\ received <= tx.acc.amount[NextCall.pool_destination]
    /\ tx.acc.amount[NextCall.destination] + received < Two64
    /\ tx.acc.amount[NextCall.pool_source] + taken < Two64
    /\ Returned([tx.acc EXCEPT
         !.amount = Moved(Moved(@, NextCall.source, NextCall.pool_source, taken),
                          NextCall.pool_destination, NextCall.destination, received)])

CallSwapStep ==
    /\ Calling("swap")
    /\ \E taken \in 0 .. NextCall.amount_in, received \in ReceivedAmounts :
          CallSwap(taken, received)

-----------------------------------------------------------------------------
(* How an instruction ends *)

\* The accounts are written back.
Exit ==
    /\ tx.then = "exit" /\ tx.calls = <<>>
    /\ vault' = tx.acc.vault
    /\ vault_period' = tx.acc.vault_period
    /\ position' = tx.acc.position
    /\ referrer' = tx.acc.referrer
    /\ nft_holder' = tx.acc.nft_holder
    /\ nft_mint' = tx.acc.nft_mint
    /\ balance' = [v \in Vaults |-> [t \in Tokens |-> tx.acc.amount[<<v, t>>]]]
    /\ wallet' = [w \in Wallets |-> tx.acc.amount[w]]
    /\ tx' = Idle
    /\ UNCHANGED <<now, proto_config>>

\* Anything may fail: a check, a panic, a call, the compute budget.
Abort ==
    /\ tx # Idle
    /\ tx' = Idle
    /\ UNCHANGED <<vars, wallet, nft_mint, referrer>>

-----------------------------------------------------------------------------
InstructionInit ==
    /\ Init
    /\ wallet = InitialWallet
    /\ nft_mint = [p \in Positions |-> [supply |-> 0, authority |-> NoAuthority]]
    /\ referrer = [p \in Positions |-> NoHolder]
    /\ tx = Idle

StartDepositStep ==
    /\ tx = Idle
    /\ \E p \in Positions, v \in Vaults, depositor \in Users, n \in SwapCounts,
          amount \in DepositAmounts, end \in PeriodAccounts :
         \E source \in Wallets, ref \in PayoutAccounts, with_metadata \in BOOLEAN :
             StartDeposit(p, v, depositor, end, amount, n, source, ref, with_metadata)

\* The pool is named by its address, which is any key.
StartDripStep ==
    /\ tx = Idle
    /\ \E v \in Vaults, last, current \in PeriodAccounts :
         \E swap \in Swaps \cup {DefaultKey}, swap_a, swap_b \in Wallets,
            fee \in PayoutAccounts :
             StartDrip(v, last, current, swap, swap_a, swap_b, fee)

StartWithdrawBStep ==
    /\ tx = Idle
    /\ \E p \in Positions, v \in Vaults, withdrawer \in Signers, i, j \in PeriodAccounts :
         \E user_b \in PayoutAccounts : StartWithdrawB(p, v, withdrawer, i, j, user_b)

StartClosePositionStep ==
    /\ tx = Idle
    /\ \E p \in Positions, v \in Vaults, withdrawer \in Signers :
         \E i, j, expiry \in PeriodAccounts, user_a, user_b \in PayoutAccounts :
             StartClosePosition(p, v, withdrawer, i, j, expiry, user_a, user_b)

StartAdminStep ==
    /\ tx = Idle
    /\ \E v \in Vaults, admin \in Signers, destination \in PayoutAccounts :
         \/ StartWithdrawA(v, admin, destination)
         \/ \E token \in Tokens : StartAdminWithdraw(v, admin, token, destination)

\* Instructions that make no calls, and the world, in one step.
CallFree ==
    /\ tx = Idle
    /\ \/ \E c \in Configs, params \in ConfigParams : InitVaultProtoConfig(c, params)
       \/ \E v \in Vaults, admin \in Signers, list \in WhitelistParams :
             InitVault(v, admin, list)
       \/ \E v \in Vaults, k \in PeriodIds : InitVaultPeriod(v, k)
       \/ \E v \in Vaults, admin \in Signers, list \in WhitelistParams :
             SetVaultSwapWhitelist(v, admin, list)
       \/ \E p \in Positions, v \in Vaults, admin \in Signers :
             ClosePositionAccount(p, v, admin)
       \/ \E p \in Positions, to \in Users : TransferNft(p, to)
       \/ Tick
    /\ UNCHANGED <<wallet, nft_mint, referrer, tx>>

InstructionNext ==
    \/ CallFree
    \/ StartDepositStep
    \/ StartDripStep
    \/ StartWithdrawBStep
    \/ StartClosePositionStep
    \/ StartAdminStep
    \/ CallTransfer
    \/ CallMint
    \/ CallMetadata
    \/ CallRevoke
    \/ CallBurn
    \/ CallCloseAccount
    \/ CallSwapStep
    \/ VerifySwap
    \/ RefundA
    \/ DropPosition
    \/ Exit
    \/ Abort

InstructionSpec == InstructionInit /\ [][InstructionNext]_instruction

-----------------------------------------------------------------------------
(* Properties *)

NftMintType == [supply : Nat, authority : Vaults \cup {NoAuthority}]

\* Between instructions every account holds what its type can hold, and so do the
\* copies of the instruction under way, at each of its calls, and the amounts of the
\* transfers it is about to make.
InstructionTypeOK ==
    /\ TypeOK
    /\ wallet \in [Wallets -> Amount]
    /\ nft_mint \in [Positions -> NftMintType]
    /\ referrer \in [Positions -> Destinations \cup {NoHolder}]
    /\ tx # Idle =>
        /\ tx.acc.vault \in [Vaults -> VaultType]
        /\ tx.acc.vault_period \in [Vaults -> [PeriodIds -> PeriodType]]
        /\ tx.acc.position \in [Positions -> PositionType]
        /\ tx.acc.amount \in [TokenAccounts -> Amount]
        /\ \A k \in DOMAIN tx.calls :
              tx.calls[k].kind = "transfer" => tx.calls[k].amount \in Amount

\* All the steps of an instruction, calls that succeed one after another and the
\* work between and after them, come to one action of DripVault, and an instruction
\* that fails on the way, to none: what DripVault says of instructions is true of
\* the code that runs them.  This is Spec, with the steps inside an instruction, which
\* change nothing of DripVault's, set aside before Next is evaluated.
InstructionsAtomic == Init /\ [][vars' # vars => Next]_vars

\* No call of an instruction fails once its validation has passed, except for
\* accounts its sender chose or owns: a holder's withdrawal or close, whatever
\* others did before it, is never undone half way, nor a drip before the pool is
\* asked.  Transfers out of a vault, the mint's calls, the burn and the close of the
\* NFT's account in their order, and the accounts handed to either swap program.
CallsSucceed ==
    tx.calls # <<>> =>
        \/ CallOk(NextCall)
        \/ NextCall.kind = "transfer" /\ NextCall.from \in Wallets
        \/ NextCall.kind = "transfer" /\ TokenOf(NextCall.from) # TokenOf(NextCall.to)
        \/ NextCall.kind = "swap" /\ ~ SwapAccountsOk(NextCall)

\* A position's NFT is minted once: as long as the position is open or the NFT there,
\* whoever holds it is the only one, and nobody can mint another.
NftsMintedOnce ==
    \A p \in Positions : position[p].status = "open" \/ nft_mint[p].supply > 0 =>
        /\ nft_mint[p] = [supply |-> 1, authority |-> NoAuthority]
        /\ nft_holder[p] # NoHolder

\* An NFT is gone exactly when the signer who holds it closes its position: no other
\* instruction burns it, an admin's close included, and no close by its holder leaves it.
ClosedByHolder(p) ==
    position[p].status = "open" /\ position'[p].status = "closed" /\ tx.signer = nft_holder[p]

NftGoneWithPosition ==
    [][\A p \in Positions : nft_mint[p].supply > 0 =>
         IF ClosedByHolder(p)
         THEN nft_mint'[p].supply = 0 /\ nft_holder'[p] = NoHolder
         ELSE nft_mint'[p] = nft_mint[p] /\ nft_holder'[p] # NoHolder]_instruction

\* When someone else than the holder closes a position, no token account receives
\* anything but the holder's, the treasury's and the referrer's, wherever the NFT has gone
\* since the deposit.
PayoutsReachHolder ==
    [][\A p \in Positions :
         position[p].status = "open" /\ position'[p].status = "closed"
           /\ tx.signer # nft_holder[p] =>
             \A x \in TokenAccounts : Held(x)' > Held(x) =>
                 \/ OwnerOf(x) = nft_holder[p]
                 \/ x \in {TreasuryOf[position[p].vault], referrer[p]}]_instruction

\* Of all that a position withdraws, at withdrawals or at its close, the treasury
\* and the referrer of its deposit receive their shares, both when they are the same
\* account, whoever is paid the rest.  (A share due to the vault's own account stays there.)
FeesPaid ==
    [][\A p \in Positions :
         LET v == position[p].vault
             taken == position'[p].withdrawn_token_b_amount
                        - position[p].withdrawn_token_b_amount
             share(x) == (IF x = TreasuryOf[v] THEN TreasuryShare(v, taken) ELSE 0)
                           + (IF x = referrer[p] THEN ReferrerShare(v, taken) ELSE 0)
         IN  position[p].status = "open" /\ taken > 0 =>
               \A x \in {TreasuryOf[v], referrer[p]} \ {<<v, "B">>} :
                   Held(x)' - Held(x) >= share(x)]_instruction

\* A vault that limits its swaps trades with the pools on its list and no other,
\* although the list is padded with a key that anyone can name.
OnlyListedPoolsTrade ==
    [][\A v \in Vaults, s \in Swaps :
         /\ vault'[v].last_drip_period # vault[v].last_drip_period
         /\ \E w \in Wallets : WalletOwner[w] = s /\ wallet'[w] < wallet[w]
         => \/ ~ vault[v].limit_swaps
            \/ \E slot \in 1 .. WhitelistSize :
                  vault[v].whitelisted_swaps[slot] = s]_instruction
=============================================================================
