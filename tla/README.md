# Formal verification of the drip program

The drip program (`src/programs/drip`) is a Solana program for dollar-cost averaging.
Depositors put token A into a vault; once per *granularity* a keeper triggers a *drip*
that swaps a slice of everybody's A into B; a depositor withdraws the B that has
accumulated, or closes the position and also gets back the A that has not been spent.

The program never iterates over positions. A drip is O(1): the vault keeps one number
(`drip_amount`, the A to sell next), each period keeps one number (`dar`, how much of it
stops with that period) and one running average price (`twap`), and a position's share is
worked out from two of those averages when its holder asks. That bookkeeping is what this
project is about: it is small, incremental, spread over six instructions that anybody may
interleave, and nothing in the program ever recomputes it.

This directory holds TLA+ modules for that program, TLC configurations that check them on
small instances, and theorems that TLAPS proves for every instance.

    tlc -config VaultAccounting.cfg MCDripVault      # a run; the list is below
    tlapm DripAccountingProofs.tla                   # a proof module

## 1. Inventory

| Component | Source (under `src/programs/drip/src`) | State it keeps | Operations | Status |
|---|---|---|---|---|
| Vault core | `actions/{deposit,drip,withdraw}.rs`, `state/{vault,vault_period,position}.rs` | `Vault`, `VaultPeriod`, `Position` accounts; the position NFT; the vault's two token accounts | `deposit`, `deposit_with_metadata`, `drip_spl_token_swap`, `drip_orca_whirlpool`, `withdraw_b`, `close_position` | modelled |
| Set-up and administration | `actions/{init,admin}.rs`, `state/vault_proto_config.rs` | `VaultProtoConfig` accounts, the vault's swap whitelist | `init_vault_proto_config`, `init_vault`, `init_vault_period`, `set_vault_swap_whitelist`, `withdraw_a`, `admin_withdraw`, `admin_close_position_account` | modelled |
| Fixed-point mathematics | `math/mod.rs` | none | ten pure functions, most of which panic on overflow | modelled |
| Account constraints | `instruction_accounts/*.rs` | none | Anchor checks: seeds, `init`, `has_one`, mints, owners | partly: as guards; space, payers, rent and bumps are left out |
| Entry points | `lib.rs`, `state/traits.rs`, `macros/mod.rs` | none | `handle_action`: validate, then execute | modelled |
| Cross-program calls | `interactions/*.rs` | none | transfers, mint, burn, close, two swap programs, run in order by `execute_all` | modelled |
| Position NFT metadata | `interactions/create_token_metadata.rs` | none | one call to the Metaplex program | partly: the call, its place and its authority, not the text it builds |
| Events, errors, constants | `events`, `errors`, `constants` | none | | not modelled |
| Whirlpool layout, IDL, scripts, TypeScript tests | `src/programs/whirlpool`, `src/idl`, `src/scripts`, `src/tests` | | | not modelled |

**How the components interact.** There are no threads, callbacks or messages. Instructions
share accounts; the runtime runs each instruction atomically and rolls it back if any
check, arithmetic operation or nested call fails. All concurrency is between instructions:
depositors, NFT holders, the admin and any number of keepers send theirs in any order, and
each carries the accounts its sender chose, so an account handed in may be stale, of
another vault, or of another period. The clock runs on its own. The programs called (SPL
token, a swap pool) answer inside the instruction; a pool may take less A than offered or
return nothing without failing.

**What is hard here**, and what each component must therefore guarantee:

* *Order of instructions.* Deposits add to `drip_amount` and to the `dar` of a future
  period; drips subtract a period's `dar`; early closes subtract from both, but only while
  the position still drips. One mistake in one order and every later drip sells somebody
  else's A, or `process_drip`'s checked subtraction panics for ever. → `drip_amount` and
  every future `dar` are the sums they stand for; the vault's A covers what it owes.
* *Rounding.* Prices, their running averages, spreads and shares each round down, and a
  withdrawal is a difference of two rounded averages. → it never goes below what was
  withdrawn before (a panic would lock the position), and never adds up to more B than
  was bought.
* *Accounts chosen by the sender.* → prices once recorded are final. An instruction on one
  vault changes no record of another and takes nothing out of it. It may pay into another:
  the program does not look at who owns the token account a payment goes to.
* *Time.* → one drip per window of the granularity, however late or often it is triggered.
* *Inside an instruction.* A close pays out B before it computes the A to refund; a drip
  changes the vault before it knows what the swap returned; the position mint's authority
  is given up last. → the steps come to one atomic action or to nothing; no call fails
  half way through a withdrawal; an NFT is minted once, and burned with its holder's close only.
* *Where tokens go.* Two fees, a holder that changes, an admin who closes for the holder,
  pools that order the pair either way. → payouts reach the holder of the moment, fees the
  treasury and the referrer, and only listed pools trade.
* *The price limit.* An `f64` square root, truncated twice. → a drip moves the pool's price no
  further than the vault's slippage, and is not kept from using it.
* *Liveness.* The program has no scheduler. → with keepers, every position completes.

`PROJECT.json` lists the hazards one by one, each at its line.

## 2. Modules

| Module | What it holds |
|---|---|
| `DripMath` | `math/mod.rs`: shares, spreads, prices, averages, withdrawals, activation times |
| `DripSums` | the sum of a function over `1 .. n`, as a recursive function |
| `DripVault` | the state machine: accounts, one action per instruction, fairness, properties |
| `MCDripVault` | the constants of TLC's instances |
| `DripInstruction` | extends `DripVault`: the validation, effects and calls inside every instruction that makes calls, the programs it calls, and rollback; it implements `DripVault` |
| `MCDripInstruction` | its instances |
| `SqrtPriceLimit` | `calculate_sqrt_price_limit`, and drips through a whirlpool others trade with |
| `MCSqrtPriceLimit` | its instances |
| `EagerDca` | abstract specification: a vault that spends one share of every position at every drip |
| `DripRefinement` | the mapping under which `DripVault` implements `EagerDca` |
| `MCDripRefinement` | its instance |
| `DripSumsProofs` | lemmas about sums |
| `DripVaultProofs` | type correctness |
| `DripAccountingProofs` | the inductive invariant of the bookkeeping |
| `DripRefinementProofs` | the refinement |
| `DripHistoryProofs` | recorded prices, separate vaults, one drip per window |
| `DripBalanceProofs` | token A, exactly; token B covers what positions can withdraw |
| `DripInstructionProofs` | the inductive invariant of the inside of an instruction: atomicity, types, payouts, fees, pools |
| `SqrtPriceLimitProofs` | the price limit |

### Variables and accounts

| Variable | Code |
|---|---|
| `now` | `Clock::get().unix_timestamp` |
| `proto_config[c]` | `VaultProtoConfig` accounts |
| `vault[v]` | `Vault` accounts; `ConfigOf[v]` is the config in the address's seeds |
| `vault_period[v][k]` | `VaultPeriod` accounts; vault and period id are the address's seeds |
| `position[p]` | `Position` accounts, one per position NFT mint |
| `nft_holder[p]` | the wallet holding the one token of the NFT mint, or `NoHolder` |
| `balance[v][t]` | the amounts of the vault's token accounts |

An account that does not exist has `exists = FALSE` and otherwise the zeroed data a new
account is created with. A closed position keeps its fields in the model, as history: no
instruction can read them, a property about the past may. `status = "legacy"` is a position
an earlier version of the program marked with the deprecated `is_closed`; the current one
never sets it, so `Init` lets an upgraded program find such accounts (`LegacyPositions`,
`UpgradedVaults`), and `ClosePositionAccount` is the instruction that removes them.

### Actions and instructions

An action is an instruction that *succeeds*. The guard is the code's validation, the checked
arithmetic that would panic, the token balances that would make a transfer fail and the
checks after the calls; the primed variables are everything the instruction and its calls
change. An instruction that fails is rolled back: no step. Where a function of `math/mod.rs`
can panic, an operator `...Defined` says when it does not.

| Action | Instruction |
|---|---|
| `InitVaultProtoConfig`, `InitVault`, `InitVaultPeriod`, `SetVaultSwapWhitelist` | set-up |
| `Deposit` | `deposit`, `deposit_with_metadata` (they differ only in the NFT's metadata) |
| `Drip` | `drip_spl_token_swap`, `drip_orca_whirlpool` (they differ only in the pool called) |
| `WithdrawB` | `withdraw_b` |
| `ClosePosition` | `close_position`, by the holder or by the admin |
| `WithdrawA`, `AdminWithdraw` | the admin empties a token account of a vault with `drip_amount = 0` |
| `ClosePositionAccount` | `admin_close_position_account` |
| `TransferNft`, `Tick` | the world: the NFT changes hands, time passes |

The sender's choice of accounts is explicit: `Drip`, `Deposit`, `WithdrawB` and
`ClosePosition` are given any existing period accounts of any vault (`PeriodAccounts`), and
`IsPeriod` is the code's check on them. A swap takes any `swapped_a` up to what it is
offered and returns any `received_b`; `SwapCompleted` is the verification after it.

**Where payments go.** The code checks the mint of a referrer's account (`actions/deposit.rs:70-73`) and of a
treasury's (`actions/admin.rs:64-67`), and nothing of the account a holder's B or A is paid to
(`actions/withdraw.rs:329-335`) or a drip's fee (`actions/drip.rs:179-185`): each may be a token account of
the paying vault, or of another. So every payment of `DripVault` has a destination, one of the
`Destinations` of the instance: a vault's account `<<v, token>>`, or any other, whose amount is not of interest
there. `Paid` takes the amount from the vault and adds it where it goes, and `CanPay` says when the token program
lets it. A withdrawal is the three transfers of `execute_withdraw_b`, in their order, each on the
balances the one before has left (`AfterTreasury`, `AfterHolder`, `AfterReferrer`). `DripVault` lets each instruction
choose treasury and referrer afresh; `DripInstruction`, which implements it, keeps them as the code does.
Only two destinations are tied to a wallet, hence never a vault's: an admin who closes for the holder must name the
holder's accounts (`actions/withdraw.rs:53-83`), and `withdraw_a` one of the admin's own.

Abstractions: addresses are model values; all vaults of an instance trade the same two mints in
the same direction, so that each can be paid what another pays out; bumps, space, lamports and metadata are
left out, and so is `max_slippage_bps`,
which only the price limit reads (`SqrtPriceLimit`). A new position
takes the lowest unused mint (`FreshMint`): mints are interchangeable. The two things done
to these accounts outside the program that are *not* modelled are tokens somebody transfers straight
into a vault's token accounts (they only add to a balance, as the program's own payments into a vault do: they break the equality of
`TokenAExact` and no inequality) and a holder burning the NFT with the token program.

`Two64` plays two roles at once, as it does in the code: the number of values of a `u64`,
and the scale of a 64.64 price held in a `u128` of `Two64 * Two64` values. TLC runs with a
small power of two, and the overflow guards are at that width; the proofs hold for any.

### Inside an instruction (`DripInstruction`)

| Variable | Code |
|---|---|
| the variables of `DripVault` | the accounts between instructions |
| `wallet[w]` | amounts of all other token accounts: holders', referrers', the treasury's, pools' |
| `nft_mint[p]` | supply and mint authority of a position's mint |
| `referrer[p]` | `Position.referrer` |
| `tx` | the instruction under way: what it was given, its copies of the accounts (`acc`), the calls still to make, and what it does after them (`then`) |

| Action | Code |
|---|---|
| `StartDeposit`, `StartDrip`, `StartWithdrawB`, `StartClosePosition`, `StartWithdrawA`, `StartAdminWithdraw` | `validate`, and `execute` up to `execute_all` |
| `CallTransfer`, `CallMint`, `CallMetadata`, `CallRevoke`, `CallBurn`, `CallCloseAccount`, `CallSwapStep` | one `CPI::execute` each, on the account rules of the program called |
| `VerifySwap` | `execute_drip` after its calls: reload, verification, price |
| `RefundA`, `DropPosition` | the second half of `close_position`, and `close` of the account |
| `Exit` | the handler returns `Ok`: the accounts are written back |
| `Abort` | anything fails: all of it is undone |
| `CallFree` | instructions without calls, and the world, as in `DripVault` |

Token calls take effect on `tx.acc` at once, the program's accounts when the instruction
ends; nobody else sees either before `Exit`. No other instruction runs meanwhile, because
the runtime locks the accounts an instruction writes. `InstructionsAtomic`, which is
`DripVault`'s `Spec`, is the refinement: the mapping is the identity on the accounts, and every step but
`Exit` and `CallFree` is a stutter. The calls of two kinds of pool are built as the code
builds them, a whirlpool's from the comparison of one mint (`WhirlpoolSwap`). What the
sender chooses is any token account: of the wrong mint, the wrong owner or
the wrong pool, and for a payment a vault's own account or another vault's (`Destinations`; a transfer from an
account to itself moves nothing). Left out: lamports and rent.

### The price limit (`SqrtPriceLimit`)

One vault and one whirlpool: `max_slippage_bps`, `a_to_b`, `sqrt_price`, `last_drip_period`.
`InitVault` is its validation of the slippage, `DripOrcaWhirlpool` a drip that the pool fills
completely somewhere between the price and the limit (`Fillable`), `TradeByOthers` whatever happens
to the pool between drips. `SqrtFactors` is `floor(sqrt(1 ± bps / 1e4) * 1e4)`: the `f64` agrees with
the integer root except where that is exact, and there may be one less, so it is a set.

## 3. Properties

*Safety.* `TypeOK`; `PositionTerms`, `DripAmountIsSumOfShares`, `DarIsSumOfExpiringShares`,
`TokenASolvent`, `TokenAExact` (token A and its bookkeeping); `TokenBSolvent`,
`WithdrawalsNeverPanic` (token B); `DrippedPeriodsExist`, `OneDripPerWindow`.

*Inside an instruction.* `InstructionTypeOK`, `CallsSucceed`, `NftsMintedOnce`, and of
the steps `NftGoneWithPosition`, `PayoutsReachHolder`, `FeesPaid`, `OnlyListedPoolsTrade`.

*The price limit.* `SlippageUsable` and, of the steps, `DripsWithinSlippage`.

*Action properties.* `RecordedPricesFinal`, `VaultsIsolated`.

*Liveness.* `PositionsComplete`.

*Refinement.* `EagerSpec` (`DripVault` implements `EagerDca`), `InstructionsAtomic` (`DripInstruction`
implements `DripVault`).

Each is stated in words above its definition, and `PROJECT.json` names for each a mutant of
the code, a plausible bug, under which it fails.

## 4. Runs

The runs of `DripVault` and `DripInstruction` but `VaultAccounting` use `Two64 = 1024`. Periods go up
to `MaxPeriod`.

| Run | Instance | What it shows |
|---|---|---|
| `VaultAccounting.cfg` | one vault, `Two64 = 32`, 2 positions, periods to 3, deposits of 7 or 16 over 1–3 drips, 4 or 9 B per drip, admin takes A | the books balance in every order of instructions, no withdrawal panics, and rounding never promises more B than was bought |
| `TwoVaults.cfg` | two vaults, two configs, good and bad parameters, a whitelist one entry too long, a legacy position, 2 positions of one drip, periods to 2, payments to the outside or to either account of the second vault, admin takes B | validation keeps vaults and periods apart, and a payment into the second vault, by the first or by itself, changes nothing but its balance; everything is set up from nothing |
| `ExactSpending.cfg` | drip trigger spread 40 %, partial and empty swaps, two holders, no admin withdrawals | the vault's A is exactly the unspent A and the dust |
| `KeeperProgress.cfg` | 2 positions, granularity 2, a vault created in mid-window, clock runs 3 s past activation, two pools, whitelists changing all the time | every position completes or is closed; late drips do not share a window either |
| `EagerRefinement.cfg` | 2 positions and a legacy one, spread 40 %, failing swaps, admin takes both tokens, payments to the outside or into the vault's own A | every instruction is a step of `EagerDca`, or none |
| `InstructionSteps.cfg` | one position, two holders, an admin, a deposit of 5 over 1–2 drips, two fees that differ and round; every account choice, payments to any account but a pool's (the vault's own two included), every call, an abort anywhere | the steps of an instruction come to one action or none; no call fails after validation, a drip through a token-swap pool included; payouts and fees go where they belong; the NFT goes with its holder's close and no other way |
| `InstructionPools.cfg` | two positions of one vault, a reversed whirlpool and a second pool, three whitelists, spread 40 %, any fill, payments to any account but a pool's | the whirlpool gets the accounts it expects, only listed pools trade, only exact fills are kept; no call fails after validation, whatever the other position's instructions did; NFTs are minted once |
| `SqrtPrices.cfg` | `Bps = 100`, roots 3–120, slippages 0–101, both orders | the limit neither exceeds nor withholds the slippage, but for its rounding |
| `BuyingLimit.cfg` | `Bps = 10000`, roots about 20000, slippages 2 and 3 | a finding, below |
| `AggregateSpread.cfg` | two positions of one drip, of one or two units each, spread 40 % | a finding, below |
| `GranularityCast.cfg` | the largest granularity | a finding, below |
| `ShrinkingPayout.cfg` | one position of 4 A over two drips, spread 40 %, 1 or 6 B per drip | a finding, below |

**Why the bounds are enough.** Two positions in one vault, each of one to three drips, give
every relation two positions can have: same or different expiry, one nested in the other,
overlapping, disjoint, one closed early before, between or after drips. A third period
lets a position start after one drip and outlive another's expiry. The sums are over
positions one at a time, so a third adds no new case, and the proofs remove the bound
where it would matter. Deposits that divide evenly and ones that do not are both there.
Two vaults suffice for an account of the wrong vault. A payment into another
vault needs one vault that pays and one that is paid: the second vault's accounts are enough, and the second vault
paying itself is the case of a vault's own account. In the runs without `Destinations` of a vault (`Outside`)
the question is the arithmetic of one vault, which a payment that comes back can only leave with more than it
counts on; that it never counts on it is what `EagerRefinement` and the proofs, for any `Destinations`,
show. `ExactSpending` needs them left out. The bounds on behaviour are
`MaxPeriod`, `NumPositions` and the clock: a vault at `MaxPeriod` finds no next period, as a
vault whose period nobody has created does.

*The clock.* `Tick` stops `MaxIdle` seconds after the last activation time: a drip later than
that meets the same state as one at the bound. In the runs about amounts `MaxIdle = 0`, for
no amount depends on when a drip happens. Deadlock is checked in every run: the program
never stops for good, because an existing vault's admin can always send another whitelist.

*Instructions.* One position meets every call and every failure of its own instructions; a
second one shows that what one leaves in the vault never makes the other's calls fail.
Fees and the token-swap pool are in the run of one position, fills and the whirlpool in
that of two, to keep each small; there the other pool has no accounts, so that a drip through
it can only be rejected, by the whitelist or by the swap program. The amounts in
the wallets let holders deposit twice and pools fill every drip of the instance.

*The price limit.* TLC's integers have 32 bits, so the passing run scales basis points down
to a hundred in one, with every slippage there is then, values `init_vault` must reject included, and
prices on both sides of that precision. The theorems hold for every precision; the
violation run uses the code's own.

*The width of prices.* `WithdrawalsNeverPanic` needs prices large in units of their last
place. A running average rounds down, so `twap_j * j` may fall behind `twap_i * i` when the
`j - i` prices in between are all smaller than the error the averages can make, some `j`
units in the last place. In production a unit is 2⁻⁶⁴: it takes a swap that returns less than
one B for some 2⁶⁴ / j of A. An instance must have this property too: `PricesKeptUp` (section 6), and what its swaps return must add up to less than
`Two64`. `TokenBSolvent` holds at every price, but it would be checked for nothing where an error of one unit in the
last place never comes to a whole token. `VaultAccounting` meets both: with 5 fractional bits, 4 B for at most
23 A is a price of 5 units or more, against at most two drips before it, three swaps of 9 B fit in 32, and rounding an average *up*
instead already breaks `TokenBSolvent`. It has no drip trigger spread, because of the last finding.

*The admin and token B.* `admin_withdraw` may take token B from a vault in which finished
positions have not withdrawn: its only condition is `drip_amount == 0`. `TokenBSolvent` is
therefore checked with `AdminTakes = {"A"}`, and says so; and without a drip trigger spread,
because of the first finding.

**Fairness.** The program promises no progress by itself. `Fairness` is an assumption about
keepers, the off-chain callers the program is written for: time passes, the next period's
account gets created by someone, and somebody keeps triggering drips whose swaps fill. It
is weak fairness of each: nothing here can repeatedly enable and disable a drip except the
admin's whitelist, which with `SomeWhitelists` always leaves some pool allowed. Without it
`PositionsComplete` fails: a vault whose period account nobody creates stands still.

## 5. Findings

* **Spreads rounded per position and in the aggregate** (`AggregateSpread.cfg`). A drip takes
  the trigger spread on the vault's whole `drip_amount`, rounded down once
  (`actions/drip.rs:148`). A withdrawal subtracts the spread on *that position's*
  contribution, rounded down (`math/mod.rs:112`), under the comment "subtract spreads we've
  already taken". Shares too small for a spread of their own pay none, although the drip took
  one from their sum: together the positions are promised B for A that was never swapped. In the run, at 40 %,
  a share of one unit and one of two, each of a single drip, have `floor(0.4) = floor(0.8) = 0` subtracted, and the drip of their sum
  pays `floor(1.2) = 1` and swaps 2 units of the 3 it counts for them.
  The amounts are units in the last place of token A, less than one for each position.
* **A granularity of 2⁶³ or more** (`GranularityCast.cfg`). `granularity as i64` is negative;
  `init_vault_proto_config` accepts any granularity above zero; `process_drip` then moves
  the activation time into the past, against the comment at `state/vault.rs:90`.

* **A slippage of one or two basis points when the price rises** (`BuyingLimit.cfg`).
  `math/mod.rs:14-15` wants a limit above the current price. The factor
  `floor(sqrt(1.0001) * 10000)` is `10000`, and so is that of two basis points; `init_vault` accepts both
  (`actions/admin.rs:79-83`). The limit is then the price itself, the pool fills nothing, and the vault
  cannot drip through that pool. From three basis points on the factor is above one.
* **A maximum that falls below what was withdrawn** (`ShrinkingPayout.cfg`). With a drip trigger spread,
  a withdrawal subtracts the spread on the position's contribution so far, rounded down once on all
  of it (`math/mod.rs:112`): none after one drip of 2 A at 40 %, one unit of A after two. When the second
  drip's price has fallen so far that it adds less B than that unit is worth at the average price, the position's
  maximum shrinks, and `get_withdrawable_amount_with_max` panics on the difference
  (`state/position.rs:58-62`): 6 B withdrawn, then a maximum of 5. `close_position` makes the same computation, against the
  test "should be able to close position after withdrawing" (`tests/integration-tests/batch1/closePosition.ts:378`); once the
  position's drips are over nothing raises the maximum again. One unit of A is at stake, so it
  takes tiny shares, or a price that collapses by a factor of the size of a share.

## 6. Proofs

Assumptions: the constants' assumptions of `DripMath` and `DripVault` (`AddressAssumption`,
`BoundAssumption`, `SpreadAssumption`, `WidthAssumption`, `BpsAssumption`), those of `DripInstruction`
(`WalletAssumption`) in its proofs, and nothing else. They are weak: numbers of vaults, positions,
periods and token accounts, amounts, widths and inputs are arbitrary. TLC evaluates them in every run. Six theorems assume something more of the
inputs, in their own statement, and one of these, `NoWithdrawalPanics`, of the prices as well.

| Theorem | States |
|---|---|
| `TypeCorrect` | `Spec => []TypeOK` |
| `Accounting` | `Spec => []AccountingInv`, the inductive invariant |
| `DripAmountCorrect`, `DarCorrect`, `VaultSolventInA`, `OpenPositionsSound`, `PeriodsComplete` | its parts `DripAmountIsSumOfShares`, `DarIsSumOfExpiringShares`, `TokenASolvent`, `PositionTerms`, `DrippedPeriodsExist` |
| `Refinement` | `Spec => EagerSpec` |
| `PricesFinal`, `VaultsApart` | `Spec => RecordedPricesFinal`, `Spec => VaultsIsolated` |
| `WindowsKept` | `Spec => []OneDripPerWindow`, if every granularity is below `Two64 \div 2` |
| `SpendingExact` | `Spec => []TokenAExact`, if the admin takes no A and no vault's token A account is among the `Destinations` |
| `VaultSolventInB` | `Spec => []TokenBSolvent`, without a drip trigger spread and if the admin takes no B |
| `NoWithdrawalPanics` | `Spec /\ PricesKeptUp => []WithdrawalsNeverPanic`, without a drip trigger spread and if what `MaxPeriod` swaps return fits 64 bits |
| `PricesKeptUpByReceipts` | `Spec => PricesKeptUp`, without a drip trigger spread and if every swap that fills returns at least `2 * MaxPeriod` of B |
| `InstructionInvariant` | `InstructionSpec => []InstructionInv`, the inductive invariant |
| `InstructionsAreAtomic`, `InstructionsImplementVault` | `InstructionSpec => InstructionsAtomic`, `InstructionSpec => Spec` |
| `InstructionTypeCorrect`, `MintedOnce` | `InstructionSpec => []InstructionTypeOK`, `InstructionSpec => []NftsMintedOnce` |
| `NftGoneWithItsPosition` | `InstructionSpec => NftGoneWithPosition` |
| `FeesArePaid`, `PayoutsReachTheHolder`, `ListedPoolsOnly` | `InstructionSpec => FeesPaid`, `... => PayoutsReachHolder`, `... => OnlyListedPoolsTrade` |
| `NoCallFails` | `InstructionSpec => []CallsSucceed`, if what there is of each mint fits 64 bits, without a drip trigger spread and if the admin takes no B |
| `TypeCorrect`, `SlippageRespected`, `SlippageNotWithheld` of `SqrtPriceLimitProofs` | `TypeOK`, `DripsWithinSlippage`, `SlippageUsable` of `SqrtPriceLimit` |

**Type correctness** (`DripVaultProofs`) is not inductive alone: that a spread is at most the
amount it is taken from needs the checks of `init_vault_proto_config` to hold of the config
of every vault that exists (`ConfigsValid`). One lemma per operator of `DripMath` gives the
range of its result, one per instruction shows the step.

**The books** (`DripAccountingProofs`). None of the five properties is inductive:

* a drip subtracts `dar` from `drip_amount`; that this leaves the sum of the shares needs
  `DarIsSumOfExpiringShares` for the period dripped;
* a deposit adds to the `dar` of its expiry, an early close subtracts from it: the amount is
  the position's share only if it was counted there, which is that property again, and the
  account must exist, which is `PositionTerms`;
* `TokenASolvent` survives a drip because what leaves is `drip_amount`, which must be the sum
  of the shares; it survives the admin because `drip_amount = 0` makes every share zero, hence
  every position's unspent A (`NothingUnspent`);
* a vault or a period created late must start with zeroes (`AccountsFresh`).

`AccountingInv` is the conjunction of all of them with the types. Every step is one of three
kinds: it changes no share (`QuietStep`), one position's shares (`OneShareChanges`: deposits and
closes) or every share of one vault (`DripShareChanges`: drips). The sums themselves are
handled by `DripSumsProofs`: changing one term changes the sum by as much (`SumUpdate`), sums
add (`SumAdd`), a term is at most the sum (`SumBounds`). `SumTo` is a recursive *function*, and
the facts about it are proved by taking the least index at which they fail.

**Refinement** (`DripRefinement`, `DripRefinementProofs`). `EagerDca` says what a depositor thinks
happens: at each drip, every position with drips left spends one share. The mapping computes a
position's drips left from its expiry and the vault's last drip. Under it a deposit is `Open`,
a drip `DripAll`, a close `Close`, an admin withdrawal of A `TakeDust` (allowed only when nobody
has drips left), and every other instruction is no step. What the eager vault spends may come back to a vault, as a fee, a refund or the
admin's withdrawal may: `Spends` says where. `EagerShares` is the heart: what the
eager vault sells is the lazy one's `drip_amount`, by `AccountingInv`.

**History** (`DripHistoryProofs`). `StepRecords` says what a step can do to the records of a vault: keep
them all (`KeepsRecords`), or drip the next period and no other (`Drips`). It needs one fact beside
`AccountingInv`, that a period account nobody created holds no price (`PeriodsFresh`), or creating
one could change it; together they are `HistoryInv`. Two of the theorems follow at once. Windows need
more: that a vault's activation time is still the one its last drip set (`WaitsForNextWindow`), computed
from a config that has not changed since (`ConfigsGiven`). Then `NextWindow`, about division, says that
a time at or after it lies in a later window. Granularities of `Two64 \div 2` and more are excluded
because of the second finding.

**Token A, exactly** (`DripBalanceProofs`). `ExactInv` adds to `AccountingInv` the equality itself and that legacy
positions hold nothing. A deposit brings in its unspent A and its dust; a drip takes from each position's
unspent A one share; a close pays out the unspent A and leaves the dust.

**Token B** (`DripBalanceProofs`). `TokenBSolvent` is not inductive: what a position can withdraw is rounded
three times, and after a drip it may have grown by more than the difference of two rounded numbers
shows. `Claim` undoes the rounding of the withdrawal: the difference of the averages, each
*times its number of drips*, times the periodic amount, less what has been withdrawn, in units of
`1 / Two64`, or zero if that (`NetClaim`) is negative: a position whose own withdrawal would fail
does not make room for another's. `ClaimsCovered`, that the claims of a vault's positions add up to at most its B, is
inductive:

* a drip raises the weighted average by at most its price (`NewTwapWeight`, since the average rounds
  down), so every position's claim grows by at most the price times its share (`ClaimGrows`); the
  shares add up to `drip_amount`, by `AccountingInv`, and the price times that is at most the B received
  (`PriceTimesAmount`);
* a withdrawal takes exactly what it pays out off the claim, and a close, which ends the claim, pays out no more
  than it (`ClaimCovers`);
* a new position has no claim yet.

`ClaimsSuffice` gives the property: what each position can withdraw (`OwedB`) is at most its claim. The spread is assumed to be
zero because of the first finding, and the admin to leave B alone because the code lets him take it.

**Withdrawals** (`DripBalanceProofs`). A position's `Promise` is what it could withdraw in all, fees included, if it had
withdrawn nothing yet. Between two drips it does not change, and a withdrawal sets what is withdrawn to it; the
question is whether a drip can lower it. A running average loses less than one unit of the last place, hence the
*weighted* average (the average times its number of drips) up to one per drip there has been (`WeightGrows`), and the
quotient the promise is computed from up to one per drip of the position. A price of twice the number
of drips before it pays for both (`PromiseGrows`): that is `PricesKeptUp`, a property of behaviours. `WithdrawalInv` says that a position's
prices add up to no less than zero and to no more than its swaps brought in, that no intermediate product
leaves a `u128`, and that what was withdrawn is at most the promise. `PricesKeptUpByReceipts` gives a condition on the
inputs alone: on chain a price has 64 fractional bits, and a swap that returns two units of B per period of the
vault is enough whatever is sold. The drip trigger spread is assumed to be zero because of the last finding, under which the
promise itself shrinks.

**Inside an instruction** (`DripInstructionProofs`). When the last call has been made, `Exit` writes copies back that
were made when the instruction started; that this is the one action of `DripVault` with the same
inputs must follow from the state just before. So `InstructionInv` says, of every state, that no
instruction is under way or that one is `Underway`, at one of six stages. A stage relates the accounts, which do not
change while the instruction runs, to its copies and to the calls it still has to make.

* `Depositing`, `Dripping`, `Emptying` (the two withdrawals of the admin): the validation held of the accounts
  (`DepositValid`, `DripValid`), the copies hold what was written before the calls (`DepositWritten`, `DripWritten`),
  and the calls still due are one of the ends of the list the code builds, with the token amounts and the mint
  as the calls already made have left them (`DepositCalling`, `DripCalling`). A drip is in one of three states:
  before the swap, after it, and verified, with the price recorded (`PriceWritten`).
* `WithdrawingB`, `ClosingB`, `ClosingA`: a close withdraws B as `withdraw_b` does, then refunds A, burns the NFT and drops
  the position. Which transfers there are depends on which amounts are zero, so the calls still due are given by the
  *set* of those in a fixed row (`InRow`), and the amounts by the transfers already made (`PaidSoFar`, `FeesArrived`). That set
  shrinks by one with each call.

Validation therefore cannot grow stale between `StartDrip` and `VerifySwap`: that is what the locks of
the runtime give. Every step is a start (it leads from
`Idle` to the first stage, or to the last for an instruction without calls), a call (it leaves the accounts, and
moves within a stage), `VerifySwap`, `RefundA` and `DropPosition` (from one stage to the next), `Exit` (which is an
action of `DripVault`, by what the last stage says) or `Abort`. A payout may return to the vault it left, or reach another one: then the amounts of the copies are no longer
the vault's less what has been paid, so `PaidSoFar` takes them from the balances `DripVault` has after each of the transfers
(`AfterTreasury`, `AfterHolder`, `AfterReferrer`), whatever accounts they went to. The five properties about
tokens and NFTs follow:

* `FeesArePaid`: at the end of a withdrawal or a close no transfer is due, so both fees have arrived, in two accounts or in one
  (the treasury's may be the referrer's);
* `NftGoneWithItsPosition`: the mint and the NFT's holder change within a deposit, whose mint is new, and in the second
  half of a close, which burns exactly when its signer is the holder; every `Exit` but these writes the NFT back as it was (`NftsAtEnd`);
* `PayoutsReachTheHolder`: a close by another than the holder can name only accounts of the holder, and the stages keep track of
  who has received anything (`Received`);
* `ListedPoolsOnly`: the only step that takes from an account of a pool and makes a vault drip is the `Exit` of a drip, and
  `DripValid` has the whitelist's check of the pool it asked;
* `InstructionTypeCorrect`: what a transfer moves is a checked sum or difference of amounts, or a refund whose computation has been
  checked to fit 64 bits.

`NoCallFails` needs more than the stages, for a call fails when an account lacks an amount or cannot hold it:

* the vault holds what it is asked for: a drip spends `drip_amount`, which is the sum of the open shares (`DripBacked`), a close refunds
  what its position has not spent (`RefundBacked`), and a payout is at most what the positions can withdraw
  (`PayoutBacked`, by `ClaimsCovered`): hence the two conditions `VaultSolventInB` has as well;
* the receiver can hold it: a transfer or a swap leaves what there is of each mint as it was (`SupplyKept`, a sum over
  a `Listing` of the token accounts), and no two accounts hold more than that (`TwoWithinSupply`). That the mint's
  supply fits 64 bits is the token program's own rule, so it is a hypothesis about the initial amounts and an invariant from there;
* the accounts are the right ones, in the order the pool's program wants them (`SwapCallShape`), and the NFT is burnt before
  its position is closed.

`InstructionsImplementVault` has a consequence worth naming: every theorem about `DripVault` holds of the program with
its calls, its rollback and its write-back.

**The price limit** (`SqrtPriceLimitProofs`). The bounds are inequalities between products of the factor, the price and
the slippage: the factor's square is at most the share, and the square of one more exceeds it;
each is multiplied by the square of the price and compared with the scaled limit.

**What only TLC checks:** liveness (`PositionsComplete`), which is out of the prover's reach. Every other property of a passing
run is stated by a theorem; the conditions some of these have (spread, prices, granularities, the admin's
withdrawals, amounts within 64 bits) are the ones without which the code does not keep it.

## 7. Order of the work, and what is not modelled

The modules were built in the order of what depends on what: `DripMath` and `DripVault`, the
eager specification, the proofs of types, books and refinement; then the price limit, the inside of
an instruction, the proofs about history, token A and token B, and those about the inside of an instruction.

**Not modelled**, and why:

* *Events, error codes and constants*: no state depends on them; an error is an instruction that does
  not happen.
* *The text of the NFT's metadata*: a name and a URL built from the mint's key. The call itself is modelled.
* *Space, rent, payers and bumps* of Anchor's constraints: they decide who pays for an account, not what is in it.
* *The layouts of the whirlpool program's accounts* (`src/programs/whirlpool`): a stub to read one field, `sqrt_price`.
* *The mathematics of the pools*: a swap may return anything a pool can; the drip's own checks are what
  is modelled.
* *Clients, scripts, the IDL and the tests*: they send the instructions whose every order is allowed here.
