# A formal model of Fluid on Solana

Fluid (Jupiter Lend) is a set of Anchor programs around one shared *liquidity
layer*: protocols supply tokens to it and borrow from it, and every user
product (fTokens, vaults, flashloans) is a protocol on top. This directory holds
TLA+ modules of those programs, the configurations under which TLC checks
them, and machine-checked proofs about them. Paths below are relative to the
repository root `src/`.

Contents: 1 inventory, 2 plan, 3 the modules and the code, 4 the runs, 5 bounds,
6 fairness, 7 proofs, 8 findings, 9 what is not modelled.

## 1. Inventory

### 1.1 Liquidity (`programs/liquidity`)

State. One `Liquidity` account (authority, revenue collector, lock) and one
`AuthorizationList` (auths, guardians, user classes). Per mint a `TokenReserve`
(exchange prices, cached utilization and borrow rate, fee, four running totals,
the claim total, the `interacting_*` snapshot), a `RateModel` (one or two
kinks), and a token account, the *vault*. Per protocol and mint a
`UserSupplyPosition` and a `UserBorrowPosition` (amount, limit in force, limit
parameters, status, interest mode). Per user and mint a `UserClaim`.

Operations. `pre_operate` (snapshot of the vault balance), `operate` (supply,
withdraw, borrow and pay back in one call), `claim`, `init_claim_account`,
`close_claim_account`, `update_exchange_price`; for auths
`update_rate_data_v1/v2`, `update_token_config`, `update_user_supply_config`,
`update_user_borrow_config`, `update_user_withdrawal_limit`, `update_user_class`,
`change_status`, `collect_revenue`, `init_new_protocol`; for guardians
`pause_user`, `unpause_user`; for the authority `update_auths`,
`update_guardians`, `update_authority`, `update_revenue_collector`.

Interactions. A deposit is three instructions: `pre_operate`, a token transfer
by the caller, and `operate`, which looks at how the vault balance grew since the
snapshot. Nothing makes the three one transaction; `operate` only requires
that the snapshot is by the same protocol and of the same second.

Hard behaviour. Interleavings of those three instructions by several protocols;
arithmetic with a rounding direction for every conversion, over a long history;
caches (utilization, rate) that must follow everything they are computed
from; limits that expand with time and are rewritten by each operation; mode
switches that convert one position and two totals; amounts promised to
claimants and left in the vault; administration in any order.

Correct when: totals are the sums of the positions and of the claims; no step
makes the layer owe more than it has; interest is charged at the current rate
for exactly the elapsed time; neither limit can be passed or reopened by
splitting operations; privileges follow the authority and nobody else.

### 1.2 Flashloan (`programs/flashloan`)

State. `FlashloanAdmin`: authority, status (paused or not), fee, and of the loan
under way an active flag, its amount and the time it was taken.
Operations. `flashloan_borrow` (checks the instructions of the transaction, marks
the loan active, borrows from liquidity), `flashloan_payback` (repays amount and
fee), and administration (fee, authority, pause, activate).
Hard behaviour. Correctness is a property of the whole transaction: the borrow
reads the instruction list to see that exactly one matching payback follows and
no other flashloan call does (`validate.rs`). The payback transfers amount plus
fee but operates amount only, which has to fit the excess window of `operate`.
Correct when: no transaction commits with a loan open, every committed loan
paid its fee, every fee the authority may set can be paid, and a borrower who
pays is not refused because of rounding.

### 1.3 Lending (`programs/lending`) and its rewards (`programs/lendingRewardRateModel`)

State. `Lending`: token exchange price, stored liquidity exchange price, time of
the last update, the fToken mint; `LendingRewardsRateModel`: the current and
the next reward period (start, end, duration, yearly reward) and TVL floor.
Operations. `deposit`, `mint`, `withdraw`, `redeem`, `update_rate`, `rebalance`;
`start_rewards`, `stop_rewards`, `cancel_queued_rewards`, `queue_next_rewards`,
`transition_to_next_rewards`, and administration of both programs.
Interactions. Deposits go through `pre_operate`, transfer, `operate` of liquidity,
with the supply position read before and after the call; the token price grows with
the liquidity supply price and with the rewards the rate model reports for
the current and next period (`utils/helpers.rs`).
Hard behaviour. Shares are minted for the growth of the position in raw units, over several
roundings; rewards computed over
the overlap of the time since the last update with two periods, which may be
stopped, queued or moved on between updates; rounding of shares against users.
Correct when: fTokens are never worth more than the position plus rewards due;
no second of a reward period is credited twice; the token price never falls.

### 1.4 Vaults (`programs/vaults`)

State. Per vault a `VaultConfig`, a `VaultState` (totals, top tick, current
branch, absorbed amounts, exchange prices), `Position`s (collateral, tick, tick
id, dust debt), `Tick`s (raw debt, total ids, liquidation data),
`TickIdLiquidation` (history of a tick), `Branch`es (status, minima tick,
debt factor, connected branch), and `TickHasDebt`, a bitmap of ticks.
Operations. `init_position`, `close_position`, `operate`, `liquidate`, `absorb`,
`rebalance`, and administration (rates, collateral factors, thresholds, fees,
rebalancer, oracle, authority).
Interactions. CPIs into liquidity for both tokens, into the oracle for the price.
Hard behaviour. Liquidation does not visit positions: it moves ticks into
branches and scales a debt factor; a position finds out later what is left of it
(`fetch_latest_position`). Ticks are reused under new ids, branches merge
and close, debts below a minimum are rounded away, absorbed debt is taken over
by later liquidators. An operation reads the debt of its position rounded up and puts it back
rounded down, so it erodes the tick it shares with others. Amounts go through four roundings on the way to the layer.
Correct when: the debts of positions, read through their branches, sum to the
vault's debt; the bitmap and the top tick agree with the ticks; branches form a
forest that leads to the base branch; no position is both liquidated and whole.

### 1.5 Oracle (`programs/oracle`)

State. `OracleAdmin` (authority, auths), `Oracle` (a list of sources with
multiplier, divisor and inversion). Operations. `init_oracle_config`,
`update_auths`, `update_authority`, `get_exchange_rate*`. Hard behaviour. Hops
over several feeds with different age limits for operate and liquidate; a rate of
zero is an error. Correct when: no stale source is used and the composed rate
is within rounding of the product of the hops.

### 1.6 Library (`crates/library`)

`safe_math`, `ceil_div`, `floor_div` (checked arithmetic), `tick` (tick to ratio),
`bn` (floating point of 35 + 15 bits), `u256`, `merkle`, token and instruction
helpers. Pure functions.

### 1.7 Off-chain code

`ts-sdk`, `cli`, `test-utils`, `tests`, `__tests__`: instruction builders, read
helpers and test harnesses. They keep no protocol state.

## 2. Plan

Order of work, the core first:

| # | Module | Models | Composes | State |
|---|--------|--------|----------|-------|
| 1 | `AccessControl` | authority, auths, guardians, classes, lock | | done, proved |
| 2 | `FixedPoint`, `LiquidityMath` | divisions; exchange prices, utilization, rate curve, revenue | | done, lemmas |
| 3 | `Positions` | supply and borrow positions, limits, mode conversion | 2 | done, lemmas |
| 4 | `Liquidity` | one mint under every instruction | 1, 2, 3 | done; every safety property proved |
| 5 | `Flashloan` | transactions as instruction sequences, borrow, payback, fee | all of 4 | done; proved but for `PaybackAccepted` |
| 6 | `SupplyAccount`, `LiquidityAccounts` | abstract promise of the layer to one protocol; the layer implements it | 4 refines `SupplyAccount` | done; refinement proved |
| 7 | `RewardsModel`, `Lending` | reward periods; fToken price, every user instruction, rebalance | 6 | done; proved but for liveness |
| 8 | `BigNumber`, `TickMath`, `TickBitmap` | debt factors, ticks and ratios, the index of ticks | | done |
| 9 | `VaultStore`, `VaultLiquidation`, `Vault` | ticks, branches, positions; operate, liquidate, absorb | 8 | done; links, index, top, debts lent, lock-outs and types proved |
| 10 | `VaultLedger` | totals and exchange prices of a vault against its positions in the layer, rebalance, every setter | | done; proved |
| 11 | `Oracle` | composed rates, age limits | | left out (section 9) |

Still worth doing: a bound on how far the ratio of a liquidation's end can miss its tick, from which
`EndsBeside` would follow instead of being assumed and checked (section 7); it has to relate the scale of ratios to the
minimum debt. With it, the sums over positions (`BranchCoversPositions`, `CollateralCovers`), which need a bound for the
rounding of factors along a history. Then the authority lists of `VaultAdmin`, `LendingAdmin` and the rewards program,
which repeat the pattern of `AccessControl`.

## 3. The modules and the code

Conventions. A Solana instruction is atomic and rolled back when it fails, and
instructions that write the same account are serialised: each handler is one
action, and what the handler refuses is an action that is not enabled. A call into
another program is part of the instruction that makes it.
Account constraints of `context.rs` (signer, seeds, `has_one`) are guards or
parameters. Names are those of the Rust code. `now` is the clock, and `Tick` moves it.

**`AccessControl`** – `Liquidity` and `AuthorizationList`. `authority`,
`revenue_collector`, `locked`, `auth_users`, `guardians`, `user_classes` are the
fields of the two accounts. The list updates rebuild a vector from a hash map,
so the lists are sets, and an update is a sequence of `(addr, value)` whose last
entry for a key counts. Actions: `UpdateAuths`, `UpdateGuardians`,
`UpdateAuthority`, `UpdateRevenueCollector`, `ChangeStatus`, `UpdateUserClass`
(`module/admin.rs`).

**`FixedPoint`** – `DivCeil` and `DivTrunc` beside the floor of `\div`, and
`SaturatingSub`: the roundings of the library and of Rust's integer division.

**`LiquidityMath`** – pure operators on a reserve and a rate model:
`CalculateExchangePrices`, `CalcUtilization`, `CalcBorrowRate`, `CalcRevenue`
(`state/token_reserve.rs`, `state/rate_model.rs`), with the division of each
line: floor, ceiling, or towards zero. The decimal scales are constants.

**`Positions`** – pure operators on a position: the limit in force before an
operation, whether the operation is accepted, the position after it, the
configurations, the conversion between interest modes
(`state/user_supply_position.rs`, `state/user_borrow_position.rs`, and the parts of
`module/admin.rs` that convert). An amount is raw (a share of the total) in a
position with interest and tokens in a position without.

**`Liquidity`** – extends both with `now`, `vault`, `reserve`, `interacting`,
`rate_model`, `supplyPos`, `borrowPos`, `claimOpen`, `claimAmount`.
`PreOperate` and `Operate` are `module/user.rs`; `TransferIn` is the token
transfer anybody may make, and `Tick` is the clock. `Operate` carries out the
handler in the order of the code: prices to this second, checks, both positions,
totals, price and rate written back, utilization cap, snapshot cleared, payout
or claim. `update_user_supply_config` and `update_user_borrow_config` are two
actions each: one that keeps the interest mode and one (`SwitchSupplyMode`,
`SwitchBorrowMode`) that converts it. An account that does not exist yet is a
position with status `Absent`.

**`Flashloan`** – extends `Liquidity` with transactions. `ixs` is the list of
top-level instructions, as the instructions sysvar shows it, `index` the next to run
and `before` the state at the start. `Begin` and `Commit` delimit a
transaction and `Abort` restores everything to `before`: an instruction fails for a
reason of the model (its action is not enabled) or for any other. `FlashloanBorrow`
is `flashloan_borrow` with `validate.rs` and the CPI into `operate`, which is the
action `Operate` of `Liquidity` itself. `flashloan_payback` makes three calls and is
three actions, `PaybackRecord`, `PaybackTransfer` and `PaybackOperate`, with nothing
between them but `Abort`; that makes the moment before `operate` a state that
properties can talk about. `SetFlashloanFee`, `PauseProtocol`, `ActivateProtocol` and
`HandOver` (`update_authority`) are instructions of a transaction too, and may also be
called by another program (`cpi`), which the sysvar does not show as an instruction
of the flashloan program. `OtherInstruction` is any instruction of the layer by
anybody else inside the transaction; the same steps happen between transactions,
and time passes only there. The signer of an instruction stands for its whole list of
accounts, which `is_flashloan_payback_instruction` compares.

**`SupplyAccount`** – what the layer promises a protocol: the raw amount of its
supply position changes only by its own deposits, rounded down, and withdrawals,
rounded up, at an exchange price that never falls. **`LiquidityAccounts`** states that
`Liquidity` implements this account for every protocol at once (`Account(p) ==
INSTANCE SupplyAccount WITH ...`: the price is the accrued supply price and the raw
amount that of the position of `p`). `HoldTokens` and `SwitchMode` are the interest-free mode
and the conversion, which an auth of the layer can force on a protocol.

**`RewardsModel`** – pure operators on `LendingRewardsRateModel`: the rate at a time
and a market size (`state/state.rs`), and for each instruction of the rewards
program whether it is accepted and the schedule it leaves
(`lendingRewardRateModel/src/lib.rs`, `state/context.rs`).

**`Lending`** – one market over `SupplyAccount` (`Layer!Supply`, `Layer!Take`) with one
schedule. `token_price`, `liquidity_price` and `last_update` are the fields of
`Lending`, `supply` and `shares` the fToken mint and its accounts, `linked` says whether
the rewards model is set, without which every instruction fails. `UpdateRates` is
`update_rates`, the first step of every user instruction; `CurrentReturn` and
`NextReturn` are the two overlaps of `calculate_new_token_exchange_price`. The
instructions with limits are the plain ones and a condition. Instructions of the rewards
program that call `update_rate` before they change the schedule do both in one step.
Who may sign is left out.

**`BigNumber`** – `bn.rs`: a coefficient of fixed size and an exponent, with the rounding
of each operation; the powers of two it shifts by are a table (`TwoTo`), and the length of a number counts the powers
not above it. **`TickMath`** – `tick.rs` by what its two functions return: the ratio of
a tick, and the tick whose ratio is the last one not above a given ratio.
**`TickBitmap`** – `tick_has_debt.rs`: arrays of maps of bits, a map being the set of
its bits; `clear_bits`, and the search for the next tick within a map, across maps and across
arrays.

**`VaultStore`** – the record of `VaultState`, `Tick`s, `TickIdLiquidation`s, `Branch`es and
`TickHasDebt`, and operators on it for what `operate` does with them: reading a position back
through its branches (`fetch_latest_position`), taking it out, putting it into a tick, moving
the top. An operator `X` comes with `CanX` or `XDefined`, the conditions under which the code
does not fail. **`VaultLiquidation`** – the loop of `liquidate` and `absorb`:
from the top down, from tick to tick or to the minima of a branch, merging and closing
branches on the way. The three loops of the code (along merged branches, along the branches to close, down the
ticks) are functions from the number of turns to what they carry (`Onto`, `CloseBranch` and `Turn` are one turn),
up to a number at which each has ended: connections lead to lower ids, and all turns of a liquidation but the
last go on to a lower tick with debt or merge a branch. A liquidation that did not end within `MaxTurns` would count as failed, and never be a step. `CanSell`
is the safe subtractions and divisions of a turn; what `end_liquidate` says of rounding is `EndsBesideReference`. Tick, branch and tick-id accounts are those the code finds
or creates; that a caller leaves one out only makes the instruction fail.

**`Vault`** – `InitPosition`, `ClosePosition`, `Operate`, `Liquidate` and `Absorb` as single steps on this
store, at constant exchange prices and in raw amounts, with the oracle's price chosen anew at every
step. The caller's slippage limit and the dry run to the dead address only fail an
instruction, and are left out.

**`VaultLedger`** – the other half of the same instructions: `total_supply` and
`total_borrow` with the vault's exchange prices, beside `held` and `owed`, the raw positions of
the vault in the layer, whose prices grow with time. Which position an operation is about and
how much a liquidation takes is the subject of `Vault`; here they are any
amounts the totals allow. It has the scaling of tokens with fewer than nine decimals,
the rounding up of calls by a token, the withdrawal gap, the magnifiers of the
two rates, `Rebalance`, and every setter of `VaultConfig` (`module/admin.rs`), one at a time and
all at once.

**`MCAccessControl`, `MCLiquidity`, `MCFlashloan`, `MCLending`, `MCVault`, `MCVaultLedger`** – arguments and
initial states for TLC. In `MCLiquidity`, `Configured` is the state after listing a mint, with the
positions of established protocols set up; runs that are about operation start there, and
the run `liq_listing` starts from the empty accounts. `ServingNext` and `TuningNext`
are sub-relations of `Next` (fewer administrative instructions), and `BooksNext` takes one or the other according to the initial state, so
that a run can afford larger amounts and longer histories. `MCFlashloan` starts from a
reserve that another protocol funded and borrows from, with the loans in either
interest mode.

**`LiquidityProofs`, `SolvencyProofs`, `FlashloanProofs`, `LendingProofs`, `VaultProofs`, `VaultBooksProofs`,
`VaultTopProofs`, `VaultLedgerProofs`** – theorems (section 7).

Operators commented `Mutant:` are variants of a definition with a plausible mistake;
no specification uses them. They show that each property notices something.

## 4. The runs

| Run | Question | Result |
|-----|----------|--------|
| `access` | Do list updates, handovers and locks by three keys, with lists at capacity, keep the authority privileged, the lists within their space and a former authority out? | holds |
| `liq_books` | Two protocols deposit, withdraw, borrow and pay back with interest, transfers and snapshots interleaved; and auths change curve, fee, cap and modes under a debt that accrues: does each protocol get the account it relies on, do totals, cached rate and fields follow, is anything applied to elapsed time, does any step make the layer owe more than it has? | holds |
| `liq_limits` | Small operations, reconfigurations and manual limits over four seconds: can the withdrawal or the debt window be reopened, can a borrow pass the hard ceiling? | holds |
| `liq_listing` | From empty accounts, administration in any order, payouts deferred to claim accounts that come and go: is the claim total right, do withdrawals leave claims in the vault? | holds |
| `flash` | Every short list of flashloan instructions, refused and administrative ones among them, and loans with the rest of the layer inside and around: does one commit with a loan open, unpaid or under other terms, can rounding refuse a payback or cost the layer a unit? | holds |
| `lending` | Deposits, withdrawals and rebalances while rewards are started, stopped, queued and moved on: is each second credited once, and in the end, and do shares stay backed? | holds |
| `vault` | Positions opened, changed, liquidated, absorbed and liquidated again at any of three prices: do index, ticks, branches and totals agree, can every position be read back, who loses by a liquidation, and does rounding end one further below than the code corrects for? | holds |
| `vault_dust` | Positions of a few units operated on, and liquidated, beside a larger one until their shared tick is empty: whom does the check on an empty tick lock out, and of how much? | holds |
| `vault_ledger` | Users, liquidators, auths and the rebalancer while the layer's prices grow: do the books of vault and layer drift apart by more than rounding, is anything retroactive? | holds |
| `doc_mixed_yield`, `doc_empty_market`, `doc_last_payback` | Three statements of the code's comments | violated (section 8) |

The properties, as the modules state them:

* `SolvencyKept`: while nobody uses the interest-free mode, a step from a state
  where vault and debts cover supply, claims and the deposit under way leads to
  such a state. It is about the exact, scaled amounts: one unit of rounding in the
  wrong direction violates it. `InFlight` counts tokens that arrived since the
  snapshot of this second as owed, which is how crediting one transfer twice, or
  to another protocol, is noticed. Two cases are excluded and named. The step that
  stores prices after `collect_revenue` paid out at prices it did not store
  (`UnsettledCollection`) may lose a unit, because prices are then rounded twice;
  and accrual beside interest-free amounts is not neutral at all (section 8).
* `AccountsServed`: every step of the layer is, for each protocol, a step of
  `SupplyAccount` or none at all. It is what makes `Lending` over `SupplyAccount`
  a statement about the real layer: whatever other protocols and auths do between, the
  position is there, in the raw amount, and worth no less.
* `TotalsMatchPositions`: the four totals, which are changed by saturating
  subtraction, equal the sums of the positions in each mode.
* `ClaimsMatchAccounts`, `ClaimsKept`: the claim total is the sum of the claim
  accounts; only `collect_revenue` can leave the vault short of it.
* `CachedRateCurrent`, `NothingRetroactive`: utilization and borrow rate are those
  of the totals, prices and curve stored beside them, and whatever changes the
  reserve first accrues, at the old values, up to now.
* `WithdrawalLimitWithinSupply`, `WithdrawalWindowNotReopened`,
  `BorrowWindowNotReopened`, `DebtWithinHardCeiling`: what the automated limits
  promise over several operations.
* `AuthorityPrivileged`, `ListsFit`, `HandoverRevokes`: privileges.
* `TransactionsCloseLoans`: between transactions no loan is open. Nothing in the
  program closes a loan but the payback, and nothing but the scan of
  `validate.rs` at the borrow guarantees that there will be one.
* `PaybackAccepted`: once the payback has been transferred, `operate` accepts it: amount and fee, rounding included, are within the 1% that
  `operate` tolerates beyond the operated amount (`PaymentWithinWindow`), and the debt covers the payback. The borrow books shares
  rounded up and the payback takes shares rounded down, at one price, so the debt
  covers it; with the rounding of the borrow reversed no interest-bearing loan
  could be paid back. (`ENABLED` of the last stage; pausing the position or locking
  the layer inside the transaction is excepted.)
* `LoansKeepSolvency`: no step of a loan, or of another protocol inside its
  transaction, makes the layer owe more than it has.
* `LoanRepaid`: a committed loan leaves the vault with at least its nominal fee
  more, and the debt of the program where it was, but for one unit of rounding.
* `TermsKept`: fee and status do not change under an open loan, except by a
  program that holds the authority's signature and calls from within.
* `RewardsCreditedOnce`: an update raises the token price by what the schedule promised
  for each second since the last one, summed second by second, and by what the layer
  earned; never by more, and by less only for the divisions that round down. The code instead
  intersects the elapsed time with two periods, which is right only if the periods
  meet, and the second begins where the first was credited up to.
* `RewardsNotRetroactive`: no start, stop, queue, cancel or transition changes what is promised for
  seconds that are past and not yet credited. Each of them, in the code, depends on an
  update called before, in a branch of its own.
* `BackingKept`, `RebalanceCloses`: shares beyond the position grow only by the
  rewards due and by a withdrawal's raw unit, and a rebalance brings them within a token.
* `RewardsSettle` (liveness): rewards that were scheduled are credited in the end, and a
  queued period does not stay queued for ever.
* `IndexShowsDebt`, `TopIsHighest`: the bitmap has the bits of exactly the ticks with
  debt, and the top tick is the highest debt in a tick or in a branch. Debt they
  miss is never liquidated, and a bit too many stops all liquidations.
* `PositionsResolve`: a position that was liquidated leads to a branch that is still
  there, although branches merge and ids of branches and ticks are used again
  (`PositionsLead`), and what it leads to can be computed (`LatestDefined`).
* `LockedOutIsDust`: a position that was not liquidated is refused by `operate` when its tick holds no debt any more.
  The comment at that check says it "can fail when a user liquidity is extremely low" (`vaults/src/module/user.rs:182-185`), and it does:
  `get_position_info` reads a debt rounded up by a unit of collateral and one of debt, `add_debt_to_tick` puts it back rounded down, and a rest
  below `MINIMUM_TICK_DEBT` is dropped, so every operation in a tick takes something from what the other positions of it count on. The property says how much: what
  is due to all the positions standing in a tick is at most what the tick holds and `Erosion` for each step there has been. With an empty
  tick on the right it is about those locked out. It relates positions, ticks and the whole history, through liquidations that
  empty a tick and give it a new id. `Erosion` is the rest that is dropped and `RoundedUp`, the unit of collateral at the ratio of the tick and the difference
  between that ratio and the one below raised by 0.15%, for as much collateral as a position can have.
* `BranchCoversPositions`, `CollateralCovers`, `LentIsHeld`: what the positions
  will find is no more than branches and vault have, and all that was lent stands in a tick or
  branch. The tolerances are those the code chooses: a branch keeps
  `MINIMUM_BRANCH_DEBT`, and an operation drops a rest below the minimum of a tick, at most once a step
  (`LentIsHeld` counts `steps`).
* `EndsBeside`: in every turn of every liquidation that can be next, rounding moves the end at most one tick below
  the tick, branch or price it did not reach, as long as the branch keeps its minimum debt. `end_liquidate` corrects one tick, and says that even this might never
  happen (`utils/liquidate.rs:45-51`); two ticks would leave a liquidated branch below a whole tick that stands above it. It holds where debts are large
  against a unit, which is what the run `vault` is about, and not of dust (sections 5 and 8).
* `OthersKeepTheirs`, `RiskiestFirst`: an operation changes nothing of another
  position, and a liquidation changes only those at or above the tick where it stopped, never in
  their favour.
* `ConfigOrdered`: collateral factor, threshold, limit and penalty stay in order whoever
  sets which, with limits given in one unit and stored in another.
* `PricesNotRetroactive`: no instruction changes the value of a vault's shares at its
  moment; a magnifier is not applied to time that is past.
* `LedgersAgree`, `RebalanceClosesGaps`: an operation or liquidation costs the vault less than a raw
  unit of the layer on either side, and a rebalance leaves a gap of less than a token and a
  raw unit, whichever of the four gaps it closes.

Of the type invariants, `TypeOK` and `VaultTypeOK` are run. Those of `AccessControl`, `Flashloan`,
`Lending` and `VaultLedger` are proved in section 7 or part of what is
proved there, and need no run.

## 5. Bounds

Scales. An exchange price of 1 is 4 instead of 10^12, 100% is 4 instead of
10^4, a year is one or two seconds. The proofs show that nothing depends on the
values; for TLC small powers of two make every division inexact somewhere
within the bounds, so that each rounding direction matters, and let a debt grow by
half within a run. Widths: `U64_MAX` is 64 and `U16_MAX` is 16, within reach of
amounts of 8 tokens at prices of up to 8.

Amounts. Operations of one or two tokens, a vault of up to `MaxVault` (2 to 10)
tokens, `MaxTime` (0 to 3) seconds after the first. Two protocols suffice where
the question is who used whose snapshot, one where it is about a position's
history (`liq_limits` explores supply and debt in turn, `OneSided`; `liq_books` starts either with two protocols with interest in a reserve nobody tunes, or with one
that auths tune within `TuningTime` and `TuningVault`); two recipients where claims of different users compete. `MAX_AUTH_COUNT`
is 2 with three keys, so that lists overflow. `MaxTime` bounds only the clock
and `MaxVault` only `TransferIn`; no other guard of `Liquidity` is a bound.

Loans. The scale of the fee is 4 (a fee of 25%), the excess 2 (50%) and the minimum
amount 4, which keeps the relation `FlashloanAssumption` asks for: minimum times
(excess - largest fee) at least the scale less one, in the code
1000 * (100 - 50) >= 9999. Amounts are 1 (refused) and 5 (a fee that rounds). All
lists of up to two instructions, those of three with at most one that is not a
loan's, and all of four loan instructions of one amount, are
enough for every way `validate_payback_instruction_exists` can decide: none follows,
one does, two do, another instruction does, of another amount, and the same
again while a loan is open. Loans with anybody's instruction between borrow and payback
start in every reachable state of the layer. One second passes, so that the second
transaction meets another price; the layer is locked only inside transactions.

Lending. A price of 1 is 4, a year two seconds, and rewards are capped at half the market
in a year, so that a second of rewards or of interest moves the fToken price by
about one. Four seconds (`MaxTime`) and two periods of one or two seconds hold a current period, a queued one, a
stop between, and time after both; `RewardHorizon` keeps every period within `MaxTime`,
so that `RewardsSettle` is about periods that can end. One user with amounts of 1 and 3 suffices:
shares are a single price times a balance. `MaxSupply` and `MaxRaw` bound the mint and the
position. TVL floors are 1 in the run `lending` and 0 in `doc_empty_market`.

Vault. Eleven ticks from -5 to 5, a ratio of 1.25 per tick instead of 1.0015, in two arrays of
two maps of three ticks, so that a search crosses maps and arrays and liquidations cross
several ticks. Debt factors have 14 bits instead of 35; three prices, from one at which all
debt is safe to one at which some is to be absorbed; two positions, which may share a tick, stand in
two, or join a tick after it was liquidated; three branches and three ids per tick; up to
five operations or liquidations (`MaxSteps`). The minimum debt is 100, the minima of ticks and branches 2, and
amounts are such that a partial liquidation leaves debt on either side of them. `U64_MAX`, what a field of a position holds, is 30,000.

Dust. In the run `vault_dust` the minimum debt is 4 and positions hold a few units of collateral or some forty, so that rounding takes a tenth of a debt; they
open, add a unit, pay back or leave. Six steps are enough: after four (two positions open in one tick, one of them grows there and leaves) the
rest in the tick is below the minimum, the tick is empty and the other position is locked out. `U64_MAX` is 100 there, so that
`Erosion` stays near the unit that an operation really takes, and the bound is not met for lack of size.

Of the properties of the run `vault`, `VaultTypeOK`, `IndexShowsDebt`, `CollateralCovers` and `LentIsHeld` hold in this instance as well. The others do not:
`EndsBeside` fails, and with it what is proved or expected from it (`TopIsHighest`, `PositionsResolve`, `OthersKeepTheirs`, `RiskiestFirst`);
and `BranchCoversPositions` fails, because the margin of 0.01% (at least a unit) is less there than the unit of collateral by which a debt is
rounded up. These six say how a vault treats debts that are large against a unit, and the code's minima (1000 for a debt) do not keep out others.

Books of a vault. A price of 1 is 4, magnifiers are plus and minus a half, the borrow token has
one decimal less than the vault counts (`borrow_scale` 2), and three operations in three
seconds, opening, changing or leaving with all there is.

Fit. Every passing run reaches between 1,500 and 380,000 distinct states, and
between them they take every action. A property is listed only with a mutation
of the code's definitions that makes TLC find it violated under the same bounds.

## 6. Fairness

Users, protocols and auths may stop at any time, and a program that is not
called does nothing: all properties but one are safety properties, and hold without
fairness. The exception is `RewardsSettle`. `FairSpec` of `Lending` asks for weak fairness
of three actions: `Tick`, because time passes; `UpdateRate` and
`TransitionToNextRewards`, because they need no signer with a privilege, no tokens and no luck, so that
whoever holds fTokens and wants the rewards credited can send them whenever they are
possible. Nothing is assumed of users, of the rebalancer or of the auths, who may stop, cancel and
queue at the worst moment; they do so finitely often only because periods end within the horizon.

Deadlock is checked in the runs of the liquidity layer and of flashloans: `update_exchange_price`
needs no signer and can always be called, so a deadlock would mean that the
reserve itself is stuck. It is not checked for `Lending`, `Vault` and `VaultLedger`, whose bounds on
time and steps end every behaviour.

## 7. Proofs

All theorems are proved by TLAPS from the named assumptions `AccessAssumption`,
`MathAssumption`, `PositionsAssumption`, `LiquidityAssumption`, `FlashloanAssumption`,
`RewardsAssumption`, `LendingAssumption`, `BigNumberAssumption`, `TickAssumption`, `RatioAssumption`, `BitmapAssumption`,
`StoreAssumption`, `ScaleAssumption`, `VaultAssumption` and `LedgerAssumption`, which ask for no more than natural numbers, positive divisors,
disjoint key sets, scales that fit their fields, a coefficient no longer than the precision (35 and 64 bits in the code), and fees below the
transfer excess. `RatioAssumption` says of the table of ratios that a tick has another ratio than the one below it:
the smallest entry of the code is 6093, and the step is 1.0015. TLC evaluates them in every run.

**`LiquidityProofs`, privileges.** `PrivilegesHold`, `ListsHold`: `AuthorityPrivileged` and `ListsFit`
hold in every reachable state, for every number of keys and every update list.
The inductive invariant adds that the lists are sets of accounts and that
membership of the authority is what makes the unchecked insertion of
`update_authority` safe: it removes the old authority, a member, before it inserts
the new one, so the list cannot grow. `HandoverAlwaysRevokes` is the action
property, from the same invariant. The capacity argument is about
cardinalities of finite sets; `LastValue` chooses the largest index of a
sequence, for which `LeastNatural` derives the least-number principle from the
well-foundedness of the naturals. Liquidity extends AccessControl, so its theorems stand first in the same module.

**`LiquidityProofs`, the reserve.** `LiquidityTyped == Spec => []TypeOK`. Widths are the
point: a stored value that does not fit must fail the instruction, and no balance,
position or total may go below zero. `TypeOK` is not inductive. The invariant adds:

* `PrivilegeInv`, because the admin actions are guarded by memberships;
* `ModelValid(rate_model)`, the checks of `update_rate_data_v1/v2` on kinks:
  without it a division of `GetRate` has no positive divisor and the cached rate is
  not a number at all;
* `TimesPast`: no timestamp is in the future, so elapsed times are natural and
  prices do not fall;
* within `Positions`, that a withdrawal limit stays within the width of its field
  because it stays within the amount.

The proof has one step per action; `OperateTyped` follows the handler: deltas,
totals, prices, payout. Every lemma about a step is stated for `LayerNext`, in which the
arguments of an instruction are any amounts, curves and configurations and not those of the
constants; `LayerSpec` derives it from `Spec`. The flashloan program calls the layer
with amounts of its own, and the same lemmas cover it.

The module begins with the lemmas about arithmetic that the others cite: division
(floor, ceiling, towards zero), the conversion between interest modes (monotone, so a limit
stays below its amount), the limits before and after an operation and the positions an accepted
operation leads to, and that the rate curve is defined where its kinks are in order.

The module ends with what the automated limits promise over any history:
`WithdrawalLimitsWithinSupply`, `WithdrawalWindowsHold`, `DebtWindowsHold`,
`HardCeilingsHold`. Two dozen instructions write positions, but each rewrites one
position in one of a few ways. `SupplyChange` and `BorrowChange` list those ways
(an operation, the creation, a configuration, a mode switch, a manual limit, a
status), `PositionsChange` shows that no step does anything else, and the
theorems follow from one position and one way at a time. The invariant `LimitInv`
adds to `TypeInv` that a withdrawal limit is at most the amount, a base ceiling at
most the maximum ceiling (once configured), and that an account that does not exist
is empty. The window theorem then says, in essence: an operation stores a limit that
is at least the one in force before it, because the new amount is at least that
limit (a withdrawal is refused otherwise) and full expansion is measured from
the new amount.

**`SolvencyProofs`, the books.**

* `TotalsHold`: totals equal sums of positions, for any number of protocols. A sum
  is the cardinality of a set of units (`SumOf`), so that `SumUpdated`, about
  rewriting one value, is a fact about finite sets and needs no induction. The
  strengthening is `UnconfiguredEmpty`: a position holds nothing before its first
  configuration, which is why `update_user_supply_config` may choose the mode of
  such a position without moving anything between totals. With it, every step
  books exactly the change of one share, and a total always covers the share
  that leaves it, so `Shifted` never saturates.
* `ClaimsHold`: strengthened by `ClosedEmpty` (an account that does not exist holds
  nothing, so creating it, which writes a zero, loses nothing).
* `CachedRatesHold`, `AccrualsHold`: `ReserveStep` shows that a step either
  leaves the reserve alone but for its claim total, or rewrites it in one single
  way, prices accrued up to now under the old reserve and then utilization and rate
  of the new totals and the new curve. The admin actions accrue twice in the code;
  `NoTimeNoInterest` shows that the second time changes nothing.

**`SolvencyProofs`, what the layer owes and has.**

* `SolvencyHolds`: no step from a covered state leads to an uncovered one, to the unit and for
  every scale. `SolvencyInv` is the invariant of the books (so that the totals of the reserve
  are what positions are owed), the current cache, and that no snapshot is of the future. The argument
  has two halves. Time: `YieldBound` shows that what suppliers are credited over any interval is at most what
  borrowers are charged, because the utilization that scales the supply rate is that of the
  totals stored beside it, rounded down. Instructions: at the prices accrued to now each
  is a change of a few totals and of the vault, and one lemma per kind (`operate`, a mode switch, a
  claim, a collection) bounds the roundings. A deposit is credited from `InFlight`, the tokens that arrived
  since the snapshot, which no other deposit can use because the snapshot is cleared.
* `YieldPaid`: `YieldPaidByBorrowers`, which the run `doc_mixed_yield` refutes in general, is an invariant
  while all amounts bear interest.
* `ClaimsAlwaysKept`: every payout leaves the claim total in the vault.
* `LayerServesAccounts`: the refinement. `Init` maps to `SupplyAccount`'s initial states
  and each step of the layer, for each protocol, to a supply or a withdrawal of the amount the
  operation was called with, to `HoldTokens` or `SwitchMode`, to a growth of the price, or to a stutter.

**`FlashloanProofs`.** `FlashloanTyped`, `LoansAreClosed`, `PaymentsFit`, `TermsHold`, `LoansKeepLayerSolvent`, `LoansAreRepaid`,
for every set of transactions. The inductive invariant `FlashInv` has five parts:

* `TypeInv` of the layer, which `OperateTyped` of `LiquidityProofs` keeps for
  any amounts, here those of the loans;
* `ReturnInv`: the state saved in `before` satisfies `TypeInv` too and has no loan
  open, so that `Abort` may restore it. `TypeInv` of a saved state is that of
  `LiquidityProofs` instantiated with the fields of `before` for the variables;
* `TransactionInv`: the types of this module's own variables;
* `LoanInv`: while a loan is open there is a payback of its amount among the
  instructions from `index` on, and it is the only one of this program. The
  borrow establishes it by its scan; every other instruction either is that payback
  or leaves it in front, so the end of the list cannot be reached with a loan open;
* `PaybackInv`: within a payback the snapshot is this program's, of this second, and
  the vault has grown by exactly what was transferred.

`PaymentsFit` then needs only `FeeFits`: a fee rounded up is within the excess for
every amount from the minimum on, from the relation of the constants above.

`LoansKeepLayerSolvent` carries `SolvencyInv` through transactions. An aborted transaction returns to
`before`, so `SolvencyInv` has to hold there too; `SoundAt` states it of a record of values, and
`SoundHere` and `SoundThere` say that it means `SolvencyInv` for the state and for the next. `LoansAreRepaid` adds to
`FlashInv` what a loan has done so far (`LoanProgress`): the borrow took the amount from the vault
and rounded the debt up; nothing else can touch vault or debt of the program before the
payback, which rounds it down at the same price, in the same second.

**`LendingProofs`.** `LendingTyped`, `ScheduleNotRetroactive`, `RewardsOnce`, `BackingHolds` and `RebalanceSuffices`, for every precision,
schedule and number of users. `LendingInv` is `LendingTypeOK` and `ScheduleInv`: a queued
period has a duration, without which its yearly rate has no value. A token price
never falls (`UpdateGrowsPrice`), so shares are always divided by a positive number. The action property is proved
by way of `StepSynced`: a step either leaves every promise for the past as it was, or sets
`last_update` to now, after which no second is past and not yet credited. That needs a case per
instruction: `StartRewards` overwrites without an update only a schedule that promised
nothing, and a queued period is changed only while it is ahead.

`RewardsOnce` compares the code, which intersects the elapsed time with two periods, with
`RewardsDue`, a sum over seconds given by a recursive function. `SumsEqual` shows that a
recursive function on naturals is any function that satisfies its equation (the least
argument at which two differ is a contradiction), so that `DueSum` may give its closed form: rate
times the length of an interval, for each period. The rest is that the intervals of the code are these intervals
(`CreditedDue`), with the bounds of its divisions (`GrowthBounds`). `MarketInv` adds to `LendingInv` that the last update is
not in the future. `BackingHolds` goes through the user instructions one by one (`DepositBacked`, `WithdrawalBacked`,
`RebalanceBacked`): the shares minted are worth no more than what the position gains, those burned no less than what it
loses but for one raw unit, and between them only `UpdateRates` moves the price of all shares (`WorthAccrues`).

**`VaultProofs`.** `LinksKept`, `OthersKept` and `LiquidationsLead`, for every number of ticks, maps, branches, ids and positions, every
price and every scale. They are about ids, not amounts: what a tick, a record of its past, a position or a branch refers to.
The inductive invariant `VaultLinked` says of the accounts together

* `Forest`: ids above `total` are not in use; a merged branch leads to a lower one that was liquidated; the liquidated
  branches stand on each other in the order of their ids (`Chained`), and none is above the current one; at most the newest,
  if it is the current one, has no liquidation yet, so that its id may be taken back;
* `AllRooted`: whatever a tick or a record says of a liquidation leads to a branch that has one;
* `TopLinked`: the vault is liquidated exactly if its current branch is; the top is in the table or within two ticks above it;
* `IndexOK`: set bits are ticks of the table, so a search returns one or the cold tick;
* `PositionsLinked`: a position with debt has a tick of the table and an id that the tick has given out.

One lemma per operation of the store (`SetTopTickLinked`, `DetachLinked`, `AttachLinked`, `RaiseTopLinked`, `AbsorbTicksLinked`,
`CloseBranchesCloses`, `SettleLinked`, `GatherRuns`, `MergeRuns`, `OnwardRuns`, `EndLinked`) shows what becomes of each part. Within
`liquidate` the invariant does not hold: the tick just gathered is recorded in a branch that has no liquidation yet, the one the loop stands on.
`AllRooted(s, x)` excepts this branch `x`, which the end of the loop writes. A loop is followed turn by turn; its function
is the one that satisfies its equation (`ConnectWalks`, `CloseBranchesWalks`, `LiquidatedWalks`), and an argument on the least turn that breaks a claim takes the place of induction.
`OthersKept` follows from `Keeps`: an operation leaves the factor, the debt and the links of every branch that was liquidated, apart from the debt
it takes out for its own position, and the liquidation of each id of each tick; what the other positions are worth is computed from no more than that (`WorthKept`).

All three are of the form `Spec /\ []TopIsBare => ...`. `TopIsBare`, a conjunct of `TopIsHighest`, says that where a liquidation ended on top no whole tick
stands; if one did, taking out its last debt would reset the liquidated branch below it. `VaultTopProofs` derives it from `EndsBeside`.

**`VaultBooksProofs`.** `BooksKept` and `LentHeld == Spec /\ []TopIsBare => []LentIsHeld`, for every scale, number of ticks, branches and positions and every price.
The inductive invariant `VaultBooks`, over `VaultLinked`, says of the accounts together

* `Booked`: debts and dust are natural numbers and partials fit their field; a tick without an id, or one that is liquidated, holds no debt;
  every factor is zero or a normalised big number. The last is what lets `mul_div_normal` divide by a factor, and it comes from two facts about lengths
  in bits, `BitLengthBounds` (a number lies between the powers of two around its length) and `NormalQuotient` (a quotient of normalised coefficients, shifted, is
  one again);
* `Balanced`: `LentIsHeld` for a store, positions and a number of steps.

A sum over ticks or branches is the cardinality of a set of pairs (`Weight`), so that `SumChanged`, about rewriting one value, and `SumJoined`, about splitting a set,
are facts about finite sets and need no induction. Each operation of the store has a lemma that says what becomes of the debt held: `DetachBooks` takes out
the position's debt and at most a rest below the minimum, `AttachBooks` adds what goes into the tick, `AbsorbTicksBooks` moves whole ticks into
the absorbed debt. Within `liquidate` debt is on its way. `Carries` is what a turn keeps: the debt held, with the loop's own `debt` and what it has liquidated, is the debt
held at the start and, where the debt of the branch the loop stands on was gathered and not yet written back, that of this branch once more. `GatherBooks`, `SellBooks`, `MergeBooks`, `OnwardBooks` and `EndBooks` follow it through a turn,
and `LiquidatedBooks` through all turns. What then leaves the totals is what the loop has liquidated, whatever the rounding of collateral.

`LockedOutDust == Spec => []LockedOutIsDust` needs no hypothesis, and `VaultBooks` is not part of its argument. The inductive invariant `Worn` says of
every tick that what is due to the positions that stand in it is at most what it holds and `Erosion` for each step; with it go only the shape of the store and
the bounds of a position's fields. `DebtRoundedUp` is the arithmetic: what `get_position_info` reads of a position is at most
`RoundedUp` more than what `add_debt_to_tick` put in for it. `DetachWears` takes out the position and costs the others at most the erosion, or, where the
position was liquidated, touches no tick; `AttachWears` puts in what is due but for the rounding, under a new id if the tick was liquidated, after which
none of its old positions stands in it; `LiquidatesFalls` follows the loop of `liquidate`, and shows that whoever stood in a tick it empties stands there no more.

**`VaultTopProofs`.** `TopKept`, `IndexKept`, `TopStaysHighest`, `TopStaysBare`, `VaultSound` and `VaultTyped`, each of the form `Spec /\ []EndsBeside => ...`.
The inductive invariant `VaultHigh` is the two before it and

* `Shows`: the set bits are exactly the ticks with whole debt;
* `Heights`: a liquidated branch ends at or above every liquidated branch with a lower id, and remembers where the one it is connected to ends (`Hung`), which
  is what `connected_minima_tick` is trusted for when the loop looks for the next reference;
* `TopPlaced`: if the vault is liquidated its current branch ends at the top and all set bits are below; otherwise the top is the highest set bit, and the branch below it ends
  no higher.

`SearchMeets` and `NextIsHighest` show that the search through maps and arrays returns the highest set bit below a tick: every set bit below lies in a map the search passes. Within `liquidate`, `GoingHigh` takes the place of `High`:
the index shows the ticks, nothing stands above the place of the loop, and the next tick found is the highest below it. A turn goes on to its reference exactly, so no rounding
of an end is involved until the last one. There `EndsBeside` is needed: the tick of the final ratio is at most one below the reference, so with the correction of
`end_liquidate` the branch ends at or above the reference and what is below it stays below. If rounding could miss by two ticks, `Heights` would fail, a merge would take the wrong branch first, and debt would be
left above the top; no general argument excludes it, because it depends on the size of the debt left beside the step between ticks. It is the only hypothesis, it is a property of the run `vault`, and it is false of dust (section 8), so these theorems say nothing of a vault once a liquidation has ended among a few units of collateral;
and by `TopStaysBare` it implies the hypothesis of `VaultProofs` and `VaultBooksProofs`; `VaultSound` says what follows from it for positions and debts.

`VaultTyped == Spec /\ []EndsBeside => [](TopInTable => VaultTypeOK)`. Types need, beside the above, that the collateral does not go below zero
(`Stored`): `liquidate` takes from `total_supply` and from the absorbed collateral and `operate` from `total_supply`, all by safe subtractions, and no turn of the loop touches either.
`TopInTable` is the upper bound `vault.top <= MAX_TICK`: a liquidation too small to change the ratio of debt at the last tick of the table would end one tick above it, because
`end_liquidate` adds one, and whatever reads the ratio of such a top then fails. Whether the guard against amounts below a billionth of the debt (`user.rs:632`) keeps it out depends on
the scales, so the bound is left to TLC, which checks it within `VaultTypeOK`.

**`VaultLedgerProofs`.** `LedgerTyped`, `LimitsOrdered`, `PricesContinuous`, `GapsClosed` and `BooksAgree`, for every scale, configuration
and growth of prices. The invariant `LedgerInv` is the type invariant and
`ConfigOrdered`; it is inductive because no setter writes without `InForce`, the check
of the whole configuration (`InForceOrdered` carries it from one unit to the other).
`PricesContinuous` rests on `ScaledBack`: a price scaled up and down again is the same, rounded
either way, so storing the price of this second leaves the price computed for this second
(`StoredPricesHold`); every change of a magnifier stores first.

`GapsClosed` treats the four gaps that `rebalance` closes one by one: what is paid in or taken out
is the gap up to a token (`PaidNearly`, `TakenNearly`), and the layer books it up to a raw unit. `BooksAgree`
follows one amount through the four roundings of an operation, from the vault's books to tokens, to the scale of the token and to raw units of the layer
(`CollateralBooked`, `DebtBooked`), and shows that together they cost less than a raw unit. It needs
`BooksInv`, that the layer's borrow price is at least one, for the token that `operate` adds to what is paid in to be worth its rounding.

**Only model-checked**, by TLC on the instances of section 5:

* `PaybackAccepted`, which is about `ENABLED`, and `RewardsSettle`, liveness under fairness, are beyond the prover.
* `EndsBeside`, the hypothesis of the theorems about `Vault`, and the upper bound of the top in `VaultTypeOK`: they depend on the scales of ratios and debts.
* The second half of `PositionsResolve` (`LatestDefined`: that what a position leads to can be computed), `BranchCoversPositions` and
  `CollateralCovers`: sums over positions of amounts rounded along a history of factors of 35 bits, which an induction over the history would have to bound.
* `RiskiestFirst`, which compares the ticks of rounded ratios of what is left of positions.

Every other property of a passing run is stated by a theorem.

## 8. Findings

Three comments of the code say something the code does not do. Each has a run
that reaches the counterexample.

1. `get_supply_ratio` and `get_borrow_ratio` (`liquidity/src/state/token_reserve.rs:96`) compare
   with-interest totals in shares with interest-free totals in tokens. Once the
   supply price is above one, suppliers beside interest-free deposits are credited
   more than the borrowers pay. This is a code bug: the two totals of the ratio
   are in different units.
2. `get_rate` (`lendingRewardRateModel/src/state/state.rs:73`) divides by the assets of
   the market unless they are below the TVL floor. With a floor of zero on a market without shares
   both are zero: the rate fails, and with it every instruction that updates first,
   the first deposit and `stop_rewards` among them.
3. `update_total_borrow` (`vaults/src/state/vault_state.rs:148`) says "total borrow is rounded
   up, when saving to storage"; it adds net debts exactly, while a position reads its
   own debt rounded up. The last borrower cannot pay back everything: the total would go
   below zero.

Noticed while modelling, without a run:

* `end_liquidate` (`vaults/src/utils/liquidate.rs:45`) raises the end of a liquidation by two ticks where rounding took it below the tick it should not pass, and
  says "If the above were to ever happen then tickInfo_.tick only be currentData_.refTick - 1" (line 48). The final ratio divides by the
  collateral that is left; the collateral bought is rounded down by up to a unit, which is more than one tick of ratio where fewer than about 660 units are
  left. With the code's own scales: 1002 units of collateral with a debt of 1690 stand in tick 349, and at a threshold of 90%
  and a penalty of 3% the reference is tick 313; a payment of 1208, which is just what is due there, buys 699 of 1001 units and ends at tick 311. The amounts
  are dust (a millionth of a token with nine decimals). TLC finds such an end with the constants of `vault_dust` and `EndsBeside` for the invariant. What follows, in
  that instance, is that a branch can end below the one it is connected to, in a tick where whole debt stands; when that debt leaves,
  `set_top_tick` takes the branch for one without liquidations and resets it, and with it what another position was to find there.
* `unpause_user` (`liquidity/src/module/admin.rs:837`, `858`) accepts a position that was
  created and never configured, which `pause_user` refuses; its expansion duration is then
  zero, and every operation after the first divides by it until an auth configures it.
* `calc_revenue` (`liquidity/src/state/token_reserve.rs:649`) takes the claims from vault plus
  borrowings, so revenue can be paid from tokens that claimants were promised while borrowers
  still owe them; `ClaimsKept` excepts `collect_revenue` for it.
* `operate` (`liquidity/src/module/user.rs:175`) pays a borrow out in full whatever is deposited
  in the same call, other than its comment on equal amounts says.
* `vaults/src/module/user.rs:250`: a withdrawal of everything from a position that has nothing
  becomes a deposit of a unit (`state/position.rs:131-141`), and line 345 adds another. At lines 352-354 a comment wants the
  rounding to leave a surplus for `rebalance`; with a layer price above one an operation can
  cost a fraction of a token (`LedgersAgree` says how much).
* `get_actual_amounts` (`vaults/src/state/structs.rs:371-392`) cuts what the liquidator pays if it is above what he asked for. What is liquidated is
  at most the raw value, rounded down, of that amount, so it never is: `AmountsFit` and `VaultLedger` leave the cut out.
* "Ensure branch_debt > user debt (it should be, due to margin in fetchLatestPosition)" (`vaults/src/state/branch.rs:153`): the margin is 0.01% and the rounding up of a
  debt one unit of collateral, so the margin falls short of it below 10^4 units of collateral; `update_debt_liquidity` then keeps `MINIMUM_BRANCH_DEBT` in the branch.
* A branch keeps `MINIMUM_BRANCH_DEBT` after its last debt is gone, a debt nobody owes, and a position
  liquidated to less than its dust leaves debt in its branch; absorbed debt counts the dust
  that `total_borrow` does not. `CollateralCovers` and `LentIsHeld` allow for this.
* A rate magnifier of -100% that is not updated for more than a year makes
  `load_exchange_prices` fail.

## 9. What is not modelled

* The oracle. `get_exchange_rate*` multiplies rates read from external feeds and refuses old
  ones; it changes no state, and `Vault` is checked for any price at every step, which
  includes any the oracle may report.
* `VaultAdmin`, `LendingAdmin` and the rewards program's lists of auths, guardians and rebalancers, and
  their handover of authority: the pattern of `AccessControl`. The models let anybody
  sign what an auth may sign, which is more behaviour, not less.
* The address lookup table of a vault, which only shortens transactions.
* The exchange prices of the layer inside `Vault`: constant there, growing in `VaultLedger`. A position's
  raw debt is the same under both.
* Several mints. Reserves of different mints share no account but the privileges;
  the model follows one. A vault's two tokens are two independent positions.
* `init_liquidity`, `init_token_reserve`, `init_lending`, `init_vault_*` and the like: they are the initial
  states, and each can run only once.
* Events, logs, token metadata, PDA derivation and rent.
* 128-bit overflow: intermediate results are unbounded in the model. The checked
  arithmetic of the code fails an instruction whose intermediate result passes
  2^128, which takes exchange prices above 10^6 or a utilization above 340%
  beside interest-free deposits 10^4 times larger.
* `u256` of the library, exact multiplication and division of wide integers, which TLA+ has;
  `merkle`, which none of the five programs calls.
* The off-chain code (`ts-sdk`, `cli`, `test-utils`, `tests`): it keeps no protocol state.
