------------------------------ MODULE Lending ------------------------------
(***************************************************************************)
(* One lending market: an fToken whose exchange price collects what its    *)
(* supply position in the liquidity layer earns and the rewards scheduled  *)
(* in the rewards rate model, under the user instructions of the lending   *)
(* program and the instructions of both programs' auths.                   *)
(*                                                                         *)
(* The layer is SupplyAccount, which Liquidity is checked to implement: an *)
(* instruction of lending makes its three calls into the layer itself, so  *)
(* they are one step, and the position stays in interest mode, which the   *)
(* program takes for granted.  Who may send an instruction is left out.    *)
(***************************************************************************)
EXTENDS RewardsModel

CONSTANTS
  EXCHANGE_PRICES_PRECISION,
  Users,          \* owners of fTokens
  \* arguments explored
  Amounts,        \* tokens and fTokens of one instruction
  Limits,         \* least amounts out, most assets in or shares burned
  Growth,         \* by how much the supply exchange price rises in a second
  RewardPlans,    \* [amount, duration] of start_rewards and queue_next_rewards
  StartTvls,
  StartDelays,    \* how far in the future rewards may start
  \* bounds
  MaxTime, MaxSupply, MaxRaw, RewardHorizon

Precision == EXCHANGE_PRICES_PRECISION
MAX_REWARDS_RATE == MAX_RATE

ASSUME LendingAssumption ==
  /\ EXCHANGE_PRICES_PRECISION \in Nat \ {0}
  /\ Amounts \subseteq Nat \ {0} /\ Limits \subseteq Nat /\ Growth \subseteq Nat
  /\ RewardPlans \subseteq [amount : Nat, duration : Nat]
  /\ StartTvls \subseteq Nat /\ StartDelays \subseteq Nat
  /\ MaxTime \in Nat /\ MaxSupply \in Nat /\ MaxRaw \in Nat /\ RewardHorizon \in Nat

VARIABLES
  now,              \* Clock::get()?.unix_timestamp
  price,            \* the layer's supply exchange price, accrued to now
  raw,              \* UserSupplyPosition.amount of the lending account
  linked,           \* Lending.rewards_rate_model is set
  token_price,      \* Lending.token_exchange_price
  liquidity_price,  \* Lending.liquidity_exchange_price
  last_update,      \* Lending.last_update_timestamp
  rewards,          \* LendingRewardsRateModel
  supply,           \* supply of the fToken mint
  shares            \* user -> balance of fTokens

Layer == INSTANCE SupplyAccount
  WITH earning <- TRUE, OperateAmounts <- 1..MaxRaw

marketVars == <<token_price, liquidity_price, last_update>>
tokenVars == <<supply, shares>>
layerVars == <<price, raw>>
vars == <<now, price, raw, linked, token_price, liquidity_price, last_update, rewards,
          supply, shares>>

LendingTypeOK ==
  /\ now \in Nat /\ last_update \in Nat
  /\ price \in Nat /\ raw \in Nat
  /\ linked \in BOOLEAN
  /\ token_price \in Nat \ {0} /\ liquidity_price \in Nat \ {0}
  /\ rewards \in LendingRewardsRateModel
  /\ supply \in Nat
  /\ shares \in [Users -> Nat]

(* The market as init_lending leaves it, over a reserve that may be older, *)
(* and the rate model as init_lending_rewards_rate_model does.             *)
Init ==
  /\ now = 1 /\ last_update = now
  /\ price \in {Precision + g : g \in Growth} /\ raw = 0
  /\ linked = FALSE
  /\ token_price = Precision
  /\ liquidity_price = price
  /\ rewards = NoRewards
  /\ supply = 0 /\ shares = [u \in Users |-> 0]

-----------------------------------------------------------------------------
(* The exchange price of the fToken.                                       *)

TotalAssets(token_exchange_price) == (token_exchange_price * supply) \div Precision
CurrentRate == GetRate(rewards, TotalAssets(token_price), now)

Accepted(rate) == IF rate > MAX_REWARDS_RATE THEN 0 ELSE rate

(* The return of rate over the seconds from from to to, if any.            *)
ReturnOver(rate, from, to) ==
  IF to > from THEN (Accepted(rate) * (to - from)) \div SECONDS_PER_YEAR ELSE 0

InCurrentPeriod(r) == r.start > 0 /\ r.rate > 0 /\ last_update < r.end

CurrentReturn(r) ==
  IF InCurrentPeriod(r)
  THEN ReturnOver(r.rate, Greatest(last_update, r.start), Least(now, r.end)) ELSE 0

(* Where the current period leaves off: the local last_update_timestamp.   *)
CreditedUpTo(r) ==
  IF InCurrentPeriod(r)
  THEN Greatest(Greatest(last_update, r.start), Least(now, r.end)) ELSE last_update

(* Mutant: the next period is credited from the last update.               *)
NextReturnFromUpdate(r) ==
  IF r.next_start > 0 /\ r.next_end > 0 /\ r.next_rate > 0 /\ now > r.next_start
  THEN ReturnOver(r.next_rate, last_update, Least(now, r.next_end)) ELSE 0

NextReturn(r) ==
  IF r.next_start > 0 /\ r.next_end > 0 /\ r.next_rate > 0 /\ now > r.next_start
  THEN ReturnOver(r.next_rate, Greatest(CreditedUpTo(r), r.next_start), Least(now, r.next_end))
  ELSE 0

LiquidityReturn(new_price) ==
  ((new_price - liquidity_price) * RETURN_PERCENT_PRECISION) \div liquidity_price

(* calculate_new_token_exchange_price, where it is defined.                *)
PriceDefined(new_price) ==
  /\ new_price >= liquidity_price
  /\ RateDefined(rewards, TotalAssets(token_price), now)

NewTokenPrice(r, new_price) ==
  token_price
    + (token_price * (CurrentReturn(r) + NextReturn(r) + LiquidityReturn(new_price)))
        \div RETURN_PERCENT_PRECISION

UpdateRates(new_price) ==
  /\ linked
  /\ PriceDefined(new_price)
  /\ \E r \in {CurrentRate} : token_price' = NewTokenPrice(r, new_price)
  /\ liquidity_price' = new_price
  /\ last_update' = now

-----------------------------------------------------------------------------
(* User instructions.                                                      *)

(* preview_mint and preview_redeem: what shares are worth at the price that *)
(* the update of the same instruction will store.                          *)
PreviewMint(share_amount) == DivCeil(share_amount * token_price', Precision)
PreviewRedeem(share_amount) == (share_amount * token_price') \div Precision

(* What the layer booked of a deposit, back in tokens.                     *)
Registered(amount) == (Layer!RawOfDeposit(amount) * price) \div Precision

(* The shares of a deposit and of a withdrawal, at the price just updated.  *)
SharesMinted(amount) == (Registered(amount) * Precision) \div token_price'

Deposit(user, amount) ==
  /\ Layer!Supply(amount)
  /\ raw' <= MaxRaw
  /\ UpdateRates(price)
  /\ SharesMinted(amount) # 0
  /\ supply + SharesMinted(amount) <= MaxSupply
  /\ supply' = supply + SharesMinted(amount)
  /\ shares' = [shares EXCEPT ![user] = @ + SharesMinted(amount)]
  /\ UNCHANGED <<now, linked, rewards>>

DepositWithMinAmountOut(user, amount, min_amount_out) ==
  /\ Deposit(user, amount)
  /\ SharesMinted(amount) >= min_amount_out

Mint(user, share_amount) ==
  /\ UpdateRates(price)
  /\ Deposit(user, PreviewMint(share_amount))

MintWithMaxAssets(user, share_amount, max_assets) ==
  /\ Mint(user, share_amount)
  /\ max_assets # 0 => PreviewMint(share_amount) <= max_assets

(* Mutant: the shares burned are rounded down.                             *)
SharesBurnedDown(assets) == (assets * Precision) \div token_price'

SharesBurned(assets) == DivCeil(assets * Precision, token_price')

(* The token program burns no more than the user has, or than there is.    *)
Withdraw(user, assets) ==
  /\ UpdateRates(price)
  /\ SharesBurned(assets) <= Least(shares[user], supply)
  /\ shares' = [shares EXCEPT ![user] = @ - SharesBurned(assets)]
  /\ supply' = supply - SharesBurned(assets)
  /\ Layer!Take(assets)
  /\ UNCHANGED <<now, linked, rewards>>

WithdrawWithMaxSharesBurn(user, assets, max_shares_burn) ==
  /\ Withdraw(user, assets)
  /\ max_shares_burn # 0 => SharesBurned(assets) <= max_shares_burn   \* 0: no limit

(* u64::MAX stands for everything the user owns.                           *)
WithdrawAll(user) == UpdateRates(price) /\ Withdraw(user, PreviewRedeem(shares[user]))

Redeem(user, share_amount) ==
  /\ UpdateRates(price)
  /\ Withdraw(user, PreviewRedeem(share_amount))

RedeemWithMinAmountOut(user, share_amount, min_amount_out) ==
  /\ Redeem(user, share_amount)
  /\ PreviewRedeem(share_amount) >= min_amount_out

(* Anybody may bring the market up to date.                                *)
UpdateRate ==
  /\ UpdateRates(price)
  /\ UNCHANGED <<now, layerVars, linked, rewards, tokenVars>>

-----------------------------------------------------------------------------
(* Instructions of the rebalancer and of the auths of both programs.       *)

LiquidityBalance == (raw * price) \div Precision

(* Mutant: the gap is measured at the prices of the last update.           *)
StaleGap == TotalAssets(token_price) - LiquidityBalance

(* What the position lacks to pay every share; the rewards are paid here.  *)
AssetsDelta == TotalAssets(token_price') - LiquidityBalance

Rebalance ==
  /\ UpdateRates(price)
  /\ AssetsDelta > 0
  /\ Layer!Supply(AssetsDelta)
  /\ raw' <= MaxRaw
  /\ UNCHANGED <<now, linked, rewards, tokenVars>>

SetRewardsRateModel ==
  /\ ~linked
  /\ linked' = TRUE
  /\ UNCHANGED <<now, layerVars, marketVars, rewards, tokenVars>>

(* Mutant: rewards are started without a look at the running market.       *)
StartUnsynced(plan, start_time, start_tvl) ==
  /\ StartAllowed(rewards, plan.amount, plan.duration, start_time, now)
  /\ rewards' = WithStarted(rewards, plan.amount, plan.duration, start_time, start_tvl, now)
  /\ EndTime(rewards') <= RewardHorizon
  /\ UNCHANGED <<now, layerVars, linked, marketVars, tokenVars>>

(* Rewards that existed are credited before the schedule is overwritten.   *)
StartRewards(plan, start_time, start_tvl) ==
  /\ StartAllowed(rewards, plan.amount, plan.duration, start_time, now)
  /\ IF rewards.yearly_reward > 0 THEN UpdateRates(price) ELSE UNCHANGED marketVars
  /\ rewards' = WithStarted(rewards, plan.amount, plan.duration, start_time, start_tvl, now)
  /\ EndTime(rewards') <= RewardHorizon
  /\ UNCHANGED <<now, layerVars, linked, tokenVars>>

StopRewards ==
  /\ StopAllowed(rewards, now)
  /\ UpdateRates(price)
  /\ rewards' = WithStopped(rewards, now)
  /\ UNCHANGED <<now, layerVars, linked, tokenVars>>

CancelQueuedRewards ==
  /\ CancelAllowed(rewards, now)
  /\ rewards' = WithoutQueued(rewards)
  /\ UNCHANGED <<now, layerVars, linked, marketVars, tokenVars>>

(* Past the end of the current period queueing is starting now.            *)
QueueNextRewards(plan) ==
  /\ QueueAllowed(rewards, plan.amount, plan.duration)
  /\ \/ /\ now > EndTime(rewards)
        /\ StartRewards(plan, now, rewards.start_tvl)
     \/ /\ now <= EndTime(rewards)
        /\ EndTime(rewards) + plan.duration <= RewardHorizon
        /\ rewards' = WithQueued(rewards, plan.amount, plan.duration)
        /\ UNCHANGED <<now, layerVars, linked, marketVars, tokenVars>>

(* Anybody may move on to the queued period once the current one is over.  *)
TransitionToNextRewards ==
  /\ TransitionAllowed(rewards, now)
  /\ UpdateRates(price)
  /\ rewards' = WithNext(rewards, now)
  /\ UNCHANGED <<now, layerVars, linked, tokenVars>>

(* A second passes, and the reserve may have earned meanwhile.             *)
Tick ==
  /\ now < MaxTime
  /\ now' = now + 1
  /\ \E g \in Growth : price' = price + g
  /\ UNCHANGED <<raw, linked, marketVars, rewards, tokenVars>>

-----------------------------------------------------------------------------
UserNext ==
  \E user \in Users :
    \/ \E amount \in Amounts :
         \/ \E limit \in Limits :
              \/ DepositWithMinAmountOut(user, amount, limit)
              \/ MintWithMaxAssets(user, amount, limit)
              \/ WithdrawWithMaxSharesBurn(user, amount, limit)
              \/ RedeemWithMinAmountOut(user, amount, limit)
         \/ Deposit(user, amount) \/ Mint(user, amount)
         \/ Withdraw(user, amount) \/ Redeem(user, amount)
    \/ WithdrawAll(user)

RewardsNext ==
  \/ \E plan \in RewardPlans, start_tvl \in StartTvls :
       StartRewards(plan, 0, start_tvl)
         \/ \E delay \in StartDelays : StartRewards(plan, now + delay, start_tvl)
  \/ StopRewards
  \/ CancelQueuedRewards
  \/ \E plan \in RewardPlans : QueueNextRewards(plan)
  \/ TransitionToNextRewards

Next ==
  \/ UserNext
  \/ UpdateRate
  \/ Rebalance
  \/ SetRewardsRateModel
  \/ RewardsNext
  \/ Tick

Spec == Init /\ [][Next]_vars

(* Time passes, and the two instructions nobody needs a privilege for are  *)
(* sent by whoever has fTokens or rewards to gain from them.               *)
FairSpec ==
  Spec /\ WF_vars(Tick) /\ WF_vars(UpdateRate) /\ WF_vars(TransitionToNextRewards)

-----------------------------------------------------------------------------
(* The yearly reward rate promised for the second after s, for the market  *)
(* as large as it was at the last update.                                  *)
ScheduledRate(s) ==
  IF ScheduledYearly(rewards, s) = 0 THEN 0
  ELSE RateFor(rewards, ScheduledYearly(rewards, s), TotalAssets(token_price))

(* The same summed over the seconds since the last update.                 *)
RewardsDue ==
  LET due[s \in last_update..now] ==
        IF s = last_update THEN 0 ELSE due[s - 1] + ScheduledRate(s - 1)
  IN  due[now]

(* An update credits, second by second, what the schedule promised since   *)
(* the last one and what the layer earned, whichever periods the seconds   *)
(* fall into (helpers.rs calculate_new_token_exchange_price): never more,  *)
(* and less only by the four divisions that round down.                    *)
RewardsCreditedOnce ==
  [][last_update' # last_update =>
       LET scale == RETURN_PERCENT_PRECISION * SECONDS_PER_YEAR * liquidity_price
           gained == (token_price' - token_price) * scale
           due == token_price *
                    (RewardsDue * liquidity_price
                       + (liquidity_price' - liquidity_price)
                           * RETURN_PERCENT_PRECISION * SECONDS_PER_YEAR)
       IN  /\ gained <= due
           /\ gained + scale + 3 * token_price * SECONDS_PER_YEAR * liquidity_price > due]_vars

(* Whoever changes the reward schedule, in whatever order (start, stop,    *)
(* queue, cancel, transition), what it says of the seconds that are past   *)
(* and not yet credited stays as it was.                                   *)
RewardsNotRetroactive ==
  [][\A s \in last_update'..(now - 1) :
       /\ ScheduledYearly(rewards', s) = ScheduledYearly(rewards, s)
       /\ ScheduledYearly(rewards, s) # 0 => rewards'.start_tvl = rewards.start_tvl]_vars

(* What the market owes its shares beyond its position in the layer grows  *)
(* by the rewards credited, by the layer's own growth, and by less than a  *)
(* raw unit when somebody withdraws; no rounding of a deposit, mint,       *)
(* withdrawal, redemption or rebalance adds to it, and without a second to *)
(* account for there are no rewards to add.                                *)
Shortfall == supply * token_price - raw * liquidity_price

BackingKept ==
  [][LET scale == RETURN_PERCENT_PRECISION * SECONDS_PER_YEAR
         rounding == IF raw' < raw THEN liquidity_price' ELSE 0
         credited == IF last_update' = last_update THEN 0
                     ELSE supply * token_price * RewardsDue * liquidity_price
     IN  (Shortfall' - rounding) * liquidity_price * scale
           <= Shortfall * liquidity_price' * scale + credited]_vars

(* A rebalance leaves the position able to pay every share but for what    *)
(* less than a token and a raw unit is worth, rewards due included.        *)
RebalanceCloses ==
  [][supply' = supply /\ raw' > raw => Shortfall' < Precision + liquidity_price']_vars

(* Once a market has its rate model, rewards that were scheduled are        *)
(* credited in the end and a queued period does not stay queued for ever.  *)
RewardsSettle ==
  <>linked =>
  <>[](~Queued(rewards) /\ (rewards.start_time # 0 => last_update >= EndTime(rewards)))

(* get_rate returns the rewards rate of a market of any size: no sequence  *)
(* of instructions brings the market where it cannot be brought up to date,*)
(* which every user instruction does first.                                *)
RateAlwaysDefined == RateDefined(rewards, TotalAssets(token_price), now)
=============================================================================
