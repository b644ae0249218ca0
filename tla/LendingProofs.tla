--------------------------- MODULE LendingProofs ----------------------------
(***************************************************************************)
(* Proofs about a lending market and its rewards, for every precision,     *)
(* every schedule of rewards and any number of users.                      *)
(***************************************************************************)
EXTENDS Lending, TLAPS, NaturalsInduction, WellFoundedInduction

-----------------------------------------------------------------------------
(* Division, and the constants it is by.                                   *)

LEMMA Quotient ==
  ASSUME NEW a \in Nat, NEW b \in Nat \ {0}
  PROVE  a \div b \in Nat
OBVIOUS

LEMMA CeilQuotient ==
  ASSUME NEW a \in Nat, NEW b \in Nat \ {0}
  PROVE  DivCeil(a, b) \in Nat
<1>1. a + b - 1 \in Nat
  OBVIOUS
<1> QED BY <1>1, Quotient DEF DivCeil

LEMMA Positive ==
  /\ Precision \in Nat \ {0} /\ RETURN_PERCENT_PRECISION \in Nat \ {0}
  /\ SECONDS_PER_YEAR \in Nat \ {0} /\ MAX_RATE \in Nat
BY LendingAssumption, RewardsAssumption DEF LendingAssumption, RewardsAssumption, Precision

LEMMA ArgumentsNatural ==
  /\ Amounts \subseteq Nat /\ Growth \subseteq Nat
  /\ StartTvls \subseteq Nat /\ StartDelays \subseteq Nat
  /\ RewardPlans \subseteq [amount : Nat, duration : Nat]
BY LendingAssumption DEF LendingAssumption

-----------------------------------------------------------------------------
(* The rates of the rewards model.                                         *)

(* A queued period has a length: queue_next_rewards asks for one.           *)
ScheduleInv ==
  /\ rewards \in LendingRewardsRateModel
  /\ Queued(rewards) => rewards.next_duration # 0

LEMMA YearlyNatural ==
  ASSUME NEW amount \in Nat, NEW duration \in Nat \ {0}
  PROVE  Yearly(amount, duration) \in Nat
<1>1. amount * SECONDS_PER_YEAR \in Nat
  BY Positive
<1> QED BY <1>1, Quotient DEF Yearly

LEMMA NextYearlyNatural ==
  ASSUME ScheduleInv
  PROVE  NextYearly(rewards) \in Nat
BY YearlyNatural DEF ScheduleInv, NextYearly, Queued, LendingRewardsRateModel

LEMMA RateNatural ==
  ASSUME ScheduleInv, NEW yearly \in Nat, NEW total_assets \in Nat,
         total_assets < rewards.start_tvl \/ total_assets # 0
  PROVE  RateFor(rewards, yearly, total_assets) \in Nat
<1>1. CASE total_assets < rewards.start_tvl
  BY <1>1 DEF RateFor
<1>2. CASE ~(total_assets < rewards.start_tvl)
  <2>1. yearly * RETURN_PERCENT_PRECISION \in Nat
    BY Positive
  <2>2. (yearly * RETURN_PERCENT_PRECISION) \div total_assets \in Nat
    BY <1>2, <2>1, Quotient
  <2> QED BY <1>2, <2>2, Positive DEF RateFor, Least
<1> QED BY <1>1, <1>2

Rates == [rate : Nat, start : Nat, end : Nat, next_start : Nat, next_end : Nat, next_rate : Nat]

LEMMA RatesNatural ==
  ASSUME LendingTypeOK, ScheduleInv, RateDefined(rewards, TotalAssets(token_price), now)
  PROVE  CurrentRate \in Rates
<1> DEFINE assets == TotalAssets(token_price)
<1>1. assets \in Nat
  <2>1. token_price * supply \in Nat
    BY DEF LendingTypeOK
  <2> QED BY <2>1, Quotient, Positive DEF TotalAssets
<1>2. /\ rewards.yearly_reward \in Nat /\ rewards.start_time \in Nat /\ EndTime(rewards) \in Nat
      /\ rewards.next_duration \in Nat
  BY DEF ScheduleInv, LendingRewardsRateModel, EndTime
<1>3. Started(rewards, now) => /\ RateFor(rewards, rewards.yearly_reward, assets) \in Nat
                               /\ RateFor(rewards, NextYearly(rewards), assets) \in Nat
  BY <1>1, <1>2, RateNatural, NextYearlyNatural DEF RateDefined
<1> HIDE DEF assets
<1>4. GetRate(rewards, assets, now) \in Rates
  BY <1>2, <1>3 DEF GetRate, NextWindow, Rates
<1> QED BY <1>4 DEF CurrentRate, assets

-----------------------------------------------------------------------------
(* The exchange price of the fToken only grows.                            *)

LEMMA ReturnNatural ==
  ASSUME NEW rate \in Nat, NEW from \in Nat, NEW to \in Nat
  PROVE  ReturnOver(rate, from, to) \in Nat
<1>1. Accepted(rate) \in Nat
  BY DEF Accepted
<1>2. CASE to > from
  <2>1. to - from \in Nat
    BY <1>2
  <2>2. Accepted(rate) * (to - from) \in Nat
    BY <1>1, <2>1
  <2>3. (Accepted(rate) * (to - from)) \div SECONDS_PER_YEAR \in Nat
    BY <2>2, Quotient, Positive
  <2> QED BY <1>2, <2>3 DEF ReturnOver
<1>3. CASE ~(to > from)
  BY <1>3 DEF ReturnOver
<1> QED BY <1>2, <1>3

LEMMA ReturnsNatural ==
  ASSUME LendingTypeOK, NEW r \in Rates
  PROVE  CurrentReturn(r) \in Nat /\ NextReturn(r) \in Nat
<1>1. /\ r.rate \in Nat /\ r.start \in Nat /\ r.end \in Nat
      /\ r.next_start \in Nat /\ r.next_end \in Nat /\ r.next_rate \in Nat
  BY DEF Rates
<1>2. now \in Nat /\ last_update \in Nat
  BY DEF LendingTypeOK
<1>3. /\ Greatest(last_update, r.start) \in Nat /\ Least(now, r.end) \in Nat
      /\ Least(now, r.next_end) \in Nat
  BY <1>1, <1>2 DEF Greatest, Least
<1>4. CreditedUpTo(r) \in Nat
  BY <1>2, <1>3 DEF CreditedUpTo, Greatest
<1>5. Greatest(CreditedUpTo(r), r.next_start) \in Nat
  BY <1>1, <1>4 DEF Greatest
<1>6. CurrentReturn(r) \in Nat
  BY <1>1, <1>3, ReturnNatural DEF CurrentReturn
<1>7. NextReturn(r) \in Nat
  BY <1>1, <1>3, <1>5, ReturnNatural DEF NextReturn
<1> QED BY <1>6, <1>7

LEMMA UpdateGrowsPrice ==
  ASSUME LendingTypeOK, ScheduleInv, UpdateRates(price)
  PROVE  /\ token_price' \in Nat \ {0} /\ token_price' >= token_price
         /\ liquidity_price' \in Nat \ {0} /\ liquidity_price' >= liquidity_price
         /\ last_update' = now
<1>1. PICK r \in {CurrentRate} : token_price' = NewTokenPrice(r, price)
  BY DEF UpdateRates
<1>2. r \in Rates
  BY <1>1, RatesNatural DEF UpdateRates, PriceDefined
<1>3. CurrentReturn(r) \in Nat /\ NextReturn(r) \in Nat
  BY <1>2, ReturnsNatural
<1>4. /\ price \in Nat /\ liquidity_price \in Nat \ {0} /\ token_price \in Nat \ {0}
      /\ price >= liquidity_price
  BY DEF LendingTypeOK, UpdateRates, PriceDefined
<1>5. LiquidityReturn(price) \in Nat
  <2>1. (price - liquidity_price) * RETURN_PERCENT_PRECISION \in Nat
    <3>1. price - liquidity_price \in Nat
      BY <1>4
    <3> QED BY <3>1, Positive
  <2> QED BY <1>4, <2>1, Quotient DEF LiquidityReturn
<1> DEFINE growth == CurrentReturn(r) + NextReturn(r) + LiquidityReturn(price)
<1>6. growth \in Nat
  BY <1>3, <1>5
<1>7. token_price' = token_price + (token_price * growth) \div RETURN_PERCENT_PRECISION
  BY <1>1 DEF NewTokenPrice
<1> HIDE DEF growth
<1>8. (token_price * growth) \div RETURN_PERCENT_PRECISION \in Nat
  <2>1. token_price * growth \in Nat
    BY <1>4, <1>6
  <2> QED BY <2>1, Quotient, Positive
<1> QED BY <1>4, <1>7, <1>8 DEF UpdateRates

-----------------------------------------------------------------------------
(* User instructions keep the types.                                       *)

LendingInv == LendingTypeOK /\ ScheduleInv

LEMMA DepositKeepsInv ==
  ASSUME LendingInv, NEW user \in Users, NEW amount \in Nat, Deposit(user, amount)
  PROVE  LendingInv'
<1>1. /\ price \in Nat /\ raw \in Nat /\ supply \in Nat /\ shares \in [Users -> Nat]
      /\ liquidity_price \in Nat \ {0}
  BY DEF LendingInv, LendingTypeOK
<1>2. /\ token_price' \in Nat \ {0} /\ liquidity_price' \in Nat \ {0} /\ last_update' = now
      /\ price \in Nat \ {0}
  <2>1. /\ token_price' \in Nat \ {0} /\ liquidity_price' \in Nat \ {0} /\ last_update' = now
    BY UpdateGrowsPrice DEF Deposit, LendingInv
  <2>2. price >= liquidity_price
    BY DEF Deposit, UpdateRates, PriceDefined
  <2> QED BY <1>1, <2>1, <2>2
<1>3. Layer!RawOfDeposit(amount) \in Nat
  <2>1. amount * Precision \in Nat
    BY Positive
  <2> QED BY <1>2, <2>1, Quotient DEF Layer!RawOfDeposit
<1>4. raw' \in Nat /\ price' = price
  BY <1>1, <1>3 DEF Deposit, Layer!Supply
<1>5. Registered(amount) \in Nat
  <2>1. Layer!RawOfDeposit(amount) * price \in Nat
    BY <1>1, <1>3
  <2> QED BY <2>1, Quotient, Positive DEF Registered
<1>6. SharesMinted(amount) \in Nat
  <2>1. Registered(amount) * Precision \in Nat
    BY <1>5, Positive
  <2> QED BY <1>2, <2>1, Quotient DEF SharesMinted
<1>7. supply' \in Nat /\ shares' \in [Users -> Nat]
  <2> DEFINE minted == SharesMinted(amount)
  <2>1. minted \in Nat /\ supply' = supply + minted
        /\ shares' = [shares EXCEPT ![user] = @ + minted]
    BY <1>6 DEF Deposit
  <2> HIDE DEF minted
  <2> QED BY <1>1, <2>1
<1> QED BY <1>2, <1>4, <1>7 DEF Deposit, LendingInv, LendingTypeOK, ScheduleInv, UpdateRates

LEMMA WithdrawKeepsInv ==
  ASSUME LendingInv, NEW user \in Users, NEW assets \in Nat, Withdraw(user, assets)
  PROVE  LendingInv'
<1>1. /\ price \in Nat /\ raw \in Nat /\ supply \in Nat /\ shares \in [Users -> Nat]
  BY DEF LendingInv, LendingTypeOK
<1>2. token_price' \in Nat \ {0} /\ liquidity_price' \in Nat \ {0} /\ last_update' = now
  BY UpdateGrowsPrice DEF Withdraw, LendingInv
<1>3. SharesBurned(assets) \in Nat
  <2>1. assets * Precision \in Nat
    BY Positive
  <2> QED BY <1>2, <2>1, CeilQuotient DEF SharesBurned
<1>4. supply' \in Nat /\ shares' \in [Users -> Nat]
  <2> DEFINE burned == SharesBurned(assets)
  <2>1. /\ burned \in Nat /\ burned <= Least(shares[user], supply)
        /\ supply' = supply - burned
        /\ shares' = [shares EXCEPT ![user] = @ - burned]
    BY <1>3 DEF Withdraw
  <2> HIDE DEF burned
  <2>2. shares[user] \in Nat /\ burned <= shares[user] /\ burned <= supply
    BY <1>1, <2>1 DEF Least
  <2>3. supply - burned \in Nat /\ shares[user] - burned \in Nat
    BY <1>1, <2>1, <2>2
  <2> QED BY <1>1, <2>1, <2>3
<1>5. raw' \in Nat /\ price' = price
  BY <1>1 DEF Withdraw, Layer!Take
<1> QED BY <1>1, <1>2, <1>4, <1>5 DEF Withdraw, LendingInv, LendingTypeOK, ScheduleInv, UpdateRates

(* What shares are worth after an update is a natural number of tokens.     *)
LEMMA PreviewsNatural ==
  ASSUME LendingInv, UpdateRates(price), NEW share_amount \in Nat
  PROVE  PreviewMint(share_amount) \in Nat /\ PreviewRedeem(share_amount) \in Nat
<1>1. token_price' \in Nat
  BY UpdateGrowsPrice DEF LendingInv
<1>2. share_amount * token_price' \in Nat
  <2>1. \A token \in Nat : share_amount * token \in Nat
    OBVIOUS
  <2> QED BY <1>1, <2>1
<1> QED BY <1>2, Quotient, CeilQuotient, Positive DEF PreviewMint, PreviewRedeem

LEMMA MintKeepsInv ==
  ASSUME LendingInv, NEW user \in Users, NEW share_amount \in Nat, Mint(user, share_amount)
  PROVE  LendingInv'
<1> DEFINE tokens == PreviewMint(share_amount)
<1>1. tokens \in Nat /\ Deposit(user, tokens)
  BY PreviewsNatural DEF Mint
<1> HIDE DEF tokens
<1> QED BY <1>1, DepositKeepsInv

LEMMA RedeemKeepsInv ==
  ASSUME LendingInv, NEW user \in Users, NEW share_amount \in Nat, Redeem(user, share_amount)
  PROVE  LendingInv'
<1> DEFINE tokens == PreviewRedeem(share_amount)
<1>1. tokens \in Nat /\ Withdraw(user, tokens)
  BY PreviewsNatural DEF Redeem
<1> HIDE DEF tokens
<1> QED BY <1>1, WithdrawKeepsInv

LEMMA UserKeepsInv ==
  ASSUME LendingInv, UserNext
  PROVE  LendingInv'
<1>1. PICK user \in Users :
        \/ \E amount \in Amounts : \/ Deposit(user, amount) \/ Mint(user, amount)
                                   \/ Withdraw(user, amount) \/ Redeem(user, amount)
        \/ WithdrawAll(user)
  BY DEF UserNext, DepositWithMinAmountOut, MintWithMaxAssets, WithdrawWithMaxSharesBurn,
         RedeemWithMinAmountOut
<1>2. CASE WithdrawAll(user)
  <2>1. shares[user] \in Nat
    BY DEF LendingInv, LendingTypeOK
  <2>2. Redeem(user, shares[user])
    BY <1>2 DEF WithdrawAll, Redeem
  <2> QED BY <2>1, <2>2, RedeemKeepsInv
<1> QED BY <1>1, <1>2, ArgumentsNatural, DepositKeepsInv, MintKeepsInv, WithdrawKeepsInv,
           RedeemKeepsInv

LEMMA UpdateKeepsInv ==
  ASSUME LendingInv, UpdateRate \/ Rebalance
  PROVE  LendingInv'
<1>1. UpdateRates(price) /\ UNCHANGED <<now, linked, rewards, tokenVars>>
  BY DEF UpdateRate, Rebalance
<1>2. token_price' \in Nat \ {0} /\ liquidity_price' \in Nat \ {0} /\ last_update' = now
      /\ price \in Nat \ {0}
  <2>1. token_price' \in Nat \ {0} /\ liquidity_price' \in Nat \ {0} /\ last_update' = now
    BY <1>1, UpdateGrowsPrice DEF LendingInv
  <2> QED BY <1>1, <2>1 DEF UpdateRates, PriceDefined, LendingInv, LendingTypeOK
<1>3. raw' \in Nat /\ price' = price
  <2>1. CASE UpdateRate
    BY <2>1 DEF UpdateRate, layerVars, LendingInv, LendingTypeOK
  <2>2. CASE Rebalance
    <3> DEFINE delta == AssetsDelta
    <3>1. delta \in Nat /\ Layer!Supply(delta)
      <4>1. supply \in Nat /\ raw \in Nat
        BY DEF LendingInv, LendingTypeOK
      <4>2. token_price' * supply \in Nat /\ raw * price \in Nat
        <5>1. \A token \in Nat : token * supply \in Nat /\ raw * token \in Nat
          BY <4>1
        <5> QED BY <1>2, <5>1
      <4>3. TotalAssets(token_price') \in Nat /\ LiquidityBalance \in Nat
        BY <4>2, Quotient, Positive DEF TotalAssets, LiquidityBalance
      <4>4. AssetsDelta > 0 /\ Layer!Supply(AssetsDelta)
        BY <2>2 DEF Rebalance
      <4> QED BY <4>3, <4>4 DEF AssetsDelta
    <3> HIDE DEF delta
    <3>2. delta * Precision \in Nat
      BY <3>1, Positive
    <3>3. Layer!RawOfDeposit(delta) \in Nat
      BY <1>2, <3>2, Quotient DEF Layer!RawOfDeposit
    <3> QED BY <3>1, <3>3 DEF Layer!Supply, LendingInv, LendingTypeOK
  <2> QED BY <2>1, <2>2
<1> QED BY <1>1, <1>2, <1>3 DEF LendingInv, LendingTypeOK, ScheduleInv, tokenVars

-----------------------------------------------------------------------------
(* The auths of the rewards keep the types.                                *)

LEMMA MarketKeepsInv ==
  ASSUME LendingInv, UpdateRates(price) \/ UNCHANGED marketVars,
         UNCHANGED <<now, layerVars, linked, tokenVars>>, ScheduleInv'
  PROVE  LendingInv'
<1>1. token_price' \in Nat \ {0} /\ liquidity_price' \in Nat \ {0} /\ last_update' \in Nat
  <2>1. CASE UpdateRates(price)
    BY <2>1, UpdateGrowsPrice DEF LendingInv, LendingTypeOK
  <2>2. CASE UNCHANGED marketVars
    BY <2>2 DEF marketVars, LendingInv, LendingTypeOK
  <2> QED BY <2>1, <2>2
<1> QED BY <1>1 DEF LendingInv, LendingTypeOK, ScheduleInv, layerVars, tokenVars

LEMMA StartKeepsInv ==
  ASSUME LendingInv, NEW plan \in RewardPlans, NEW start \in Nat, NEW tvl \in Nat,
         StartRewards(plan, start, tvl)
  PROVE  LendingInv'
<1>1. plan.amount \in Nat /\ plan.duration \in Nat \ {0} /\ now \in Nat
  BY ArgumentsNatural DEF StartRewards, StartAllowed, LendingInv, LendingTypeOK
<1>2. Yearly(plan.amount, plan.duration) \in Nat
  BY <1>1, YearlyNatural
<1>3. ScheduleInv'
  BY <1>1, <1>2 DEF StartRewards, StartAllowed, WithStarted, ScheduleInv, LendingInv, Queued,
                    LendingRewardsRateModel
<1>4. /\ UpdateRates(price) \/ UNCHANGED marketVars
      /\ UNCHANGED <<now, layerVars, linked, tokenVars>>
  BY DEF StartRewards
<1> QED BY <1>3, <1>4, MarketKeepsInv

(* Without a queued period, and with the queued one in place of the current.*)
LEMMA UnqueuedTyped ==
  ASSUME ScheduleInv
  PROVE  /\ WithoutQueued(rewards) \in LendingRewardsRateModel
         /\ WithoutQueued(rewards).next_reward_amount = 0
         /\ WithNext(rewards, now) \in LendingRewardsRateModel
         /\ WithNext(rewards, now).next_reward_amount = 0
<1>1. NextYearly(rewards) \in Nat /\ EndTime(rewards) \in Nat /\ rewards.next_duration \in Nat
  BY NextYearlyNatural DEF ScheduleInv, EndTime, LendingRewardsRateModel
<1>2. /\ WithoutQueued(rewards) \in LendingRewardsRateModel
      /\ WithoutQueued(rewards).next_reward_amount = 0
  BY DEF WithoutQueued, ScheduleInv, LendingRewardsRateModel
<1> QED BY <1>1, <1>2 DEF WithNext, LendingRewardsRateModel

LEMMA RewardsKeepInv ==
  ASSUME LendingInv, RewardsNext
  PROVE  LendingInv'
<1>1. CASE \E plan \in RewardPlans, start_tvl \in StartTvls :
             StartRewards(plan, 0, start_tvl)
               \/ \E delay \in StartDelays : StartRewards(plan, now + delay, start_tvl)
  <2>1. \A delay \in StartDelays : now + delay \in Nat
    BY ArgumentsNatural DEF LendingInv, LendingTypeOK
  <2> QED BY <1>1, <2>1, ArgumentsNatural, StartKeepsInv
<1>2. CASE StopRewards
  <2> DEFINE duration == SaturatingSub(SaturatingSub(now, rewards.start_time), 1)
  <2>1. duration \in Nat
    BY DEF SaturatingSub, LendingInv, LendingTypeOK, LendingRewardsRateModel
  <2>2. rewards' = [rewards EXCEPT !.duration = duration]
    BY <1>2 DEF StopRewards, WithStopped
  <2> HIDE DEF duration
  <2>3. ScheduleInv'
    BY <2>1, <2>2 DEF ScheduleInv, LendingInv, Queued, LendingRewardsRateModel
  <2> QED BY <1>2, <2>3, MarketKeepsInv DEF StopRewards
<1>3. CASE CancelQueuedRewards
  <2>1. ScheduleInv'
    BY <1>3, UnqueuedTyped DEF CancelQueuedRewards, ScheduleInv, LendingInv, Queued
  <2> QED BY <1>3, <2>1, MarketKeepsInv DEF CancelQueuedRewards
<1>4. ASSUME NEW plan \in RewardPlans, QueueNextRewards(plan) PROVE LendingInv'
  <2>1. CASE StartRewards(plan, now, rewards.start_tvl)
    <3>1. now \in Nat /\ rewards.start_tvl \in Nat
      BY DEF LendingInv, LendingTypeOK, LendingRewardsRateModel
    <3> QED BY <2>1, <3>1, StartKeepsInv
  <2>2. CASE ~StartRewards(plan, now, rewards.start_tvl)
    <3>1. plan.amount \in Nat /\ plan.duration \in Nat \ {0}
      BY <1>4, ArgumentsNatural DEF QueueNextRewards, QueueAllowed
    <3>2. /\ rewards' = WithQueued(rewards, plan.amount, plan.duration)
          /\ UNCHANGED <<now, layerVars, linked, marketVars, tokenVars>>
      BY <1>4, <2>2 DEF QueueNextRewards
    <3>3. ScheduleInv'
      BY <3>1, <3>2 DEF WithQueued, ScheduleInv, LendingInv, Queued, LendingRewardsRateModel
    <3> QED BY <3>2, <3>3, MarketKeepsInv
  <2> QED BY <2>1, <2>2
<1>5. CASE TransitionToNextRewards
  <2>1. ScheduleInv'
    BY <1>5, UnqueuedTyped DEF TransitionToNextRewards, ScheduleInv, LendingInv, Queued
  <2> QED BY <1>5, <2>1, MarketKeepsInv DEF TransitionToNextRewards
<1> QED BY <1>1, <1>2, <1>3, <1>4, <1>5 DEF RewardsNext

-----------------------------------------------------------------------------
(* The theorems.                                                           *)

LEMMA InitInv == Init => LendingInv
<1> SUFFICES ASSUME Init PROVE LendingInv
  OBVIOUS
<1>1. price \in Nat \ {0}
  <2>1. \A g \in Growth : Precision + g \in Nat \ {0}
    BY Positive, ArgumentsNatural
  <2> QED BY <2>1 DEF Init
<1>2. LendingTypeOK
  <2>1. rewards \in LendingRewardsRateModel
    BY DEF Init, NoRewards, LendingRewardsRateModel
  <2>2. shares \in [Users -> Nat] /\ supply \in Nat /\ linked \in BOOLEAN
    BY DEF Init
  <2>3. /\ now \in Nat /\ last_update \in Nat /\ raw \in Nat /\ price \in Nat
        /\ token_price \in Nat \ {0} /\ liquidity_price \in Nat \ {0}
    BY <1>1, Positive DEF Init
  <2> QED BY <2>1, <2>2, <2>3 DEF LendingTypeOK
<1>3. ScheduleInv
  BY DEF Init, ScheduleInv, NoRewards, Queued, LendingRewardsRateModel
<1> QED BY <1>2, <1>3 DEF LendingInv

LEMMA StepInv == LendingInv /\ [Next]_vars => LendingInv'
<1> SUFFICES ASSUME LendingInv, [Next]_vars PROVE LendingInv'
  OBVIOUS
<1>1. CASE UserNext
  BY <1>1, UserKeepsInv
<1>2. CASE UpdateRate \/ Rebalance
  BY <1>2, UpdateKeepsInv
<1>3. CASE SetRewardsRateModel
  BY <1>3 DEF SetRewardsRateModel, layerVars, marketVars, tokenVars, LendingInv, LendingTypeOK,
              ScheduleInv
<1>4. CASE RewardsNext
  BY <1>4, RewardsKeepInv
<1>5. CASE Tick
  <2>1. \A g \in Growth : price + g \in Nat
    BY ArgumentsNatural DEF LendingInv, LendingTypeOK
  <2> QED BY <1>5, <2>1 DEF Tick, marketVars, tokenVars, LendingInv, LendingTypeOK, ScheduleInv
<1>6. CASE UNCHANGED vars
  BY <1>6 DEF vars, LendingInv, LendingTypeOK, ScheduleInv
<1> QED BY <1>1, <1>2, <1>3, <1>4, <1>5, <1>6 DEF Next

(* Every reachable market is well typed: no price, balance or schedule goes *)
(* below zero, and the exchange price of an fToken is never zero            *)
(* (lending state.rs, lendingRewardRateModel state.rs).                     *)
THEOREM LendingTyped == Spec => []LendingTypeOK
<1>1. LendingInv => LendingTypeOK
  BY DEF LendingInv
<1> QED BY <1>1, InitInv, StepInv, PTL DEF Spec

(* An instruction that brings the market up to date leaves no second before *)
(* now to credit; any other leaves the schedule of those seconds alone.     *)
SyncedOrSame ==
  \/ last_update' = now
  \/ /\ last_update' = last_update
     /\ \A s \in last_update .. (now - 1) :
          /\ ScheduledYearly(rewards', s) = ScheduledYearly(rewards, s)
          /\ ScheduledYearly(rewards, s) # 0 => rewards'.start_tvl = rewards.start_tvl

LEMMA SameSchedule ==
  ASSUME last_update' = last_update, rewards' = rewards
  PROVE  SyncedOrSame
BY DEF SyncedOrSame

(* New rewards start now or later, and only over a market that has none     *)
(* left are they started without an update.                                 *)
LEMMA StartSynced ==
  ASSUME LendingInv, NEW plan \in RewardPlans, NEW start \in Nat, NEW tvl \in Nat,
         StartRewards(plan, start, tvl)
  PROVE  SyncedOrSame
<1>1. CASE rewards.yearly_reward > 0
  BY <1>1 DEF StartRewards, UpdateRates, SyncedOrSame
<1>2. CASE rewards.yearly_reward = 0
  <2>1. last_update' = last_update
    BY <1>2 DEF StartRewards, marketVars
  <2>2. ~Queued(rewards) /\ ~Queued(rewards')
    BY DEF StartRewards, StartAllowed, WithStarted, Queued, LendingInv, LendingTypeOK,
           LendingRewardsRateModel
  <2>3. \A s \in last_update .. (now - 1) : ScheduledYearly(rewards, s) = 0
    BY <1>2, <2>2 DEF ScheduledYearly
  <2>4. rewards'.start_time \in Nat /\ rewards'.start_time >= now
    BY DEF StartRewards, StartAllowed, WithStarted, LendingInv, LendingTypeOK,
           LendingRewardsRateModel
  <2>5. \A s \in last_update .. (now - 1) : ScheduledYearly(rewards', s) = 0
    <3> TAKE s \in last_update .. (now - 1)
    <3>1. s \in Int /\ s < now /\ now \in Nat
      BY DEF LendingInv, LendingTypeOK
    <3>2. s \notin rewards'.start_time .. (EndTime(rewards') - 1)
      BY <2>4, <3>1
    <3> QED BY <2>2, <3>2 DEF ScheduledYearly
  <2> QED BY <2>1, <2>3, <2>5 DEF SyncedOrSame
<1>3. rewards.yearly_reward \in Nat
  BY DEF LendingInv, LendingTypeOK, LendingRewardsRateModel
<1> QED BY <1>1, <1>2, <1>3

(* A queue that is filled or emptied before the current period is over      *)
(* speaks of no second that is past.                                        *)
LEMMA QueueSynced ==
  ASSUME LendingInv, last_update' = last_update, now <= EndTime(rewards),
         rewards' \in LendingRewardsRateModel,
         rewards'.start_time = rewards.start_time, rewards'.duration = rewards.duration,
         rewards'.yearly_reward = rewards.yearly_reward, rewards'.start_tvl = rewards.start_tvl
  PROVE  SyncedOrSame
<1>1. EndTime(rewards') = EndTime(rewards) /\ EndTime(rewards) \in Nat /\ now \in Nat
  BY DEF EndTime, LendingInv, LendingTypeOK, LendingRewardsRateModel
<1>2. ASSUME NEW s \in last_update .. (now - 1)
      PROVE  ScheduledYearly(rewards', s) = ScheduledYearly(rewards, s)
  <2>1. s \in Int /\ s < EndTime(rewards)
    BY <1>1 DEF LendingInv, LendingTypeOK
  <2>2. \A n \in Int : s \notin EndTime(rewards) .. n
    BY <1>1, <2>1
  <2>3. /\ EndTime(rewards) + rewards.next_duration - 1 \in Int
        /\ EndTime(rewards) + rewards'.next_duration - 1 \in Int
    BY <1>1 DEF LendingInv, LendingTypeOK, LendingRewardsRateModel
  <2> QED BY <1>1, <2>2, <2>3 DEF ScheduledYearly
<1> QED BY <1>2 DEF SyncedOrSame

LEMMA StepSynced ==
  ASSUME LendingInv, Next
  PROVE  SyncedOrSame
<1>1. CASE UserNext
  <2>1. UpdateRates(price)
    BY <1>1 DEF UserNext, DepositWithMinAmountOut, MintWithMaxAssets, WithdrawWithMaxSharesBurn,
                RedeemWithMinAmountOut, Deposit, Mint, Withdraw, Redeem, WithdrawAll
  <2> QED BY <2>1 DEF UpdateRates, SyncedOrSame
<1>2. CASE UpdateRate \/ Rebalance
  BY <1>2 DEF UpdateRate, Rebalance, UpdateRates, SyncedOrSame
<1>3. CASE SetRewardsRateModel
  BY <1>3, SameSchedule DEF SetRewardsRateModel, marketVars
<1>4. CASE RewardsNext
  <2>1. CASE \E plan \in RewardPlans, start_tvl \in StartTvls :
               StartRewards(plan, 0, start_tvl)
                 \/ \E delay \in StartDelays : StartRewards(plan, now + delay, start_tvl)
    <3>1. \A delay \in StartDelays : now + delay \in Nat
      BY ArgumentsNatural DEF LendingInv, LendingTypeOK
    <3> QED BY <2>1, <3>1, ArgumentsNatural, StartSynced
  <2>2. CASE StopRewards
    BY <2>2 DEF StopRewards, UpdateRates, SyncedOrSame
  <2>3. CASE CancelQueuedRewards
    <3>1. rewards' = WithoutQueued(rewards) /\ last_update' = last_update
      BY <2>3 DEF CancelQueuedRewards, marketVars
    <3>2. rewards' \in LendingRewardsRateModel
      BY <3>1, UnqueuedTyped DEF LendingInv
    <3>3. /\ rewards'.start_time = rewards.start_time /\ rewards'.duration = rewards.duration
          /\ rewards'.yearly_reward = rewards.yearly_reward
          /\ rewards'.start_tvl = rewards.start_tvl
      BY <3>1 DEF WithoutQueued, LendingInv, LendingTypeOK, LendingRewardsRateModel
    <3>4. now <= EndTime(rewards)
      BY <2>3 DEF CancelQueuedRewards, CancelAllowed
    <3> QED BY <3>1, <3>2, <3>3, <3>4, QueueSynced
  <2>4. ASSUME NEW plan \in RewardPlans, QueueNextRewards(plan) PROVE SyncedOrSame
    <3>1. CASE StartRewards(plan, now, rewards.start_tvl)
      <4>1. now \in Nat /\ rewards.start_tvl \in Nat
        BY DEF LendingInv, LendingTypeOK, LendingRewardsRateModel
      <4> QED BY <3>1, <4>1, StartSynced
    <3>2. CASE ~StartRewards(plan, now, rewards.start_tvl)
      <4>1. /\ rewards' = WithQueued(rewards, plan.amount, plan.duration)
            /\ last_update' = last_update /\ now <= EndTime(rewards)
        BY <2>4, <3>2 DEF QueueNextRewards, marketVars
      <4>2. plan.amount \in Nat /\ plan.duration \in Nat
        BY ArgumentsNatural
      <4>3. /\ rewards' \in LendingRewardsRateModel
            /\ rewards'.start_time = rewards.start_time /\ rewards'.duration = rewards.duration
            /\ rewards'.yearly_reward = rewards.yearly_reward
            /\ rewards'.start_tvl = rewards.start_tvl
        BY <4>1, <4>2 DEF WithQueued, LendingInv, LendingTypeOK, LendingRewardsRateModel
      <4> QED BY <4>1, <4>3, QueueSynced
    <3> QED BY <3>1, <3>2
  <2>5. CASE TransitionToNextRewards
    BY <2>5 DEF TransitionToNextRewards, UpdateRates, SyncedOrSame
  <2> QED BY <1>4, <2>1, <2>2, <2>3, <2>4, <2>5 DEF RewardsNext
<1>5. CASE Tick
  BY <1>5, SameSchedule DEF Tick, marketVars
<1> QED BY <1>1, <1>2, <1>3, <1>4, <1>5 DEF Next

LEMMA StepNotRetroactive ==
  ASSUME LendingInv, [Next]_vars, NEW s \in last_update' .. (now - 1)
  PROVE  /\ ScheduledYearly(rewards', s) = ScheduledYearly(rewards, s)
         /\ ScheduledYearly(rewards, s) # 0 => rewards'.start_tvl = rewards.start_tvl
<1>1. CASE Next
  <2>1. last_update' # now
    BY DEF LendingInv, LendingTypeOK
  <2> QED BY <1>1, <2>1, StepSynced DEF SyncedOrSame
<1>2. CASE UNCHANGED vars
  BY <1>2 DEF vars
<1> QED BY <1>1, <1>2

(* Whatever the auths do to the schedule, and in whatever order, the        *)
(* seconds not yet credited keep the rewards they were promised             *)
(* (lendingRewardRateModel lib.rs, lending helpers.rs update_rates).        *)
THEOREM ScheduleNotRetroactive == Spec => RewardsNotRetroactive
<1>1. LendingInv /\ [Next]_vars =>
        [\A s \in last_update' .. (now - 1) :
           /\ ScheduledYearly(rewards', s) = ScheduledYearly(rewards, s)
           /\ ScheduledYearly(rewards, s) # 0 => rewards'.start_tvl = rewards.start_tvl]_vars
  BY StepNotRetroactive
<1> QED BY <1>1, InitInv, StepInv, PTL DEF Spec, RewardsNotRetroactive

-----------------------------------------------------------------------------
(* The rewards due since the last update, in closed form.                  *)

LEMMA LeastNatural ==
  ASSUME NEW S \in SUBSET Nat, S # {}
  PROVE  \E m \in S : \A k \in S : m <= k
<1>1. PICK m \in S : \A k \in S : <<k, m>> \notin OpToRel(<, Nat)
  BY NatLessThanWellFounded, WFMin
<1>2. ASSUME NEW k \in S PROVE ~(k < m)
  BY <1>1 DEF OpToRel
<1>3. ASSUME NEW k \in S PROVE m <= k
  BY <1>2
<1> QED BY <1>3

(* f sums R from a up to, and without, its argument.                        *)
Sums(f, R, a, b) == f = [s \in a..b |-> IF s = a THEN 0 ELSE f[s - 1] + R[s - 1]]

(* A sum defined by recursion is the function that satisfies the recursion. *)
LEMMA SumsEqual ==
  ASSUME NEW a \in Nat, NEW b \in Nat, NEW R, NEW f, NEW g,
         Sums(f, R, a, b), Sums(g, R, a, b)
  PROVE  f = g
<1> USE DEF Sums
<1> DEFINE D == {s \in a..b : f[s] # g[s]}
<1>1. CASE D = {}
  <2>1. \A s \in a..b : f[s] = g[s]
    BY <1>1
  <2>2. /\ f = [s \in a..b |-> f[s]] /\ g = [s \in a..b |-> g[s]]
    BY Zenon
  <2> QED BY <2>1, <2>2
<1>2. CASE D # {}
  <2>1. D \in SUBSET Nat
    OBVIOUS
  <2>2. PICK m \in D : \A k \in D : m <= k
    BY <1>2, <2>1, LeastNatural
  <2>3. m \in a..b /\ m \in Nat
    OBVIOUS
  <2>4. m # a
    <3>1. CASE m = a
      <4>1. f[a] = 0 /\ g[a] = 0
        BY <2>3, <3>1
      <4> QED BY <3>1, <4>1
    <3> QED BY <3>1
  <2>5. m - 1 \in a..b /\ m - 1 \notin D
    <3>1. m - 1 \in a..b /\ ~(m <= m - 1)
      BY <2>3, <2>4
    <3> HIDE DEF D
    <3> QED BY <2>2, <3>1
  <2>6. f[m - 1] = g[m - 1]
    BY <2>5
  <2>7. f[m] = f[m - 1] + R[m - 1] /\ g[m] = g[m - 1] + R[m - 1]
    BY <2>3, <2>4
  <2> QED BY <2>6, <2>7
<1> QED BY <1>1, <1>2

(* How many seconds from from to to lie between start and end.             *)
Overlap(from, to, start, end) ==
  IF Least(to, end) > Greatest(from, start) THEN Least(to, end) - Greatest(from, start) ELSE 0

LEMMA OverlapGrows ==
  ASSUME NEW a \in Nat, NEW s \in Nat, s > a, NEW start \in Nat, NEW end \in Nat, start <= end
  PROVE  /\ Overlap(a, s, start, end) \in Nat /\ Overlap(a, s - 1, start, end) \in Nat
         /\ Overlap(a, a, start, end) = 0
         /\ Overlap(a, s, start, end) =
              Overlap(a, s - 1, start, end) + IF s - 1 \in start..(end - 1) THEN 1 ELSE 0
BY DEF Overlap, Least, Greatest

(* Two rates in force one after the other.                                 *)
RateAt(s, p, q, start, end, stop) ==
  IF s \in start..(end - 1) THEN p ELSE IF s \in end..(stop - 1) THEN q ELSE 0

LEMMA PiecewiseSum ==
  ASSUME NEW a \in Nat, NEW s \in Nat, s >= a, NEW p \in Nat, NEW q \in Nat,
         NEW start \in Nat, NEW end \in Nat, NEW stop \in Nat, start <= end, end <= stop
  PROVE  LET sum(n) == p * Overlap(a, n, start, end) + q * Overlap(a, n, end, stop)
         IN  sum(s) = IF s = a THEN 0 ELSE sum(s - 1) + RateAt(s - 1, p, q, start, end, stop)
<1>1. CASE s = a
  <2>1. Overlap(a, s, start, end) = 0 /\ Overlap(a, s, end, stop) = 0
    BY <1>1 DEF Overlap, Least, Greatest
  <2> QED BY <1>1, <2>1
<1>2. CASE s # a
  <2> DEFINE x == Overlap(a, s - 1, start, end)
             y == Overlap(a, s - 1, end, stop)
             i == IF s - 1 \in start..(end - 1) THEN 1 ELSE 0
             j == IF s - 1 \in end..(stop - 1) THEN 1 ELSE 0
  <2>1. /\ x \in Nat /\ y \in Nat
        /\ Overlap(a, s, start, end) = x + i /\ Overlap(a, s, end, stop) = y + j
    <3>1. s > a
      BY <1>2
    <3>2. x \in Nat /\ Overlap(a, s, start, end) = x + i
      BY <3>1, OverlapGrows
    <3>3. y \in Nat /\ Overlap(a, s, end, stop) = y + j
      BY <3>1, OverlapGrows
    <3> QED BY <3>2, <3>3
  <2>2. /\ i \in {0, 1} /\ j \in {0, 1} /\ ~(i = 1 /\ j = 1)
        /\ RateAt(s - 1, p, q, start, end, stop) = IF i = 1 THEN p ELSE IF j = 1 THEN q ELSE 0
    BY DEF RateAt
  <2> HIDE DEF x, y, i, j
  <2>3. p * (x + i) + q * (y + j) = p * x + q * y + (IF i = 1 THEN p ELSE IF j = 1 THEN q ELSE 0)
    <3>1. p * (x + i) = p * x + p * i /\ q * (y + j) = q * y + q * j
      BY <2>1, <2>2
    <3>2. /\ p * i = (IF i = 1 THEN p ELSE 0)
          /\ q * j = (IF j = 1 THEN q ELSE 0)
      BY <2>2
    <3>3. p * x \in Nat /\ q * y \in Nat
      BY <2>1
    <3> QED BY <2>2, <3>1, <3>2, <3>3
  <2> QED BY <1>2, <2>1, <2>2, <2>3 DEF x, y
<1> QED BY <1>1, <1>2

LEMMA DueSum ==
  ASSUME last_update \in Nat, now \in Nat, last_update <= now,
         NEW p \in Nat, NEW q \in Nat, NEW start \in Nat, NEW end \in Nat, NEW stop \in Nat,
         start <= end, end <= stop,
         \A s \in last_update..(now - 1) : ScheduledRate(s) = RateAt(s, p, q, start, end, stop)
  PROVE  RewardsDue = p * Overlap(last_update, now, start, end) + q * Overlap(last_update, now, end, stop)
<1> DEFINE sum(s) == p * Overlap(last_update, s, start, end) + q * Overlap(last_update, s, end, stop)
           W == [s \in last_update..now |-> sum(s)]
           R == [s \in last_update..now |-> ScheduledRate(s)]
           Due(f) == f = [s \in last_update..now |->
                            IF s = last_update THEN 0 ELSE f[s - 1] + ScheduledRate(s - 1)]
<1>1. \A f : Due(f) <=> Sums(f, R, last_update, now)
  <2> SUFFICES ASSUME NEW f PROVE Due(f) <=> Sums(f, R, last_update, now)
    OBVIOUS
  <2>1. \A s \in last_update..now : s # last_update => s - 1 \in last_update..now
    OBVIOUS
  <2>2. \A s \in last_update..now : s # last_update => R[s - 1] = ScheduledRate(s - 1)
    BY <2>1
  <2> HIDE DEF R
  <2>3. [s \in last_update..now |-> IF s = last_update THEN 0 ELSE f[s - 1] + R[s - 1]]
          = [s \in last_update..now |-> IF s = last_update THEN 0 ELSE f[s - 1] + ScheduledRate(s - 1)]
    BY <2>2
  <2> QED BY <2>3, Zenon DEF Sums
<1>2. Due(W)
  <2>1. ASSUME NEW s \in last_update..now
        PROVE  sum(s) = IF s = last_update THEN 0 ELSE W[s - 1] + ScheduledRate(s - 1)
    <3>1. sum(s) = IF s = last_update THEN 0 ELSE sum(s - 1) + RateAt(s - 1, p, q, start, end, stop)
      <4>1. s \in Nat /\ s >= last_update
        OBVIOUS
      <4> QED BY <4>1, PiecewiseSum
    <3>2. CASE s # last_update
      <4>1. s - 1 \in last_update..(now - 1) /\ s - 1 \in last_update..now
        BY <3>2
      <4> HIDE DEF sum
      <4>2. W[s - 1] = sum(s - 1)
        BY <4>1
      <4>3. ScheduledRate(s - 1) = RateAt(s - 1, p, q, start, end, stop)
        BY <4>1
      <4> QED BY <3>1, <3>2, <4>2, <4>3
    <3>3. CASE s = last_update
      BY <3>1, <3>3
    <3> QED BY <3>2, <3>3
  <2> HIDE DEF sum
  <2> QED BY <2>1
<1> HIDE DEF sum, R, W
<1>3. \A f : Due(f) => f = W
  <2> SUFFICES ASSUME NEW f, Due(f) PROVE f = W
    OBVIOUS
  <2>1. Sums(f, R, last_update, now) /\ Sums(W, R, last_update, now)
    BY <1>1, <1>2
  <2> QED BY <2>1, SumsEqual
<1>4. RewardsDue = (CHOOSE f : Due(f))[now]
  BY DEF RewardsDue
<1>5. (CHOOSE f : Due(f)) = W
  BY <1>2, <1>3
<1>6. W[now] = sum(now)
  BY DEF W
<1> QED BY <1>4, <1>5, <1>6 DEF sum

-----------------------------------------------------------------------------
(* What an update credits is what the schedule promised.                   *)

LEMMA RateCapped ==
  ASSUME ScheduleInv, NEW yearly \in Nat, NEW total_assets \in Nat,
         total_assets < rewards.start_tvl \/ total_assets # 0
  PROVE  /\ RateFor(rewards, yearly, total_assets) \in Nat
         /\ RateFor(rewards, yearly, total_assets) <= MAX_RATE
         /\ Accepted(RateFor(rewards, yearly, total_assets)) = RateFor(rewards, yearly, total_assets)
         /\ yearly = 0 => RateFor(rewards, yearly, total_assets) = 0
<1> DEFINE rate == RateFor(rewards, yearly, total_assets)
<1>1. rate \in Nat
  BY RateNatural
<1>2. rate <= MAX_RATE /\ (yearly = 0 => rate = 0)
  <2>1. CASE total_assets < rewards.start_tvl
    BY <2>1, Positive DEF RateFor
  <2>2. CASE ~(total_assets < rewards.start_tvl)
    <3> DEFINE paid == (yearly * RETURN_PERCENT_PRECISION) \div total_assets
    <3>1. rate = Least(paid, MAX_RATE)
      BY <2>2 DEF RateFor
    <3>2. paid \in Nat
      <4>1. yearly * RETURN_PERCENT_PRECISION \in Nat
        BY Positive
      <4> QED BY <2>2, <4>1, Quotient
    <3>3. yearly = 0 => paid = 0
      <4>1. 0 * RETURN_PERCENT_PRECISION = 0 /\ total_assets \in Nat \ {0}
        BY <2>2, Positive
      <4>2. 0 \div total_assets = 0
        BY <4>1
      <4> QED BY <4>1, <4>2
    <3> HIDE DEF paid
    <3> QED BY <3>1, <3>2, <3>3, Positive DEF Least
  <2> QED BY <2>1, <2>2
<1> QED BY <1>1, <1>2, Positive DEF Accepted, MAX_REWARDS_RATE

LEMMA ReturnByOverlap ==
  ASSUME NEW rate \in Nat, Accepted(rate) = rate, NEW from \in Nat, NEW to \in Nat,
         NEW start \in Nat, NEW end \in Nat
  PROVE  /\ ReturnOver(rate, Greatest(from, start), Least(to, end))
               = (rate * Overlap(from, to, start, end)) \div SECONDS_PER_YEAR
         /\ rate * Overlap(from, to, start, end) \in Nat
<1>1. Overlap(from, to, start, end) \in Nat
  BY DEF Overlap, Greatest, Least
<1>2. rate * 0 = 0 /\ 0 \div SECONDS_PER_YEAR = 0
  BY Positive
<1> QED BY <1>1, <1>2 DEF ReturnOver, Overlap

LEMMA CreditedDue ==
  ASSUME LendingInv, last_update <= now, RateDefined(rewards, TotalAssets(token_price), now)
  PROVE  \E a, b \in Nat :
           /\ RewardsDue = a + b
           /\ CurrentReturn(CurrentRate) = a \div SECONDS_PER_YEAR
           /\ NextReturn(CurrentRate) = b \div SECONDS_PER_YEAR
<1> DEFINE assets == TotalAssets(token_price)
           start == rewards.start_time
           end == EndTime(rewards)
           stop == IF Queued(rewards) THEN end + rewards.next_duration ELSE end
           p == IF Started(rewards, now)
                THEN RateFor(rewards, rewards.yearly_reward, assets) ELSE 0
           q == IF NextWindow(rewards, now)
                THEN RateFor(rewards, NextYearly(rewards), assets) ELSE 0
           own == Overlap(last_update, now, start, end)
           next == Overlap(last_update, now, end, stop)
           r == CurrentRate
<1>1. /\ last_update \in Nat /\ now \in Nat
      /\ start \in Nat /\ end \in Nat /\ stop \in Nat /\ start <= end /\ end <= stop
      /\ rewards.yearly_reward \in Nat /\ rewards.next_duration \in Nat
      /\ NextYearly(rewards) \in Nat /\ ScheduleInv
  BY NextYearlyNatural DEF LendingInv, LendingTypeOK, LendingRewardsRateModel, EndTime
<1>2. assets \in Nat
  <2>1. token_price * supply \in Nat
    BY DEF LendingInv, LendingTypeOK
  <2> QED BY <2>1, Quotient, Positive DEF TotalAssets
<1>3. Started(rewards, now) => assets < rewards.start_tvl \/ assets # 0
  BY DEF RateDefined
<1> HIDE DEF assets
<1>4. /\ p \in Nat /\ Accepted(p) = p
      /\ q \in Nat /\ Accepted(q) = q
  BY <1>1, <1>2, <1>3, RateCapped, Positive DEF NextWindow, Accepted, MAX_REWARDS_RATE
<1>5. ASSUME NEW s \in last_update..(now - 1)
      PROVE  ScheduledRate(s) = RateAt(s, p, q, start, end, stop)
  <2>1. s \in Nat /\ s < now
    BY <1>1
  <2>2. ScheduledRate(s) = IF ScheduledYearly(rewards, s) = 0 THEN 0
                           ELSE RateFor(rewards, ScheduledYearly(rewards, s), assets)
    BY DEF ScheduledRate, assets
  <2>3. CASE ~Started(rewards, now)
    <3>1. start = 0 \/ start > now
      BY <1>1, <2>3 DEF Started
    <3>2. start = 0 \/ (s \notin start..(end - 1) /\ s \notin end..(end + rewards.next_duration - 1))
      BY <1>1, <2>1, <3>1
    <3>3. ScheduledYearly(rewards, s) = 0
      BY <3>2 DEF ScheduledYearly
    <3>4. p = 0 /\ q = 0
      BY <2>3 DEF NextWindow
    <3> HIDE DEF p, q
    <3> QED BY <2>2, <3>3, <3>4 DEF RateAt
  <2>4. CASE Started(rewards, now)
    <3>1. start # 0
      BY <2>4 DEF Started
    <3>2. CASE s \in start..(end - 1)
      <4>1. ScheduledYearly(rewards, s) = rewards.yearly_reward
        BY <1>1, <2>1, <3>1, <3>2 DEF ScheduledYearly
      <4>2. ScheduledRate(s) = p
        BY <1>1, <1>2, <1>3, <2>2, <2>4, <4>1, RateCapped
      <4> HIDE DEF p, q
      <4> QED BY <3>2, <4>2 DEF RateAt
    <3>3. CASE s \notin start..(end - 1) /\ Queued(rewards) /\ s \in end..(stop - 1)
      <4>1. ScheduledYearly(rewards, s) = NextYearly(rewards)
        BY <1>1, <2>1, <3>1, <3>3 DEF ScheduledYearly
      <4>2. ScheduledRate(s) = q
        BY <1>1, <1>2, <1>3, <2>2, <2>4, <3>3, <4>1, RateCapped DEF NextWindow
      <4> HIDE DEF p, q, stop
      <4> QED BY <3>3, <4>2 DEF RateAt
    <3>4. CASE s \notin start..(end - 1) /\ ~(Queued(rewards) /\ s \in end..(stop - 1))
      <4>1. ScheduledYearly(rewards, s) = 0
        BY <1>1, <2>1, <3>1, <3>4 DEF ScheduledYearly
      <4>2. s \notin end..(stop - 1)
        BY <1>1, <2>1, <3>4
      <4> HIDE DEF p, q, stop
      <4> QED BY <2>2, <3>4, <4>1, <4>2 DEF RateAt
    <3> QED BY <3>2, <3>3, <3>4
  <2> QED BY <2>3, <2>4
<1>6. /\ r.rate = p /\ r.start = start /\ r.end = end /\ r.next_rate = q
      /\ r.next_start = (IF NextWindow(rewards, now) THEN end ELSE 0)
      /\ r.next_end = (IF NextWindow(rewards, now) THEN stop ELSE 0)
      /\ Started(rewards, now) => start > 0
  BY <1>1 DEF CurrentRate, GetRate, NextWindow, Started, assets
<1>7. NextWindow(rewards, now) \/ q = 0
  OBVIOUS
<1>8. Started(rewards, now) \/ p = 0
  OBVIOUS
<1>9. NextWindow(rewards, now) => Started(rewards, now)
  BY DEF NextWindow
<1> HIDE DEF p, q, start, end, stop, r
<1>10. RewardsDue = p * own + q * next
  <2>1. last_update \in Nat /\ now \in Nat /\ start \in Nat /\ end \in Nat /\ stop \in Nat
    BY <1>1
  <2>2. start <= end /\ end <= stop /\ p \in Nat /\ q \in Nat
    BY <1>1, <1>4
  <2>3. \A s \in last_update..(now - 1) : ScheduledRate(s) = RateAt(s, p, q, start, end, stop)
    BY <1>5
  <2> QED BY <2>1, <2>2, <2>3, DueSum
<1>11. own \in Nat /\ next \in Nat
  BY <1>1 DEF Overlap, Least, Greatest
<1>12. p * own \in Nat /\ q * next \in Nat
  BY <1>4, <1>11
<1>13. CurrentReturn(r) = (p * own) \div SECONDS_PER_YEAR
  <2>1. CASE InCurrentPeriod(r)
    BY <1>1, <1>4, <1>6, <2>1, ReturnByOverlap DEF CurrentReturn
  <2>2. CASE ~InCurrentPeriod(r)
    <3>1. p = 0 \/ last_update >= end
      BY <1>1, <1>4, <1>6, <1>8, <2>2 DEF InCurrentPeriod
    <3>2. p = 0 \/ own = 0
      BY <1>1, <3>1 DEF Overlap, Least, Greatest
    <3>3. p * own = 0
      BY <1>4, <1>11, <3>2
    <3> QED BY <2>2, <3>3, Positive DEF CurrentReturn
  <2> QED BY <2>1, <2>2
<1>14. NextReturn(r) = (q * next) \div SECONDS_PER_YEAR
  <2>1. CASE NextWindow(rewards, now) /\ q > 0 /\ now > end
    <3>1. start > 0 /\ end > 0 /\ stop > 0
      BY <1>1, <1>6, <1>9, <2>1
    <3>2. Greatest(CreditedUpTo(r), end) = Greatest(last_update, end)
      BY <1>1, <1>6 DEF CreditedUpTo, InCurrentPeriod, Greatest, Least
    <3>3. NextReturn(r) = ReturnOver(q, Greatest(last_update, end), Least(now, stop))
      BY <1>6, <2>1, <3>1, <3>2 DEF NextReturn
    <3> QED BY <1>1, <1>4, <3>3, ReturnByOverlap
  <2>2. CASE ~(NextWindow(rewards, now) /\ q > 0 /\ now > end)
    <3>1. q = 0 \/ next = 0
      <4>1. q = 0 \/ now <= end
        BY <1>1, <1>4, <1>7, <2>2
      <4> QED BY <1>1, <4>1 DEF Overlap, Least, Greatest
    <3>2. q * next = 0
      BY <1>4, <1>11, <3>1
    <3>3. NextReturn(r) = 0
      BY <1>1, <1>4, <1>6, <2>2 DEF NextReturn
    <3> QED BY <3>2, <3>3, Positive
  <2> QED BY <2>1, <2>2
<1> QED BY <1>10, <1>12, <1>13, <1>14 DEF r

LEMMA QuotientBounds ==
  ASSUME NEW a \in Nat, NEW b \in Nat \ {0}
  PROVE  a \div b \in Nat /\ (a \div b) * b <= a /\ a < (a \div b) * b + b
OBVIOUS

LEMMA ProductMonotonic ==
  ASSUME NEW a \in Nat, NEW b \in Nat, NEW c \in Nat, a <= b
  PROVE  a * c <= b * c
<1>1. b = a + (b - a) /\ b - a \in Nat
  OBVIOUS
<1>2. \A d \in Nat : (a + d) * c = a * c + d * c /\ d * c \in Nat
  OBVIOUS
<1> QED BY <1>1, <1>2

LEMMA ProductStrict ==
  ASSUME NEW a \in Nat, NEW b \in Nat, NEW c \in Nat \ {0}, a < b
  PROVE  a * c < b * c
<1>1. (a + 1) * c <= b * c
  BY ProductMonotonic
<1>2. (a + 1) * c = a * c + c /\ a * c \in Nat /\ b * c \in Nat
  OBVIOUS
<1> QED BY <1>1, <1>2

(* The growth of a price t by the returns of a, b and d, all rounded down.  *)
LEMMA GrowthBounds ==
  ASSUME NEW t \in Nat \ {0}, NEW L \in Nat \ {0}, NEW R \in Nat \ {0}, NEW Y \in Nat \ {0},
         NEW a \in Nat, NEW b \in Nat, NEW d \in Nat
  PROVE  LET grown == (t * (a \div Y + b \div Y + (d * R) \div L)) \div R
             due == t * ((a + b) * L + d * R * Y)
         IN  /\ grown \in Nat
             /\ grown * (R * Y * L) <= due
             /\ grown * (R * Y * L) + R * Y * L + 3 * t * Y * L > due
<1> DEFINE c == a \div Y
           n == b \div Y
           m == (d * R) \div L
           G == c + n + m
           X == (t * G) \div R
           K == Y * L
           U == (a + b) * L + d * R * Y
<1>1. /\ c \in Nat /\ c * Y <= a /\ a < c * Y + Y
      /\ n \in Nat /\ n * Y <= b /\ b < n * Y + Y
  BY QuotientBounds
<1>2. d * R \in Nat
  OBVIOUS
<1>3. m \in Nat /\ m * L <= d * R /\ d * R < m * L + L
  BY <1>2, QuotientBounds
<1> HIDE DEF c, n, m
<1>4. G \in Nat
  BY <1>1, <1>3
<1>5. K \in Nat \ {0} /\ U \in Nat
  OBVIOUS
<1>6. G * K <= U
  <2>1. (c * Y) * L <= a * L /\ (n * Y) * L <= b * L
    BY <1>1, ProductMonotonic
  <2>2. (m * L) * Y <= (d * R) * Y
    BY <1>2, <1>3, ProductMonotonic
  <2>3. G * K = (c * Y) * L + (n * Y) * L + (m * L) * Y
    BY <1>1, <1>3
  <2>4. U = a * L + b * L + (d * R) * Y
    OBVIOUS
  <2>5. /\ (c * Y) * L \in Nat /\ (n * Y) * L \in Nat /\ (m * L) * Y \in Nat
        /\ a * L \in Nat /\ b * L \in Nat /\ (d * R) * Y \in Nat
    BY <1>1, <1>3
  <2> HIDE DEF G, K, U
  <2> QED BY <2>1, <2>2, <2>3, <2>4, <2>5
<1>7. U < (G + 3) * K
  <2>1. a * L < (c * Y + Y) * L /\ b * L < (n * Y + Y) * L
    <3>1. c * Y + Y \in Nat /\ n * Y + Y \in Nat
      BY <1>1
    <3> QED BY <1>1, <3>1, ProductStrict
  <2>2. (d * R) * Y < (m * L + L) * Y
    <3>1. m * L + L \in Nat
      BY <1>3
    <3> QED BY <1>2, <1>3, <3>1, ProductStrict
  <2>3. (G + 3) * K = (c * Y + Y) * L + (n * Y + Y) * L + (m * L + L) * Y
    BY <1>1, <1>3
  <2>4. U = a * L + b * L + (d * R) * Y
    OBVIOUS
  <2>5. /\ (c * Y + Y) * L \in Nat /\ (n * Y + Y) * L \in Nat /\ (m * L + L) * Y \in Nat
        /\ a * L \in Nat /\ b * L \in Nat /\ (d * R) * Y \in Nat
    BY <1>1, <1>3
  <2> HIDE DEF G, K, U
  <2> QED BY <2>1, <2>2, <2>3, <2>4, <2>5
<1> HIDE DEF G, K, U
<1>8. t * G \in Nat
  BY <1>4
<1>9. X \in Nat /\ X * R <= t * G /\ t * G < X * R + R
  BY <1>8, QuotientBounds
<1> HIDE DEF X
<1>10. X * R * K <= t * U
  <2>1. (X * R) * K <= (t * G) * K
    <3>1. X * R \in Nat
      BY <1>9
    <3> QED BY <1>5, <1>8, <1>9, <3>1, ProductMonotonic
  <2>2. (G * K) * t <= U * t
    <3>1. G * K \in Nat
      BY <1>4, <1>5
    <3> QED BY <1>5, <1>6, <3>1, ProductMonotonic
  <2>3. (t * G) * K = (G * K) * t /\ t * U = U * t
    BY <1>4, <1>5
  <2>4. (X * R) * K \in Nat /\ (G * K) * t \in Nat /\ U * t \in Nat
    BY <1>4, <1>5, <1>9
  <2> QED BY <2>1, <2>2, <2>3, <2>4
<1>11. t * U < X * R * K + R * K + 3 * t * K
  <2>1. U * t < ((G + 3) * K) * t
    <3>1. (G + 3) * K \in Nat
      BY <1>4, <1>5
    <3> QED BY <1>5, <1>7, <3>1, ProductStrict
  <2>2. (t * G) * K <= (X * R + R) * K
    <3>1. X * R + R \in Nat /\ t * G <= X * R + R
      BY <1>8, <1>9
    <3> QED BY <1>5, <1>8, <3>1, ProductMonotonic
  <2>3. ((G + 3) * K) * t = (t * G) * K + 3 * t * K
    BY <1>4, <1>5
  <2>4. (X * R + R) * K = X * R * K + R * K
    BY <1>5, <1>9
  <2>5. t * U = U * t
    BY <1>5
  <2>6. /\ U * t \in Nat /\ (t * G) * K \in Nat /\ X * R * K \in Nat /\ R * K \in Nat
        /\ 3 * t * K \in Nat
    BY <1>4, <1>5, <1>9
  <2> QED BY <2>1, <2>2, <2>3, <2>4, <2>5, <2>6
<1>12. X * (R * Y * L) = X * R * K /\ R * Y * L = R * K /\ 3 * t * Y * L = 3 * t * K
  BY <1>9 DEF K
<1> QED BY <1>9, <1>10, <1>11, <1>12 DEF X, G, c, n, m, U

Scale == RETURN_PERCENT_PRECISION * SECONDS_PER_YEAR

LEMMA ScalePositive == Scale \in Nat \ {0}
BY Positive DEF Scale

LEMMA UpdateCredits ==
  ASSUME LendingInv, last_update <= now, UpdateRates(price)
  PROVE  LET scale == RETURN_PERCENT_PRECISION * SECONDS_PER_YEAR * liquidity_price
             gained == (token_price' - token_price) * scale
             due == token_price *
                      (RewardsDue * liquidity_price
                         + (liquidity_price' - liquidity_price)
                             * RETURN_PERCENT_PRECISION * SECONDS_PER_YEAR)
         IN  /\ RewardsDue \in Nat
             /\ gained <= due
             /\ gained + scale + 3 * token_price * SECONDS_PER_YEAR * liquidity_price > due
<1> DEFINE t == token_price
           L == liquidity_price
           d == price - liquidity_price
           R == RETURN_PERCENT_PRECISION
           Y == SECONDS_PER_YEAR
<1>1. /\ t \in Nat \ {0} /\ L \in Nat \ {0} /\ price \in Nat /\ price >= liquidity_price
      /\ RateDefined(rewards, TotalAssets(token_price), now)
  BY DEF UpdateRates, PriceDefined, LendingInv, LendingTypeOK
<1>2. d \in Nat /\ R \in Nat \ {0} /\ Y \in Nat \ {0}
  BY <1>1, Positive
<1>3. PICK a \in Nat, b \in Nat :
        /\ RewardsDue = a + b
        /\ CurrentReturn(CurrentRate) = a \div Y
        /\ NextReturn(CurrentRate) = b \div Y
  BY <1>1, CreditedDue
<1> DEFINE grown == (t * (a \div Y + b \div Y + (d * R) \div L)) \div R
<1>4. token_price' = t + grown /\ liquidity_price' = price
  <2>1. PICK r \in {CurrentRate} : token_price' = NewTokenPrice(r, price)
    BY DEF UpdateRates
  <2>2. token_price' = NewTokenPrice(CurrentRate, price)
    BY <2>1
  <2> QED BY <1>3, <2>2 DEF NewTokenPrice, LiquidityReturn, UpdateRates
<1>5. /\ grown \in Nat
      /\ grown * (R * Y * L) <= t * ((a + b) * L + d * R * Y)
      /\ grown * (R * Y * L) + R * Y * L + 3 * t * Y * L > t * ((a + b) * L + d * R * Y)
  BY <1>1, <1>2, GrowthBounds
<1> HIDE DEF grown
<1>6. token_price' - token_price = grown
  BY <1>1, <1>4, <1>5
<1>7. liquidity_price' - liquidity_price = d
  BY <1>4
<1>8. RewardsDue \in Nat
  BY <1>3
<1> QED BY <1>3, <1>5, <1>6, <1>7, <1>8

-----------------------------------------------------------------------------
(* The last update is never in the future.                                  *)

MarketInv == LendingInv /\ last_update <= now

LEMMA MarketInit == Init => MarketInv
<1> SUFFICES ASSUME Init PROVE MarketInv
  OBVIOUS
<1>1. last_update <= now
  BY DEF Init
<1> QED BY <1>1, InitInv DEF MarketInv

(* The steps by what they do to the market: bring it up to date, or leave   *)
(* it as it is.                                                             *)
LEMMA UpdatedOrKept ==
  ASSUME MarketInv, [Next]_vars
  PROVE  \/ UpdateRates(price) /\ now' = now
         \/ UNCHANGED <<token_price, liquidity_price, last_update, raw, supply>> /\ now' >= now
<1>1. CASE UserNext
  BY <1>1 DEF UserNext, DepositWithMinAmountOut, MintWithMaxAssets, WithdrawWithMaxSharesBurn,
              RedeemWithMinAmountOut, Deposit, Mint, Withdraw, Redeem, WithdrawAll
<1>2. CASE UpdateRate \/ Rebalance
  BY <1>2 DEF UpdateRate, Rebalance
<1>3. CASE SetRewardsRateModel
  BY <1>3 DEF SetRewardsRateModel, layerVars, marketVars, tokenVars, MarketInv, LendingInv, LendingTypeOK
<1>4. ASSUME NEW plan, NEW start, NEW tvl, StartRewards(plan, start, tvl)
      PROVE  \/ UpdateRates(price) /\ now' = now
             \/ UNCHANGED <<token_price, liquidity_price, last_update, raw, supply>> /\ now' >= now
  BY <1>4 DEF StartRewards, layerVars, marketVars, tokenVars, MarketInv, LendingInv, LendingTypeOK
<1>5. CASE StopRewards \/ TransitionToNextRewards
  BY <1>5 DEF StopRewards, TransitionToNextRewards
<1>6. CASE CancelQueuedRewards
  BY <1>6 DEF CancelQueuedRewards, layerVars, marketVars, tokenVars, MarketInv, LendingInv, LendingTypeOK
<1>7. ASSUME NEW plan \in RewardPlans, QueueNextRewards(plan), ~StartRewards(plan, now, rewards.start_tvl)
      PROVE  UNCHANGED <<token_price, liquidity_price, last_update, raw, supply>> /\ now' >= now
  BY <1>7 DEF QueueNextRewards, layerVars, marketVars, tokenVars, MarketInv, LendingInv, LendingTypeOK
<1>8. CASE Tick
  BY <1>8 DEF Tick, marketVars, tokenVars, MarketInv, LendingInv, LendingTypeOK
<1>9. CASE UNCHANGED vars
  BY <1>9 DEF vars, MarketInv, LendingInv, LendingTypeOK
<1> QED BY <1>1, <1>2, <1>3, <1>4, <1>5, <1>6, <1>7, <1>8, <1>9 DEF Next, RewardsNext

LEMMA MarketStep == MarketInv /\ [Next]_vars => MarketInv'
<1> SUFFICES ASSUME MarketInv, [Next]_vars PROVE MarketInv'
  OBVIOUS
<1>1. LendingInv'
  BY StepInv DEF MarketInv
<1>2. now \in Nat /\ last_update \in Nat
  BY DEF MarketInv, LendingInv, LendingTypeOK
<1>3. now' \in Nat
  BY <1>1 DEF LendingInv, LendingTypeOK
<1>4. last_update' <= now'
  BY <1>2, <1>3, UpdatedOrKept DEF MarketInv, UpdateRates
<1> QED BY <1>1, <1>4 DEF MarketInv

(* An update credits each second since the last one once, at what the       *)
(* schedule promised for it, and what the layer earned, up to the rounding  *)
(* of its four divisions, wherever the seconds fall in the current and the  *)
(* queued period (calculate_new_token_exchange_price).                      *)
THEOREM RewardsOnce == Spec => RewardsCreditedOnce
<1> DEFINE Credited ==
      last_update' # last_update =>
       LET scale == RETURN_PERCENT_PRECISION * SECONDS_PER_YEAR * liquidity_price
           gained == (token_price' - token_price) * scale
           due == token_price *
                    (RewardsDue * liquidity_price
                       + (liquidity_price' - liquidity_price)
                           * RETURN_PERCENT_PRECISION * SECONDS_PER_YEAR)
       IN  /\ gained <= due
           /\ gained + scale + 3 * token_price * SECONDS_PER_YEAR * liquidity_price > due
<1>1. MarketInv /\ [Next]_vars => [Credited]_vars
  <2> SUFFICES ASSUME MarketInv, [Next]_vars, last_update' # last_update PROVE Credited
    OBVIOUS
  <2>1. UpdateRates(price)
    BY UpdatedOrKept
  <2> QED BY <2>1, UpdateCredits DEF MarketInv
<1> QED BY <1>1, MarketInit, MarketStep, PTL DEF Spec, RewardsCreditedOnce

-----------------------------------------------------------------------------
(* What a step does to the position in the layer and to the shares.         *)

Deposited(amount) ==
  /\ Layer!Supply(amount)
  /\ SharesMinted(amount) # 0
  /\ supply' = supply + SharesMinted(amount)

Withdrawn(assets) ==
  /\ Layer!Take(assets)
  /\ SharesBurned(assets) <= supply
  /\ supply' = supply - SharesBurned(assets)

(* Of the user instructions each deposits or withdraws some amount.         *)
LEMMA UserSteps ==
  ASSUME MarketInv, UserNext
  PROVE  /\ UpdateRates(price)
         /\ \E amount \in Nat : Deposited(amount) \/ Withdrawn(amount)
<1>1. UpdateRates(price)
  BY DEF UserNext, DepositWithMinAmountOut, MintWithMaxAssets, WithdrawWithMaxSharesBurn,
         RedeemWithMinAmountOut, Deposit, Mint, Withdraw, Redeem, WithdrawAll
<1>2. PICK user \in Users :
        \/ \E amount \in Amounts : \/ Deposit(user, amount) \/ Mint(user, amount)
                                   \/ Withdraw(user, amount) \/ Redeem(user, amount)
        \/ WithdrawAll(user)
  BY DEF UserNext, DepositWithMinAmountOut, MintWithMaxAssets, WithdrawWithMaxSharesBurn,
         RedeemWithMinAmountOut
<1>3. supply \in Nat /\ shares[user] \in Nat
  BY DEF MarketInv, LendingInv, LendingTypeOK
<1>4. ASSUME NEW amount \in Nat, Deposit(user, amount) PROVE Deposited(amount)
  BY <1>4 DEF Deposit, Deposited
<1>5. ASSUME NEW assets \in Nat, Withdraw(user, assets) PROVE Withdrawn(assets)
  <2> DEFINE burned == SharesBurned(assets)
  <2>1. burned \in Nat
    <3>1. assets * Precision \in Nat
      BY Positive
    <3>2. token_price' \in Nat \ {0}
      BY <1>1, UpdateGrowsPrice DEF MarketInv, LendingInv
    <3> QED BY <3>1, <3>2, CeilQuotient DEF SharesBurned
  <2>2. burned <= Least(shares[user], supply) /\ supply' = supply - burned /\ Layer!Take(assets)
    BY <1>5 DEF Withdraw
  <2> HIDE DEF burned
  <2>3. burned <= supply
    BY <1>3, <2>1, <2>2 DEF Least
  <2> QED BY <2>2, <2>3 DEF Withdrawn, burned
<1>6. \A amount \in Nat : PreviewMint(amount) \in Nat /\ PreviewRedeem(amount) \in Nat
  BY <1>1, PreviewsNatural DEF MarketInv
<1>7. CASE \E amount \in Amounts : Deposit(user, amount) \/ Mint(user, amount)
  <2>1. PICK amount \in Nat : Deposit(user, amount)
    <3>1. PICK amount \in Amounts : Deposit(user, amount) \/ Mint(user, amount)
      BY <1>7
    <3>2. amount \in Nat
      BY ArgumentsNatural
    <3> QED BY <1>6, <3>1, <3>2 DEF Mint
  <2> QED BY <1>1, <1>4, <2>1
<1>8. CASE WithdrawAll(user) \/ \E amount \in Amounts : Withdraw(user, amount) \/ Redeem(user, amount)
  <2>1. PICK assets \in Nat : Withdraw(user, assets)
    <3>1. CASE WithdrawAll(user)
      BY <1>3, <1>6, <3>1 DEF WithdrawAll
    <3>2. CASE \E amount \in Amounts : Withdraw(user, amount) \/ Redeem(user, amount)
      <4>1. PICK amount \in Amounts : Withdraw(user, amount) \/ Redeem(user, amount)
        BY <3>2
      <4>2. amount \in Nat
        BY ArgumentsNatural
      <4> QED BY <1>6, <4>1, <4>2 DEF Redeem
    <3> QED BY <1>8, <3>1, <3>2
  <2> QED BY <1>1, <1>5, <2>1
<1> QED BY <1>2, <1>7, <1>8

LEMMA PositionSteps ==
  ASSUME MarketInv, [Next]_vars
  PROVE  \/ UNCHANGED <<token_price, liquidity_price, last_update, raw, supply>>
         \/ UpdateRates(price) /\ UNCHANGED <<raw, supply>>
         \/ UpdateRates(price) /\ \E amount \in Nat : Deposited(amount) \/ Withdrawn(amount)
         \/ Rebalance
<1>1. CASE UserNext
  BY <1>1, UserSteps
<1>2. CASE UpdateRate
  BY <1>2 DEF UpdateRate, layerVars, tokenVars
<1>3. CASE SetRewardsRateModel
  BY <1>3 DEF SetRewardsRateModel, layerVars, marketVars, tokenVars
<1>4. ASSUME NEW plan, NEW start, NEW tvl, StartRewards(plan, start, tvl)
      PROVE  \/ UpdateRates(price) /\ UNCHANGED <<raw, supply>>
             \/ UNCHANGED <<token_price, liquidity_price, last_update, raw, supply>>
  BY <1>4 DEF StartRewards, layerVars, marketVars, tokenVars
<1>5. CASE StopRewards \/ TransitionToNextRewards
  BY <1>5 DEF StopRewards, TransitionToNextRewards, layerVars, tokenVars
<1>6. CASE CancelQueuedRewards
  BY <1>6 DEF CancelQueuedRewards, layerVars, marketVars, tokenVars
<1>7. ASSUME NEW plan \in RewardPlans, QueueNextRewards(plan), ~StartRewards(plan, now, rewards.start_tvl)
      PROVE  UNCHANGED <<token_price, liquidity_price, last_update, raw, supply>>
  BY <1>7 DEF QueueNextRewards, layerVars, marketVars, tokenVars
<1>8. CASE Tick
  BY <1>8 DEF Tick, marketVars, tokenVars
<1>9. CASE UNCHANGED vars
  BY <1>9 DEF vars
<1> QED BY <1>1, <1>2, <1>3, <1>4, <1>5, <1>6, <1>7, <1>8, <1>9 DEF Next, RewardsNext

-----------------------------------------------------------------------------
(* Rounding, for and against the market.                                    *)

(* A division that rounds up.                                               *)
LEMMA CeilBounds ==
  ASSUME NEW a \in Nat, NEW b \in Nat \ {0}
  PROVE  DivCeil(a, b) \in Nat /\ DivCeil(a, b) * b >= a /\ DivCeil(a, b) * b < a + b
<1> DEFINE q == DivCeil(a, b)
<1>1. a + b - 1 \in Nat
  OBVIOUS
<1>2. q \in Nat /\ q * b <= a + b - 1 /\ a + b - 1 < q * b + b
  BY <1>1, QuotientBounds DEF DivCeil
<1>3. q * b \in Nat
  BY <1>2
<1> HIDE DEF q
<1> QED BY <1>2, <1>3 DEF q

(* Shares minted for q raw units, at a price p of the layer and t of the    *)
(* fToken, are worth no more than the raw units.                            *)
LEMMA MintedWorth ==
  ASSUME NEW q \in Nat, NEW p \in Nat \ {0}, NEW t \in Nat \ {0}, NEW P \in Nat \ {0}
  PROVE  LET m == (((q * p) \div P) * P) \div t
         IN  m \in Nat /\ m * t <= q * p
<1> DEFINE g == (q * p) \div P
           m == (g * P) \div t
<1>1. q * p \in Nat
  OBVIOUS
<1>2. g \in Nat /\ g * P <= q * p
  BY <1>1, QuotientBounds
<1> HIDE DEF g
<1>3. g * P \in Nat
  BY <1>2
<1>4. m \in Nat /\ m * t <= g * P
  BY <1>3, QuotientBounds
<1> HIDE DEF m
<1>5. m * t \in Nat
  BY <1>4
<1> QED BY <1>1, <1>2, <1>3, <1>4, <1>5 DEF m, g
(* The prices and the position of a step that brings the market up to date. *)
LEMMA UpdatedTyped ==
  ASSUME MarketInv, [Next]_vars, UpdateRates(price)
  PROVE  /\ token_price' \in Nat \ {0} /\ liquidity_price' = price /\ price \in Nat \ {0}
         /\ raw \in Nat /\ raw' \in Nat /\ supply \in Nat /\ supply' \in Nat
<1>1. MarketInv'
  BY MarketStep
<1>2. /\ token_price' \in Nat \ {0} /\ liquidity_price' \in Nat \ {0}
      /\ raw' \in Nat /\ supply' \in Nat
  BY <1>1 DEF MarketInv, LendingInv, LendingTypeOK
<1>3. raw \in Nat /\ supply \in Nat
  BY DEF MarketInv, LendingInv, LendingTypeOK
<1> QED BY <1>2, <1>3 DEF UpdateRates

(* A deposit is worth no less than the shares minted for it.                *)
LEMMA DepositBacked ==
  ASSUME MarketInv, [Next]_vars, UpdateRates(price), NEW amount \in Nat, Deposited(amount)
  PROVE  /\ raw' > raw /\ supply' > supply
         /\ Shortfall' <= supply * token_price' - raw * liquidity_price'
<1> DEFINE q == Layer!RawOfDeposit(amount)
           m == SharesMinted(amount)
           t == token_price'
           p == price
<1>1. t \in Nat \ {0} /\ liquidity_price' = p /\ p \in Nat \ {0} /\ raw \in Nat /\ supply \in Nat
  BY UpdatedTyped
<1>2. q \in Nat
  <2>1. amount * Precision \in Nat
    BY Positive
  <2> QED BY <1>1, <2>1, Quotient DEF Layer!RawOfDeposit
<1>3. q # 0 /\ raw' = raw + q /\ supply' = supply + m /\ m # 0
  BY DEF Deposited, Layer!Supply
<1>4. m = (((q * p) \div Precision) * Precision) \div t
  BY DEF SharesMinted, Registered
<1> HIDE DEF q, m, t, p
<1>5. m \in Nat /\ m * t <= q * p
  BY <1>1, <1>2, <1>4, MintedWorth, Positive
<1>6. Shortfall' = (supply + m) * t - (raw + q) * p
  BY <1>1, <1>3 DEF Shortfall, t
<1>7. (supply + m) * t = supply * t + m * t /\ (raw + q) * p = raw * p + q * p
  BY <1>1, <1>2, <1>5
<1>8. /\ supply * t \in Nat /\ m * t \in Nat /\ raw * p \in Nat /\ q * p \in Nat
  BY <1>1, <1>2, <1>5
<1>9. Shortfall' <= supply * t - raw * p
  BY <1>5, <1>6, <1>7, <1>8
<1>10. raw' > raw /\ supply' > supply
  BY <1>1, <1>2, <1>3, <1>5
<1> QED BY <1>1, <1>9, <1>10 DEF t

(* What is withdrawn is worth no more than the shares burned for it, but   *)
(* for less than a raw unit.                                                *)
LEMMA WithdrawalBacked ==
  ASSUME MarketInv, [Next]_vars, UpdateRates(price), NEW assets \in Nat, Withdrawn(assets)
  PROVE  /\ raw' < raw
         /\ Shortfall' - liquidity_price' <= supply * token_price' - raw * liquidity_price'
<1> DEFINE w == Layer!RawOfWithdrawal(assets)
           k == SharesBurned(assets)
           t == token_price'
           p == price
           v == assets * Precision
<1>1. t \in Nat \ {0} /\ liquidity_price' = p /\ p \in Nat \ {0} /\ raw \in Nat /\ supply \in Nat
  BY UpdatedTyped
<1>2. v \in Nat
  BY Positive
<1>3. w \in 1..raw /\ raw' = raw - w /\ supply' = supply - k /\ k <= supply
  BY DEF Withdrawn, Layer!Take
<1>4. w = DivCeil(v, p) /\ k = DivCeil(v, t)
  BY DEF Layer!RawOfWithdrawal, SharesBurned, DivCeil, Layer!DivCeil
<1> HIDE DEF w, k, t, p, v
<1>5. w \in Nat /\ w * p < v + p
  BY <1>1, <1>2, <1>4, CeilBounds
<1>6. k \in Nat /\ k * t >= v
  BY <1>1, <1>2, <1>4, CeilBounds
<1>7. Shortfall' = (supply - k) * t - (raw - w) * p
  BY <1>1, <1>3 DEF Shortfall, t
<1>8. (supply - k) * t = supply * t - k * t /\ (raw - w) * p = raw * p - w * p
  BY <1>1, <1>5, <1>6
<1>9. /\ supply * t \in Nat /\ k * t \in Nat /\ raw * p \in Nat /\ w * p \in Nat
  BY <1>1, <1>5, <1>6
<1>10. Shortfall' - p <= supply * t - raw * p
  BY <1>1, <1>2, <1>5, <1>6, <1>7, <1>8, <1>9
<1>11. raw' < raw
  BY <1>1, <1>3
<1> QED BY <1>1, <1>10, <1>11 DEF t

(* The raw units that q = (d P) / p buy are worth nearly d tokens: enough   *)
(* to close the gap between what the shares are worth and the position,    *)
(* measured in tokens, but for less than a token and a raw unit.            *)
LEMMA GapClosed ==
  ASSUME NEW T \in Nat, NEW R \in Nat, NEW P \in Nat \ {0}, NEW p \in Nat \ {0},
         (T \div P) - (R \div P) > 0
  PROVE  LET q == (((T \div P) - (R \div P)) * P) \div p
         IN  q \in Nat /\ T - (R + q * p) < P + p
<1> DEFINE a == T \div P
           b == R \div P
           q == ((a - b) * P) \div p
<1>1. a \in Nat /\ T < a * P + P
  BY QuotientBounds
<1>2. b \in Nat /\ b * P <= R
  BY QuotientBounds
<1>3. a - b > 0
  OBVIOUS
<1> HIDE DEF a, b
<1>4. a - b \in Nat /\ (a - b) * P = a * P - b * P
  BY <1>1, <1>2, <1>3
<1>5. (a - b) * P \in Nat
  BY <1>4
<1>6. q \in Nat /\ (a - b) * P < q * p + p
  BY <1>5, QuotientBounds
<1> HIDE DEF q
<1>7. a * P \in Nat /\ b * P \in Nat /\ q * p \in Nat
  BY <1>1, <1>2, <1>6
<1>8. T - (R + q * p) < P + p
  BY <1>1, <1>2, <1>4, <1>6, <1>7
<1> QED BY <1>6, <1>8 DEF q, a, b

LEMMA RebalanceBacked ==
  ASSUME MarketInv, [Next]_vars, Rebalance
  PROVE  /\ raw' > raw
         /\ Shortfall' <= supply * token_price' - raw * liquidity_price'
         /\ Shortfall' < Precision + liquidity_price'
<1> DEFINE t == token_price'
           p == price
           T == t * supply
           R == raw * p
           q == Layer!RawOfDeposit(AssetsDelta)
<1>1. t \in Nat \ {0} /\ liquidity_price' = p /\ p \in Nat \ {0} /\ raw \in Nat /\ supply \in Nat
  BY UpdatedTyped DEF Rebalance
<1>2. T \in Nat /\ R \in Nat
  <2>1. \A x \in Nat : x * supply \in Nat /\ raw * x \in Nat
    BY <1>1
  <2> QED BY <1>1, <2>1
<1>3. AssetsDelta = (T \div Precision) - (R \div Precision)
  BY DEF AssetsDelta, TotalAssets, LiquidityBalance
<1>4. AssetsDelta > 0 /\ supply' = supply /\ q # 0 /\ raw' = raw + q
  BY DEF Rebalance, Layer!Supply, tokenVars
<1>5. q = (((T \div Precision) - (R \div Precision)) * Precision) \div p
  BY <1>3 DEF Layer!RawOfDeposit
<1> HIDE DEF q, T, R
<1>6. q \in Nat /\ T - (R + q * p) < Precision + p
  BY <1>1, <1>2, <1>3, <1>4, <1>5, GapClosed, Positive
<1>7. Shortfall' = T - (R + q * p)
  <2>1. Shortfall' = supply * t - (raw + q) * p
    BY <1>1, <1>4 DEF Shortfall
  <2>2. supply * t = T
    BY <1>1 DEF T
  <2>3. (raw + q) * p = R + q * p
    BY <1>1, <1>6 DEF R
  <2> QED BY <2>1, <2>2, <2>3
<1>8. q * p \in Nat
  BY <1>1, <1>6
<1>9. Shortfall' <= T - R
  BY <1>2, <1>7, <1>8
<1>10. T = supply * t /\ R = raw * p
  BY <1>1 DEF T, R
<1>11. raw' > raw
  BY <1>1, <1>4, <1>6
<1> QED BY <1>1, <1>6, <1>7, <1>9, <1>10, <1>11

(* A rebalance leaves the position able to pay every share, but for less   *)
(* than a token and a raw unit; nothing else that adds to the position     *)
(* leaves the supply as it was (rebalance.rs).                              *)
THEOREM RebalanceSuffices == Spec => RebalanceCloses
<1> DEFINE Closes == supply' = supply /\ raw' > raw => Shortfall' < Precision + liquidity_price'
<1>1. MarketInv /\ [Next]_vars => [Closes]_vars
  <2> SUFFICES ASSUME MarketInv, [Next]_vars, supply' = supply, raw' > raw
               PROVE  Shortfall' < Precision + liquidity_price'
    OBVIOUS
  <2>1. raw \in Nat /\ supply \in Nat
    BY DEF MarketInv, LendingInv, LendingTypeOK
  <2>2. ~UNCHANGED <<raw, supply>>
    BY <2>1
  <2>3. ASSUME UpdateRates(price), NEW amount \in Nat, Deposited(amount) PROVE FALSE
    BY <2>1, <2>3, DepositBacked
  <2>4. ASSUME UpdateRates(price), NEW amount \in Nat, Withdrawn(amount) PROVE FALSE
    <3>1. raw' < raw /\ raw' \in Nat
      BY <2>4, WithdrawalBacked, UpdatedTyped
    <3> QED BY <2>1, <3>1
  <2>5. Rebalance
    BY <2>2, <2>3, <2>4, PositionSteps
  <2> QED BY <2>5, RebalanceBacked
<1> QED BY <1>1, MarketInit, MarketStep, PTL DEF Spec, RebalanceCloses

-----------------------------------------------------------------------------
(* What the market owes beyond its position.                                *)

LEMMA IntegerMonotonic ==
  ASSUME NEW a \in Int, NEW b \in Int, NEW c \in Nat, a <= b
  PROVE  a * c <= b * c
<1>1. b = a + (b - a) /\ b - a \in Nat
  OBVIOUS
<1>2. \A d \in Nat : (a + d) * c = a * c + d * c /\ d * c \in Nat
  OBVIOUS
<1>3. a * c \in Int
  OBVIOUS
<1> QED BY <1>1, <1>2, <1>3

(* No time, no rewards.                                                     *)
LEMMA NothingDue ==
  ASSUME last_update \in Nat, now = last_update
  PROVE  RewardsDue = 0
<1>1. \A s \in last_update..(now - 1) : ScheduledRate(s) = RateAt(s, 0, 0, 0, 0, 0)
  OBVIOUS
<1>2. RewardsDue = 0 * Overlap(last_update, now, 0, 0) + 0 * Overlap(last_update, now, 0, 0)
  BY <1>1, DueSum
<1>3. Overlap(last_update, now, 0, 0) \in Nat
  BY DEF Overlap, Least, Greatest
<1> QED BY <1>2, <1>3

(* If the price of the fToken rises from t to u while the layer's rises     *)
(* from L to M, and the rise is no more than what a return of D over the    *)
(* scale K and the layer's own return account for, then what S fTokens are  *)
(* worth beyond x raw units rises by no more than that.                     *)
LEMMA WorthAccrues ==
  ASSUME NEW t \in Nat, NEW u \in Nat, NEW L \in Nat, NEW M \in Nat, NEW D \in Nat,
         NEW K \in Nat, NEW S \in Nat, NEW x \in Nat,
         (u - t) * (K * L) <= t * (D * L + (M - L) * K)
  PROVE  (S * u - x * M) * (L * K) <= (S * t - x * L) * (M * K) + S * t * D * L
<1> DEFINE U == u * (K * L)
           V == t * (D * L) + t * (M * K)
           X == x * M * (L * K)
<1>1. U <= V
  <2>1. (u - t) * (K * L) = U - t * (K * L)
    OBVIOUS
  <2>2. t * (D * L + (M - L) * K) = t * (D * L) + t * (M * K) - t * (K * L)
    OBVIOUS
  <2>3. U \in Nat /\ t * (K * L) \in Nat /\ t * (D * L) \in Nat /\ t * (M * K) \in Nat
    OBVIOUS
  <2> HIDE DEF U
  <2> QED BY <2>1, <2>2, <2>3
<1>2. U \in Nat /\ V \in Nat /\ X \in Nat
  OBVIOUS
<1>3. (S * u - x * M) * (L * K) = U * S - X
  OBVIOUS
<1>4. (S * t - x * L) * (M * K) + S * t * D * L = V * S - X
  OBVIOUS
<1> HIDE DEF U, V, X
<1>5. U * S <= V * S
  BY <1>1, <1>2, ProductMonotonic
<1>6. U * S \in Nat /\ V * S \in Nat
  BY <1>2
<1> QED BY <1>2, <1>3, <1>4, <1>5, <1>6

Rounding == IF raw' < raw THEN liquidity_price' ELSE 0

(* At the prices of an update, the position loses nothing to a deposit, a   *)
(* mint or a rebalance, and less than a raw unit to a withdrawal.           *)
LEMMA StepsBacked ==
  ASSUME MarketInv, [Next]_vars, UpdateRates(price)
  PROVE  Shortfall' - Rounding <= supply * token_price' - raw * liquidity_price'
<1>1. /\ token_price' \in Nat \ {0} /\ liquidity_price' \in Nat \ {0}
      /\ raw \in Nat /\ raw' \in Nat /\ supply \in Nat /\ supply' \in Nat
  BY UpdatedTyped
<1>2. Shortfall' \in Int /\ supply * token_price' - raw * liquidity_price' \in Int
  <2>1. \A a, b, c, d \in Nat : a * b - c * d \in Int
    OBVIOUS
  <2> QED BY <1>1, <2>1 DEF Shortfall
<1>3. raw' >= raw => Shortfall' - Rounding = Shortfall'
  <2>1. raw' >= raw => Rounding = 0
    BY <1>1 DEF Rounding
  <2>2. \A i \in Int : i - 0 = i
    OBVIOUS
  <2> QED BY <1>2, <2>1, <2>2
<1>4. raw' < raw => Rounding = liquidity_price'
  BY DEF Rounding
<1>5. PICK bound \in Int : bound = supply * token_price' - raw * liquidity_price'
  BY <1>2
<1>6. CASE UNCHANGED <<raw, supply>>
  <2>1. Shortfall' = bound
    BY <1>5, <1>6 DEF Shortfall
  <2>2. Shortfall' - Rounding = Shortfall'
    BY <1>1, <1>3, <1>6
  <2>3. bound <= bound
    OBVIOUS
  <2> QED BY <1>5, <2>1, <2>2, <2>3
<1>7. ASSUME NEW amount \in Nat, Deposited(amount) PROVE Shortfall' - Rounding <= bound
  <2>1. raw' > raw /\ Shortfall' <= bound
    BY <1>5, <1>7, DepositBacked
  <2>2. Shortfall' - Rounding = Shortfall'
    BY <1>1, <1>3, <2>1
  <2> QED BY <2>1, <2>2
<1>8. ASSUME NEW amount \in Nat, Withdrawn(amount) PROVE Shortfall' - Rounding <= bound
  <2>1. raw' < raw /\ Shortfall' - liquidity_price' <= bound
    BY <1>5, <1>8, WithdrawalBacked
  <2> QED BY <1>4, <2>1
<1>9. CASE Rebalance
  <2>1. raw' > raw /\ Shortfall' <= bound
    BY <1>5, <1>9, RebalanceBacked
  <2>2. Shortfall' - Rounding = Shortfall'
    BY <1>1, <1>3, <2>1
  <2> QED BY <1>5, <2>1, <2>2
<1>10. CASE UNCHANGED <<token_price, liquidity_price, last_update, raw, supply>>
  BY <1>6, <1>10
<1> QED BY <1>5, <1>6, <1>7, <1>8, <1>9, <1>10, PositionSteps

(* What the market owes its shares beyond its position grows by the rewards *)
(* credited, by the layer's own growth and by less than a raw unit when     *)
(* somebody withdraws; the roundings of deposit, mint, withdraw, redeem and *)
(* rebalance never add to it.                                               *)
THEOREM BackingHolds == Spec => BackingKept
<1> DEFINE Kept ==
      LET scale == RETURN_PERCENT_PRECISION * SECONDS_PER_YEAR
          rounding == IF raw' < raw THEN liquidity_price' ELSE 0
          credited == IF last_update' = last_update THEN 0
                      ELSE supply * token_price * RewardsDue * liquidity_price
      IN  (Shortfall' - rounding) * liquidity_price * scale
            <= Shortfall * liquidity_price' * scale + credited
<1>1. MarketInv /\ [Next]_vars => [Kept]_vars
  <2> SUFFICES ASSUME MarketInv, [Next]_vars PROVE Kept
    OBVIOUS
  <2> DEFINE t == token_price
             L == liquidity_price
             M == liquidity_price'
             D == RewardsDue
             s == Shortfall' - Rounding
             credited == IF last_update' = last_update THEN 0 ELSE supply * t * D * L
  <2>1. /\ t \in Nat /\ L \in Nat /\ raw \in Nat /\ supply \in Nat
        /\ last_update \in Nat /\ last_update <= now
    BY DEF MarketInv, LendingInv, LendingTypeOK
  <2>2. /\ token_price' \in Nat /\ M \in Nat /\ raw' \in Nat /\ supply' \in Nat
    <3>1. MarketInv'
      BY MarketStep
    <3> QED BY <3>1 DEF MarketInv, LendingInv, LendingTypeOK
  <2>3. Shortfall \in Int /\ Shortfall' \in Int /\ supply * token_price' - raw * M \in Int
    <3>1. \A a, b, c, d \in Nat : a * b - c * d \in Int
      OBVIOUS
    <3> QED BY <2>1, <2>2, <3>1 DEF Shortfall
  <2>4. s \in Int
    BY <2>2, <2>3 DEF Rounding
  <2>5. s * L * Scale <= Shortfall * M * Scale + credited
    <3>1. CASE UpdateRates(price)
      <4>1. s <= supply * token_price' - raw * M
        BY <3>1, StepsBacked
      <4>2. L * Scale \in Nat
        BY <2>1, ScalePositive
      <4>3. s * (L * Scale) <= (supply * token_price' - raw * M) * (L * Scale)
        <5> DEFINE b == supply * token_price' - raw * M
                   c == L * Scale
        <5>1. s \in Int /\ b \in Int /\ c \in Nat /\ s <= b
          BY <2>3, <2>4, <4>1, <4>2
        <5> HIDE DEF s, b, c
        <5>2. s * c <= b * c
          BY <5>1, IntegerMonotonic
        <5> QED BY <5>2 DEF b, c
      <4>4. D \in Nat /\ (token_price' - t) * (Scale * L) <= t * (D * L + (M - L) * Scale)
        <5>1. /\ D \in Nat
              /\ (token_price' - t) * (RETURN_PERCENT_PRECISION * SECONDS_PER_YEAR * L)
                   <= t * (D * L + (M - L) * RETURN_PERCENT_PRECISION * SECONDS_PER_YEAR)
          BY <3>1, UpdateCredits DEF MarketInv
        <5>2. (M - L) * RETURN_PERCENT_PRECISION * SECONDS_PER_YEAR = (M - L) * Scale
          BY <2>1, <2>2, Positive DEF Scale
        <5> QED BY <5>1, <5>2 DEF Scale
      <4>5. (supply * token_price' - raw * M) * (L * Scale)
              <= Shortfall * (M * Scale) + supply * t * D * L
        BY <2>1, <2>2, <4>4, ScalePositive, WorthAccrues DEF Shortfall
      <4>6. credited = supply * t * D * L
        <5>1. CASE last_update' = last_update
          <6>1. D = 0
            BY <2>1, <3>1, <5>1, NothingDue DEF UpdateRates
          <6>2. supply * t * 0 * L = 0
            BY <2>1
          <6> QED BY <5>1, <6>1, <6>2
        <5> QED BY <5>1
      <4>7. /\ s * (L * Scale) = s * L * Scale
            /\ Shortfall * (M * Scale) = Shortfall * M * Scale
        <5> DEFINE f == Shortfall
                   K == Scale
        <5>1. s \in Int /\ f \in Int /\ L \in Nat /\ M \in Nat /\ K \in Nat
          BY <2>1, <2>2, <2>3, <2>4, ScalePositive
        <5> HIDE DEF s, f, K, L, M
        <5>2. s * (L * K) = s * L * K /\ f * (M * K) = f * M * K
          BY <5>1
        <5> QED BY <5>2 DEF f, K, L, M
      <4> DEFINE A == s * (L * Scale)
                 B == (supply * token_price' - raw * M) * (L * Scale)
                 C == Shortfall * (M * Scale) + supply * t * D * L
      <4>8. A \in Int /\ B \in Int /\ C \in Int
        <5>1. \A a \in Int : \A b, c, d, e \in Nat : a * (b * c) \in Int /\ a * (b * c) + b * c * d * e \in Int
          OBVIOUS
        <5>2. \A a \in Int : \A b, c, d, e, f, g \in Nat : a * (b * c) + d * e * f * g \in Int
          OBVIOUS
        <5>3. A \in Int /\ B \in Int
          BY <2>1, <2>3, <2>4, <5>1, ScalePositive
        <5>4. C \in Int
          BY <2>1, <2>2, <2>3, <4>4, <5>2, ScalePositive
        <5> QED BY <5>3, <5>4
      <4>9. A <= B /\ B <= C
        BY <4>3, <4>5
      <4> HIDE DEF A, B, C
      <4>10. A <= C
        BY <4>8, <4>9
      <4> HIDE DEF s, credited
      <4> QED BY <4>6, <4>7, <4>10 DEF A, C
    <3>2. CASE UNCHANGED <<token_price, liquidity_price, last_update, raw, supply>>
      <4>1. Shortfall' = Shortfall /\ M = L /\ Rounding = 0 /\ credited = 0
        BY <2>1, <3>2 DEF Shortfall, Rounding
      <4>2. s = Shortfall
        BY <2>3, <4>1
      <4>3. \A a \in Int : \A b, c \in Nat : a * b * c <= a * b * c + 0
        <5>1. \A a \in Int : \A b, c \in Nat : a * b * c \in Int
          OBVIOUS
        <5> QED BY <5>1
      <4> HIDE DEF s, credited
      <4> QED BY <2>1, <2>3, <4>1, <4>2, <4>3, ScalePositive
    <3> QED BY <3>1, <3>2, UpdatedOrKept
  <2> QED BY <2>5 DEF Rounding, Scale
<1> QED BY <1>1, MarketInit, MarketStep, PTL DEF Spec, BackingKept
=============================================================================
