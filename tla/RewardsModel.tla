---------------------------- MODULE RewardsModel ----------------------------
(***************************************************************************)
(* The lending rewards rate model: what was scheduled for the current and  *)
(* the next reward period, the rate this gives a market of a size, and the *)
(* instructions that change the schedule, as pure operators on a record    *)
(* with the fields of LendingRewardsRateModel.                             *)
(***************************************************************************)
EXTENDS FixedPoint

CONSTANTS
  RETURN_PERCENT_PRECISION,  \* a return of 100%
  MAX_RATE,                  \* largest yearly reward rate
  SECONDS_PER_YEAR

ASSUME RewardsAssumption ==
  /\ RETURN_PERCENT_PRECISION \in Nat \ {0}
  /\ MAX_RATE \in Nat
  /\ SECONDS_PER_YEAR \in Nat \ {0}

LendingRewardsRateModel ==
  [start_tvl : Nat, duration : Nat, start_time : Nat, yearly_reward : Nat,
   next_duration : Nat, next_reward_amount : Nat]

NoRewards ==
  [start_tvl |-> 0, duration |-> 0, start_time |-> 0, yearly_reward |-> 0,
   next_duration |-> 0, next_reward_amount |-> 0]

EndTime(r) == r.start_time + r.duration
Started(r, now) == r.start_time # 0 /\ r.start_time <= now
Queued(r) == r.next_reward_amount > 0

Yearly(amount, duration) == (amount * SECONDS_PER_YEAR) \div duration
NextYearly(r) == IF Queued(r) THEN Yearly(r.next_reward_amount, r.next_duration) ELSE 0

(* The rate that pays yearly to a market of total_assets.                  *)
RateFor(r, yearly, total_assets) ==
  IF total_assets < r.start_tvl THEN 0
  ELSE Least((yearly * RETURN_PERCENT_PRECISION) \div total_assets, MAX_RATE)

(* get_rate divides by total_assets once rewards have started.             *)
RateDefined(r, total_assets, now) ==
  Started(r, now) => total_assets < r.start_tvl \/ total_assets # 0

NextWindow(r, now) == Started(r, now) /\ Queued(r)

GetRate(r, total_assets, now) ==
  [rate |-> IF Started(r, now) THEN RateFor(r, r.yearly_reward, total_assets) ELSE 0,
   start |-> r.start_time,
   end |-> EndTime(r),
   next_start |-> IF NextWindow(r, now) THEN EndTime(r) ELSE 0,
   next_end |-> IF NextWindow(r, now) THEN EndTime(r) + r.next_duration ELSE 0,
   next_rate |-> IF NextWindow(r, now) THEN RateFor(r, NextYearly(r), total_assets) ELSE 0]

-----------------------------------------------------------------------------
(* The instructions: when the schedule lets them through, and the schedule *)
(* they leave.  Whether they bring the fToken up to date first is up to    *)
(* Lending, which composes them with the market.                           *)

StartAllowed(r, amount, duration, start_time, now) ==
  /\ duration # 0 /\ amount # 0
  /\ now > EndTime(r)
  /\ ~Queued(r)
  /\ start_time = 0 \/ start_time >= now

WithStarted(r, amount, duration, start_time, start_tvl, now) ==
  [r EXCEPT !.start_time = IF start_time = 0 THEN now ELSE start_time,
            !.duration = duration,
            !.yearly_reward = Yearly(amount, duration),
            !.start_tvl = start_tvl]

StopAllowed(r, now) == r.start_time # 0 /\ now <= EndTime(r) /\ ~Queued(r)

WithStopped(r, now) ==
  [r EXCEPT !.duration = SaturatingSub(SaturatingSub(now, r.start_time), 1)]

CancelAllowed(r, now) == Queued(r) /\ now <= EndTime(r)

WithoutQueued(r) == [r EXCEPT !.next_duration = 0, !.next_reward_amount = 0]

QueueAllowed(r, amount, duration) ==
  duration # 0 /\ amount # 0 /\ r.start_time # 0 /\ ~Queued(r)

WithQueued(r, amount, duration) ==
  [r EXCEPT !.next_reward_amount = amount, !.next_duration = duration]

TransitionAllowed(r, now) == now > EndTime(r) /\ Queued(r)

(* Mutant: the next period starts when somebody moves on to it.            *)
WithNextFromNow(r, now) ==
  [WithoutQueued(r) EXCEPT !.start_time = now, !.duration = r.next_duration,
                           !.yearly_reward = NextYearly(r)]

(* The queued period starts where the current one ended, not now.          *)
WithNext(r, now) ==
  [WithoutQueued(r) EXCEPT !.start_time = EndTime(r), !.duration = r.next_duration,
                           !.yearly_reward = NextYearly(r)]

-----------------------------------------------------------------------------
(* What the schedule promises for the second from s to s + 1, whoever asks *)
(* and whenever; the reference the credited rewards are compared with.     *)
ScheduledYearly(r, s) ==
  CASE r.start_time # 0 /\ s \in r.start_time..(EndTime(r) - 1) -> r.yearly_reward
    [] r.start_time # 0 /\ Queued(r) /\ s \in EndTime(r)..(EndTime(r) + r.next_duration - 1) ->
         NextYearly(r)
    [] OTHER -> 0
=============================================================================
