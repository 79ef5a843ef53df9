-------------------------------- MODULE Loyalty --------------------------------
(***************************************************************************)
(* LoyaltyService for one account: points are awarded for jobs, redeemed   *)
(* for rewards, and rewards applied to jobs.  Every operation reads the    *)
(* account (or the reward), computes, and writes absolute values in later  *)
(* statements; operations overlap and may die in between.                  *)
(*                                                                         *)
(* awardPointsForJob has no caller yet (payments.service.ts:222 announces  *)
(* one): it is modelled as the service offers it.                          *)
(***************************************************************************)
EXTENDS Integers, FiniteSets

CONSTANTS
  Amounts,        \* what jobs cost, in cents
  Costs,          \* what redeem requests say rewards cost, in points: the
                  \* number is the client's, and may be negative
  Requests,       \* operations in progress at once
  Jobs,           \* the jobs rewards are applied to
  MaxAwards,      \* bound on the awards
  MaxRewards      \* bound on the redemptions

VARIABLES
  account,        \* LoyaltyAccount: points, lifetimePoints, tier
  ledger,         \* LoyaltyTransaction rows: the sums and the number of each type
  rewards,        \* LoyaltyReward rows, and as a history the jobs of each
  op,             \* the operations in progress, each with the row it read
  overlapped,     \* history: did operations overlap?
  given,          \* history: the cost of all rewards created
  died            \* history: the points of the operations that died before the
                  \* statement each is named for

lvars == <<account, ledger, rewards, op, overlapped, given, died>>

Tiers == {"BRONZE", "SILVER", "GOLD", "PLATINUM"}

calculateTier(lifetime) ==
  CASE lifetime >= 10000 -> "PLATINUM"
    [] lifetime >= 5000 /\ lifetime < 10000 -> "GOLD"
    [] lifetime >= 1000 /\ lifetime < 5000 -> "SILVER"
    [] OTHER -> "BRONZE"

\* The multiplier, in percent.
getTierBonus(tier) ==
  CASE tier = "PLATINUM" -> 130 [] tier = "GOLD" -> 120
    [] tier = "SILVER" -> 110 [] OTHER -> 100

\* 0 for the null of the highest tier.
getPointsToNextTier(lifetime) ==
  CASE lifetime >= 10000 -> 0
    [] lifetime >= 5000 /\ lifetime < 10000 -> 10000 - lifetime
    [] lifetime >= 1000 /\ lifetime < 5000 -> 5000 - lifetime
    [] OTHER -> 1000 - lifetime

\* Whole dollars, then the bonus of the tier, both rounded down.
Points(amount, tier) == ((amount \div 100) * getTierBonus(tier)) \div 100

NoAccount == [points |-> 0, lifetime |-> 0, tier |-> "BRONZE"]
Idle == [pc |-> "idle", read |-> NoAccount, points |-> 0, reward |-> 0]
RewardIds == 1..MaxRewards
Slots == {i \in RewardIds : rewards[i].state = "none"}

\* Where an operation has logged its points and not written them.
Unfinished == {"credit", "reward", "debit"}

Init ==
  /\ account = NoAccount
  /\ ledger = [earned |-> 0, spent |-> 0, awards |-> 0, redemptions |-> 0]
  /\ rewards = [i \in RewardIds |-> [state |-> "none", jobs |-> {}]]
  /\ op = [r \in Requests |-> Idle]
  /\ overlapped = FALSE
  /\ given = 0
  /\ died = [pc \in Unfinished |-> 0]

-----------------------------------------------------------------------------
\* An operation begins: does another one run?
Begin(r, new) ==
  /\ op[r].pc = "idle"
  /\ op' = [op EXCEPT ![r] = new]
  /\ overlapped' = (overlapped \/ \E q \in Requests \ {r} : op[q].pc # "idle")
  /\ UNCHANGED <<given, died>>

(* awardPointsForJob *)

AwardRead(r, amount) ==
  /\ ledger.awards < MaxAwards
  /\ Begin(r, [Idle EXCEPT !.pc = "award", !.read = account,
                           !.points = Points(amount, account.tier)])
  /\ UNCHANGED <<account, ledger, rewards>>

AwardLog(r) ==
  /\ op[r].pc = "award" /\ ledger.awards < MaxAwards
  /\ ledger' = [ledger EXCEPT !.earned = @ + op[r].points, !.awards = @ + 1]
  /\ op' = [op EXCEPT ![r].pc = "credit"]
  /\ UNCHANGED <<account, rewards, overlapped, given, died>>

\* The account becomes what was read, plus the points.
AwardCredit(r) ==
  /\ op[r].pc = "credit"
  /\ LET lifetime == op[r].read.lifetime + op[r].points
     IN  account' = [points |-> op[r].read.points + op[r].points, lifetime |-> lifetime,
                     tier |-> calculateTier(lifetime)]
  /\ op' = [op EXCEPT ![r] = Idle]
  /\ UNCHANGED <<ledger, rewards, overlapped, given, died>>

-----------------------------------------------------------------------------
(* redeemReward *)

\* Mutant: the points are not compared with the cost.
RedeemUnchecked(r, cost) ==
  /\ Begin(r, [Idle EXCEPT !.pc = "deduct", !.read = account, !.points = cost])
  /\ UNCHANGED <<account, ledger, rewards>>

\* The only check of the cost, which a negative one passes.
RedeemRead(r, cost) ==
  /\ account.points >= cost
  /\ Begin(r, [Idle EXCEPT !.pc = "deduct", !.read = account, !.points = cost])
  /\ UNCHANGED <<account, ledger, rewards>>

RedeemLog(r) ==
  /\ op[r].pc = "deduct" /\ ledger.redemptions < MaxRewards
  /\ ledger' = [ledger EXCEPT !.spent = @ + op[r].points, !.redemptions = @ + 1]
  /\ op' = [op EXCEPT ![r].pc = "reward"]
  /\ UNCHANGED <<account, rewards, overlapped, given, died>>

\* Mutant: redeemReward returns the reward as soon as there is one.
RewardReturned(r) ==
  /\ op[r].pc = "reward" /\ Slots # {}
  /\ \E i \in Slots : rewards' = [rewards EXCEPT ![i].state = "open"]
  /\ given' = given + op[r].points
  /\ op' = [op EXCEPT ![r] = Idle]
  /\ UNCHANGED <<account, ledger, overlapped, died>>

RedeemReward(r) ==
  /\ op[r].pc = "reward" /\ Slots # {}
  /\ LET i == CHOOSE j \in Slots : \A k \in Slots : j <= k
     IN  rewards' = [rewards EXCEPT ![i].state = "open"]
  /\ given' = given + op[r].points
  /\ op' = [op EXCEPT ![r].pc = "debit"]
  /\ UNCHANGED <<account, ledger, overlapped, died>>

\* Mutant: the deduction also lowers the lifetime points.
DebitLifetime(read, cost) ==
  [account EXCEPT !.points = read.points - cost, !.lifetime = @ - cost]

\* Only the points are written: what was read, less the cost.
Debit(read, cost) == [account EXCEPT !.points = read.points - cost]

RedeemDebit(r) ==
  /\ op[r].pc = "debit"
  /\ account' = Debit(op[r].read, op[r].points)
  /\ op' = [op EXCEPT ![r] = Idle]
  /\ UNCHANGED <<ledger, rewards, overlapped, given, died>>

-----------------------------------------------------------------------------
(* applyReward *)

ApplyRead(r, i) ==
  /\ rewards[i].state = "open"
  /\ Begin(r, [Idle EXCEPT !.pc = "apply", !.reward = i])
  /\ UNCHANGED <<account, ledger, rewards>>

\* The update goes by the reward's id, redeemed meanwhile or not.
ApplyWrite(r, j) ==
  /\ op[r].pc = "apply"
  /\ rewards' = [rewards EXCEPT ![op[r].reward] =
                    [state |-> "redeemed", jobs |-> @.jobs \union {j}]]
  /\ op' = [op EXCEPT ![r] = Idle]
  /\ UNCHANGED <<account, ledger, overlapped, given, died>>

\* 90 days pass.
Expire(i) ==
  /\ rewards[i].state = "open"
  /\ rewards' = [rewards EXCEPT ![i].state = "expired"]
  /\ UNCHANGED <<account, ledger, op, overlapped, given, died>>

\* A database error or a crash.
Die(r) ==
  /\ op[r].pc # "idle"
  /\ op' = [op EXCEPT ![r] = Idle]
  /\ died' = [pc \in Unfinished |-> IF op[r].pc = pc THEN died[pc] + op[r].points ELSE died[pc]]
  /\ UNCHANGED <<account, ledger, rewards, overlapped, given>>

-----------------------------------------------------------------------------
Next ==
  \/ \E r \in Requests :
       \/ \E amount \in Amounts : AwardRead(r, amount)
       \/ \E cost \in Costs : RedeemRead(r, cost)
       \/ \E i \in RewardIds : ApplyRead(r, i)
       \/ \E j \in Jobs : ApplyWrite(r, j)
       \/ AwardLog(r) \/ AwardCredit(r) \/ RedeemLog(r) \/ RedeemReward(r)
       \/ RedeemDebit(r) \/ Die(r)
  \/ \E i \in RewardIds : Expire(i)

Spec == Init /\ [][Next]_lvars

-----------------------------------------------------------------------------
(* The rows and the operations have their types; points are never negative,    *)
(* whatever overlaps: each operation checked the points it writes from.        *)
TypeOK ==
  /\ account \in [points : Nat, lifetime : Nat, tier : Tiers]
  /\ ledger \in [earned : Nat, spent : Int, awards : 0..MaxAwards, redemptions : 0..MaxRewards]
  /\ rewards \in [RewardIds -> [state : {"none", "open", "redeemed", "expired"},
                                jobs : SUBSET Jobs]]
  /\ op \in [Requests -> [pc : {"idle", "award", "deduct", "apply"} \union Unfinished,
                          read : [points : Nat, lifetime : Nat, tier : Tiers],
                          points : Int, reward : 0..MaxRewards]]
  /\ overlapped \in BOOLEAN
  /\ given \in Int /\ died \in [Unfinished -> Int]

\* No operation is in progress, and no two ever were at once.
OneByOne == ~overlapped /\ \A r \in Requests : op[r].pc = "idle"

\* What was awarded, without the awards that were logged and never credited.
Credited == ledger.earned - died["credit"]

(* What the rewards of an account cost has been taken from its points, but for *)
(* the rewards whose own redemption died between creating the reward and the   *)
(* debit: that is the only way to a reward that was not paid, as long as       *)
(* operations do not overlap.                                                  *)
RewardsArePaid == OneByOne => account.points = Credited - given + died["debit"]

(* As long as operations do not overlap, the account is what its transactions  *)
(* add up to, but for those that were logged by an operation that died before  *)
(* it wrote the account.  Two that overlap lose one of their updates.          *)
BalanceIsLedger ==
  OneByOne =>
    /\ account.points = Credited - ledger.spent + died["reward"] + died["debit"]
    /\ account.lifetime = Credited
    /\ account.tier = calculateTier(Credited)

(* 'Reward not found or already redeemed' (loyalty.service.ts:188): a reward   *)
(* is applied to one job.                                                      *)
RewardUsedOnce == \A i \in RewardIds : Cardinality(rewards[i].jobs) <= 1

=============================================================================
