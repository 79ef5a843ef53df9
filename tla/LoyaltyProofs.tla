----------------------------- MODULE LoyaltyProofs -----------------------------
(***************************************************************************)
(* Theorems about Loyalty, for all amounts and costs and any number of     *)
(* operations that overlap and die at any statement.                       *)
(***************************************************************************)
EXTENDS Loyalty, TLAPS

\* What awards and rewards may cost, and the bounds.
Numbers ==
  /\ Amounts \subseteq Nat /\ Costs \subseteq Int
  /\ MaxAwards \in Nat /\ MaxRewards \in Nat

Rows == [points : Nat, lifetime : Nat, tier : Tiers]

Operations ==
  [pc : {"idle", "award", "credit", "deduct", "reward", "debit", "apply"},
   read : Rows, points : Int, reward : 0..MaxRewards]

-----------------------------------------------------------------------------
(* Types, and points that are never negative *)

\* A redemption deducts from a row that had the points, an award adds points,
\* and an application has a reward.
Affordable ==
  /\ \A r \in Requests : op[r].pc \in {"award", "credit"} => op[r].points >= 0
  /\ \A r \in Requests :
       op[r].pc \in {"deduct", "reward", "debit"} => op[r].points <= op[r].read.points
  /\ \A r \in Requests : op[r].pc = "apply" => op[r].reward \in RewardIds

Ledgers == [earned : Nat, spent : Int, awards : 0..MaxAwards, redemptions : 0..MaxRewards]

Rewards == [RewardIds -> [state : {"none", "open", "redeemed", "expired"}, jobs : SUBSET Jobs]]

TypeInv ==
  /\ account \in Rows /\ ledger \in Ledgers /\ rewards \in Rewards
  /\ op \in [Requests -> Operations] /\ overlapped \in BOOLEAN
  /\ given \in Int /\ died \in [Unfinished -> Int]
  /\ Affordable

LEMMA TierType == ASSUME NEW lifetime PROVE calculateTier(lifetime) \in Tiers
BY DEF calculateTier, Tiers

LEMMA PointsType ==
  ASSUME NEW amount \in Nat, NEW tier PROVE Points(amount, tier) \in Nat
<1>1. getTierBonus(tier) \in Nat
  BY DEF getTierBonus
<1>2. amount \div 100 \in Nat
  OBVIOUS
<1>3. (amount \div 100) * getTierBonus(tier) \in Nat
  BY <1>1, <1>2
<1> QED BY <1>3 DEF Points

LEMMA TypeInvInit == Numbers /\ Init => TypeInv
<1> SUFFICES ASSUME Numbers, Init PROVE TypeInv
  OBVIOUS
<1>1. NoAccount \in Rows
  BY DEF NoAccount, Rows, Tiers
<1>2. Idle \in Operations
  BY <1>1 DEF Idle, Operations, Numbers
<1>3. Affordable
  BY DEF Init, Affordable, Idle
<1>4. ledger \in Ledgers /\ rewards \in Rewards
  BY DEF Init, Ledgers, Rewards, Numbers
<1>5. overlapped \in BOOLEAN /\ given \in Int /\ died \in [Unfinished -> Int]
  <2>1. overlapped \in BOOLEAN
    BY DEF Init
  <2>2. given \in Int
    BY DEF Init
  <2>3. [pc \in Unfinished |-> 0] \in [Unfinished -> Int]
    OBVIOUS
  <2>4. died \in [Unfinished -> Int]
    BY <2>3 DEF Init
  <2> QED BY <2>1, <2>2, <2>4
<1> QED BY <1>1, <1>2, <1>3, <1>4, <1>5 DEF Init, TypeInv

LEMMA TypeInvNext == Numbers /\ TypeInv /\ [Next]_lvars => TypeInv'
<1> SUFFICES ASSUME Numbers, TypeInv, [Next]_lvars PROVE TypeInv'
  OBVIOUS
<1>0. TypeInv /\ MaxAwards \in Nat /\ MaxRewards \in Nat
  BY DEF Numbers
<1> USE DEF TypeInv
<1>b. Idle \in Operations
  BY <1>0 DEF Idle, NoAccount, Operations, Rows, Tiers
<1>1. ASSUME NEW r \in Requests, NEW amount \in Amounts, AwardRead(r, amount)
      PROVE  op' \in [Requests -> Operations] /\ Affordable'
  <2> DEFINE new == [Idle EXCEPT !.pc = "award", !.read = account,
                                 !.points = Points(amount, account.tier)]
  <2>1. new \in Operations /\ new.pc = "award" /\ new.points >= 0
    <3>1. Points(amount, account.tier) \in Nat
      BY PointsType DEF Numbers
    <3>2. Points(amount, account.tier) \in Int /\ Points(amount, account.tier) >= 0
      BY <3>1
    <3> QED BY <1>0, <1>b, <3>2 DEF Operations
  <2>2. op' = [op EXCEPT ![r] = new]
    BY <1>1 DEF AwardRead, Begin
  <2> HIDE DEF new
  <2> QED BY <1>0, <2>1, <2>2 DEF Affordable
<1>2. ASSUME NEW r \in Requests, NEW cost \in Costs, RedeemRead(r, cost)
      PROVE  op' \in [Requests -> Operations] /\ Affordable'
  <2> DEFINE new == [Idle EXCEPT !.pc = "deduct", !.read = account, !.points = cost]
  <2>1. new \in Operations /\ new.pc = "deduct" /\ new.points <= new.read.points
    BY <1>0, <1>b, <1>2 DEF RedeemRead, Numbers, Operations, Rows, Idle
  <2>2. op' = [op EXCEPT ![r] = new]
    BY <1>2 DEF RedeemRead, Begin
  <2> HIDE DEF new
  <2> QED BY <1>0, <2>1, <2>2 DEF Affordable
<1>3. ASSUME NEW r \in Requests, NEW i \in RewardIds, ApplyRead(r, i)
      PROVE  op' \in [Requests -> Operations] /\ Affordable'
  <2> DEFINE new == [Idle EXCEPT !.pc = "apply", !.reward = i]
  <2>1. new \in Operations /\ new.pc = "apply" /\ new.reward \in RewardIds
    <3>1. i \in 0..MaxRewards
      BY <1>0 DEF RewardIds
    <3> QED BY <1>b, <3>1 DEF Operations
  <2>2. op' = [op EXCEPT ![r] = new]
    BY <1>3 DEF ApplyRead, Begin
  <2> HIDE DEF new
  <2> QED BY <1>0, <2>1, <2>2 DEF Affordable
<1>4. ASSUME NEW r \in Requests,
             \/ op' = [op EXCEPT ![r] = Idle]
             \/ op[r].pc = "award" /\ op' = [op EXCEPT ![r].pc = "credit"]
             \/ op[r].pc = "deduct" /\ op' = [op EXCEPT ![r].pc = "reward"]
             \/ op[r].pc = "reward" /\ op' = [op EXCEPT ![r].pc = "debit"]
      PROVE  op' \in [Requests -> Operations] /\ Affordable'
  <2>1. CASE op' = [op EXCEPT ![r] = Idle]
    BY <1>0, <1>b, <2>1 DEF Affordable, Idle
  <2>2. ASSUME NEW pc \in {"credit", "reward", "debit"}, op' = [op EXCEPT ![r].pc = pc],
               pc = "credit" => op[r].pc = "award",
               pc # "credit" => op[r].pc \in {"deduct", "reward"}
        PROVE  op' \in [Requests -> Operations] /\ Affordable'
    BY <1>0, <2>2 DEF Affordable, Operations
  <2> QED BY <1>4, <2>1, <2>2
<1>5. ASSUME NEW r \in Requests, AwardLog(r) PROVE ledger' \in Ledgers
  <2>1. op[r].points \in Nat
    BY <1>0, <1>5 DEF Operations, AwardLog, Affordable
  <2>2. ledger.earned + op[r].points \in Nat /\ ledger.awards + 1 \in 0..MaxAwards
    BY <1>0, <1>5, <2>1 DEF AwardLog, Ledgers
  <2> QED BY <1>0, <1>5, <2>2 DEF AwardLog, Ledgers
<1>6. ASSUME NEW r \in Requests, RedeemLog(r) PROVE ledger' \in Ledgers
  <2>1. op[r].points \in Int
    BY <1>0 DEF Operations
  <2>2. ledger.spent + op[r].points \in Int /\ ledger.redemptions + 1 \in 0..MaxRewards
    BY <1>0, <1>6, <2>1 DEF RedeemLog, Ledgers
  <2> QED BY <1>0, <1>6, <2>2 DEF RedeemLog, Ledgers
<1>7. ASSUME NEW r \in Requests, AwardCredit(r) PROVE account' \in Rows
  <2>1. op[r].points \in Nat /\ op[r].read \in Rows
    BY <1>0, <1>7 DEF Operations, AwardCredit, Affordable
  <2> QED BY <1>7, <2>1, TierType DEF AwardCredit, Rows
<1>8. ASSUME NEW r \in Requests, RedeemDebit(r) PROVE account' \in Rows
  <2>1. op[r].points \in Int /\ op[r].read.points \in Nat
    BY <1>0 DEF Operations, Rows
  <2>2. op[r].points <= op[r].read.points
    BY <1>0, <1>8 DEF RedeemDebit, Affordable
  <2>3. op[r].read.points - op[r].points \in Nat
    BY <2>1, <2>2
  <2> QED BY <1>0, <1>8, <2>3 DEF RedeemDebit, Debit, Rows
<1>9. ASSUME NEW r \in Requests, RedeemReward(r) \/ (\E j \in Jobs : ApplyWrite(r, j))
      PROVE  rewards' \in Rewards
  <2>1. CASE RedeemReward(r)
    BY <1>0, <2>1 DEF RedeemReward, Rewards, Slots
  <2>2. ASSUME NEW j \in Jobs, ApplyWrite(r, j)
        PROVE  rewards' \in Rewards
    <3>1. op[r].reward \in RewardIds
      BY <1>0, <2>2 DEF ApplyWrite, Affordable
    <3> QED BY <1>0, <2>2, <3>1 DEF ApplyWrite, Rewards
  <2> QED BY <1>9, <2>1, <2>2
<1>10. ASSUME NEW r \in Requests,
              \/ \E amount \in Amounts : AwardRead(r, amount)
              \/ \E cost \in Costs : RedeemRead(r, cost)
              \/ \E i \in RewardIds : ApplyRead(r, i)
       PROVE  /\ UNCHANGED <<account, ledger, rewards, given, died>> /\ overlapped' \in BOOLEAN
              /\ op' \in [Requests -> Operations] /\ Affordable'
  BY <1>0, <1>1, <1>2, <1>3, <1>10 DEF AwardRead, RedeemRead, ApplyRead, Begin
<1>11. ASSUME NEW r \in Requests,
              \/ \E j \in Jobs : ApplyWrite(r, j)
              \/ AwardLog(r) \/ AwardCredit(r) \/ RedeemLog(r) \/ RedeemReward(r)
              \/ RedeemDebit(r) \/ Die(r)
       PROVE  op' \in [Requests -> Operations] /\ Affordable'
  <2>1. \/ op' = [op EXCEPT ![r] = Idle]
        \/ op[r].pc = "award" /\ op' = [op EXCEPT ![r].pc = "credit"]
        \/ op[r].pc = "deduct" /\ op' = [op EXCEPT ![r].pc = "reward"]
        \/ op[r].pc = "reward" /\ op' = [op EXCEPT ![r].pc = "debit"]
    BY <1>11 DEF ApplyWrite, AwardLog, AwardCredit, RedeemLog, RedeemReward, RedeemDebit, Die
  <2> QED BY <1>4, <2>1
<1>12. ASSUME NEW i \in RewardIds, Expire(i) PROVE TypeInv'
  BY <1>0, <1>12 DEF Expire, Affordable, Rewards
<1>13. CASE UNCHANGED lvars
  BY <1>0, <1>13 DEF lvars, Affordable
<1>14. ASSUME NEW r \in Requests,
              \/ \E j \in Jobs : ApplyWrite(r, j)
              \/ AwardLog(r) \/ AwardCredit(r) \/ RedeemLog(r) \/ RedeemReward(r)
              \/ RedeemDebit(r) \/ Die(r)
       PROVE  TypeInv'
  <2>1. overlapped' \in BOOLEAN
    BY <1>0, <1>14 DEF ApplyWrite, AwardLog, AwardCredit, RedeemLog, RedeemReward, RedeemDebit, Die
  <2>p. op[r].points \in Int
    BY <1>0 DEF Operations
  <2>g. given' \in Int
    <3>1. given' = given \/ given' = given + op[r].points
      BY <1>14 DEF ApplyWrite, AwardLog, AwardCredit, RedeemLog, RedeemReward, RedeemDebit, Die
    <3>2. given \in Int
      BY <1>0
    <3> QED BY ONLY <2>p, <3>1, <3>2
  <2>d. died' \in [Unfinished -> Int]
    <3>1. CASE Die(r)
      BY <1>0, <2>p, <3>1 DEF Die
    <3>2. CASE ~Die(r)
      BY <1>0, <1>14, <3>2
         DEF ApplyWrite, AwardLog, AwardCredit, RedeemLog, RedeemReward, RedeemDebit
    <3> QED BY <3>1, <3>2
  <2>2. account' \in Rows
    BY <1>0, <1>7, <1>8, <1>14 DEF ApplyWrite, AwardLog, RedeemLog, RedeemReward, Die
  <2>3. ledger' \in Ledgers
    BY <1>0, <1>5, <1>6, <1>14 DEF ApplyWrite, AwardCredit, RedeemReward, RedeemDebit, Die
  <2>4. rewards' \in Rewards
    BY <1>0, <1>9, <1>14 DEF AwardLog, AwardCredit, RedeemLog, RedeemDebit, Die
  <2> QED BY <1>0, <1>11, <1>14, <2>1, <2>g, <2>d, <2>2, <2>3, <2>4
<1> QED BY <1>0, <1>10, <1>12, <1>13, <1>14 DEF Next

\* The rows keep their types; in particular an account's points are never
\* negative, however many redemptions read it before one of them writes.
THEOREM LoyaltyTypes == ASSUME Numbers PROVE Spec => []TypeOK
<1>1. Init => TypeInv
  BY TypeInvInit
<1>2. TypeInv /\ [Next]_lvars => TypeInv'
  BY TypeInvNext
<1>3. TypeInv => TypeOK
  <2>1. Operations = [pc : {"idle", "award", "deduct", "apply"} \union Unfinished,
                      read : Rows, points : Int, reward : 0..MaxRewards]
    <3>1. {"idle", "award", "credit", "deduct", "reward", "debit", "apply"}
            = {"idle", "award", "deduct", "apply"} \union Unfinished
      BY DEF Unfinished
    <3> QED BY <3>1 DEF Operations
  <2> QED BY <2>1 DEF TypeInv, TypeOK, Rows, Ledgers, Rewards
<1> QED BY <1>1, <1>2, <1>3, PTL DEF Spec

-----------------------------------------------------------------------------
(* The balance *)

\* What was logged, what was paid for and what was earned, added up.
Adds(logged, paid, lifetime, tier) ==
  /\ logged = Credited - ledger.spent + died["reward"] + died["debit"]
  /\ paid = Credited - given + died["debit"]
  /\ lifetime = Credited
  /\ tier = calculateTier(Credited)

Kept == Adds(account.points, account.points, account.lifetime, account.tier)

\* What the account has to do with its transactions and its rewards when the
\* one operation in progress is at pc, having read a row.
BalancedAt(o) ==
  CASE o.pc = "credit" ->
         /\ o.read = account /\ account.tier = calculateTier(account.lifetime)
         /\ Adds(account.points + o.points, account.points + o.points,
                 account.lifetime + o.points, calculateTier(account.lifetime + o.points))
    [] o.pc = "reward" ->
         /\ o.read = account
         /\ Adds(account.points - o.points, account.points, account.lifetime, account.tier)
    [] o.pc = "debit" ->
         /\ o.read = account
         /\ Adds(account.points - o.points, account.points - o.points,
                 account.lifetime, account.tier)
    [] o.pc \in {"award", "deduct"} -> o.read = account /\ Kept
    [] OTHER -> Kept

\* Without overlaps there is one operation at a time.
BalanceInv ==
  ~overlapped =>
    /\ \A q, r \in Requests : op[q].pc # "idle" /\ op[r].pc # "idle" => q = r
    /\ \A r \in Requests : op[r].pc # "idle" => BalancedAt(op[r])
    /\ (\A r \in Requests : op[r].pc = "idle") => Kept

\* After a step of the one operation in progress.
LEMMA AloneStays ==
  ASSUME TypeInv, BalanceInv, NEW r \in Requests, op[r].pc # "idle", ~overlapped,
         NEW new \in Operations, op' = [op EXCEPT ![r] = new], overlapped' = overlapped,
         new.pc # "idle" => BalancedAt(new)',
         new.pc = "idle" => Kept'
  PROVE  BalanceInv'
<1>1. \A q \in Requests : q # r => op'[q].pc = "idle"
  BY DEF BalanceInv, TypeInv
<1>2. op'[r] = new
  BY DEF TypeInv
<1> QED BY <1>1, <1>2 DEF BalanceInv

LEMMA BalanceInvNext == Numbers /\ TypeInv /\ BalanceInv /\ [Next]_lvars => BalanceInv'
<1> SUFFICES ASSUME Numbers, TypeInv, BalanceInv, [Next]_lvars, ~overlapped'
             PROVE  BalanceInv'
  BY DEF BalanceInv
<1> USE DEF TypeInv
<1>0. Idle \in Operations /\ Idle.pc = "idle" /\ TypeInv'
  BY TypeInvNext DEF Idle, NoAccount, Operations, Rows, Tiers, Numbers
<1>1. ASSUME NEW r \in Requests, NEW new \in Operations, Begin(r, new),
             new.pc \in {"award", "deduct", "apply"},
             new.pc # "apply" => new.read = account,
             UNCHANGED <<account, ledger>>
      PROVE  BalanceInv'
  <2>1. ~overlapped /\ \A q \in Requests : op[q].pc = "idle"
    BY <1>1 DEF Begin
  <2>2. Kept'
    BY <1>1, <2>1 DEF Begin, BalanceInv, Kept, Adds, Credited
  <2>3. /\ op'[r] = new
        /\ \A q \in Requests : q # r => op'[q].pc = "idle"
    BY <1>1, <2>1 DEF Begin
  <2>4. BalancedAt(new)'
    BY <1>1, <2>2 DEF BalancedAt
  <2>5. op'[r].pc # "idle"
    BY <1>1, <2>3
  <2> QED BY <2>3, <2>4, <2>5 DEF BalanceInv
<1>2. ASSUME NEW r \in Requests, NEW amount \in Amounts, AwardRead(r, amount)
      PROVE  BalanceInv'
  <2> DEFINE new == [Idle EXCEPT !.pc = "award", !.read = account,
                                 !.points = Points(amount, account.tier)]
  <2>1. new \in Operations /\ new.pc = "award" /\ new.read = account
    <3>1. Points(amount, account.tier) \in Nat
      BY PointsType DEF Numbers
    <3>2. Points(amount, account.tier) \in Int
      BY <3>1
    <3> QED BY <1>0, <3>2 DEF Operations
  <2>2. Begin(r, new) /\ UNCHANGED <<account, ledger>>
    BY <1>2 DEF AwardRead
  <2> QED BY <1>1, <2>1, <2>2
<1>3. ASSUME NEW r \in Requests, NEW cost \in Costs, RedeemRead(r, cost) PROVE BalanceInv'
  <2> DEFINE new == [Idle EXCEPT !.pc = "deduct", !.read = account, !.points = cost]
  <2>1. new \in Operations /\ new.pc = "deduct" /\ new.read = account
    BY <1>0 DEF Numbers, Operations, Idle
  <2>2. Begin(r, new) /\ UNCHANGED <<account, ledger>>
    BY <1>3 DEF RedeemRead
  <2> QED BY <1>1, <2>1, <2>2
<1>4. ASSUME NEW r \in Requests, NEW i \in RewardIds, ApplyRead(r, i) PROVE BalanceInv'
  <2> DEFINE new == [Idle EXCEPT !.pc = "apply", !.reward = i]
  <2>1. new \in Operations /\ new.pc = "apply"
    <3>1. i \in 0..MaxRewards
      BY DEF Numbers, RewardIds
    <3> QED BY <1>0, <3>1 DEF Operations
  <2>2. Begin(r, new) /\ UNCHANGED <<account, ledger>>
    BY <1>4 DEF ApplyRead
  <2> QED BY <1>1, <2>1, <2>2
<1>5. ASSUME NEW r \in Requests,
             \/ \E j \in Jobs : ApplyWrite(r, j)
             \/ AwardLog(r) \/ AwardCredit(r) \/ RedeemLog(r) \/ RedeemReward(r)
             \/ RedeemDebit(r) \/ Die(r)
      PROVE  BalanceInv'
  <2>0. /\ op[r].pc # "idle" /\ overlapped' = overlapped
        /\ op[r] \in Operations /\ BalancedAt(op[r])
    BY <1>5 DEF ApplyWrite, AwardLog, AwardCredit, RedeemLog, RedeemReward, RedeemDebit, Die,
                BalanceInv
  <2>a. ASSUME NEW new, op' = [op EXCEPT ![r] = new],
               new.pc # "idle" => BalancedAt(new)',
               new.pc = "idle" => Kept'
        PROVE  BalanceInv'
    <3>1. new \in Operations
      <4>1. op'[r] \in Operations /\ op'[r] = new
        BY <1>0, <2>a
      <4> QED BY <4>1
    <3> QED BY <2>0, <2>a, <3>1, AloneStays
  <2>b. /\ op[r].points \in Int /\ account.points \in Nat /\ account.lifetime \in Nat
        /\ ledger.earned \in Nat /\ ledger.spent \in Int /\ given \in Int
        /\ died["credit"] \in Int /\ died["reward"] \in Int /\ died["debit"] \in Int
    BY <2>0 DEF Operations, Rows, Ledgers, Unfinished
  <2>1. ASSUME NEW j \in Jobs, ApplyWrite(r, j) PROVE BalanceInv'
    <3>1. Kept'
      BY <2>0, <2>1 DEF ApplyWrite, BalancedAt, Kept, Adds, Credited
    <3> QED BY <1>0, <2>1, <2>a, <3>1 DEF ApplyWrite
  <2>2. CASE AwardLog(r)
    <3>0. PICK new : new = [op[r] EXCEPT !.pc = "credit"]
      OBVIOUS
    <3>1. /\ new.pc = "credit" /\ new.read = op[r].read /\ new.points = op[r].points
          /\ op' = [op EXCEPT ![r] = new]
      BY <2>0, <2>2, <3>0 DEF AwardLog, Operations
    <3>2. /\ ledger'.earned = ledger.earned + op[r].points /\ ledger'.spent = ledger.spent
          /\ account' = account /\ given' = given /\ died' = died
      BY <2>2 DEF AwardLog, Ledgers
    <3>3. op[r].read = account /\ Kept
      BY <2>0, <2>2 DEF AwardLog, BalancedAt
    <3>4. Credited' = Credited + op[r].points /\ Credited \in Int
      BY <2>b, <3>2 DEF Credited
    <3>5. /\ account.points = Credited - ledger.spent + died["reward"] + died["debit"]
          /\ account.points = Credited - given + died["debit"]
          /\ account.lifetime = Credited /\ account.tier = calculateTier(Credited)
      BY <3>3 DEF Kept, Adds
    <3>6. Adds(account.points + new.points, account.points + new.points,
               account.lifetime + new.points, calculateTier(account.lifetime + new.points))'
      BY <2>b, <3>1, <3>2, <3>4, <3>5 DEF Adds
    <3>7. BalancedAt(new)'
      BY <3>1, <3>2, <3>3, <3>5, <3>6 DEF BalancedAt
    <3> QED BY <2>a, <3>1, <3>7
  <2>3. CASE AwardCredit(r)
    <3>1. /\ op[r].read = account
          /\ Adds(account.points + op[r].points, account.points + op[r].points,
                  account.lifetime + op[r].points,
                  calculateTier(account.lifetime + op[r].points))
      BY <2>0, <2>3 DEF AwardCredit, BalancedAt
    <3>2. /\ account'.points = account.points + op[r].points
          /\ account'.lifetime = account.lifetime + op[r].points
          /\ account'.tier = calculateTier(account.lifetime + op[r].points)
          /\ ledger' = ledger /\ given' = given /\ died' = died
      BY <2>3, <3>1 DEF AwardCredit
    <3>3. Kept'
      BY <3>1, <3>2 DEF Kept, Adds, Credited
    <3> QED BY <1>0, <2>3, <2>a, <3>3 DEF AwardCredit
  <2>4. CASE RedeemLog(r)
    <3>0. PICK new : new = [op[r] EXCEPT !.pc = "reward"]
      OBVIOUS
    <3>1. /\ new.pc = "reward" /\ new.read = op[r].read /\ new.points = op[r].points
          /\ op' = [op EXCEPT ![r] = new]
      BY <2>0, <2>4, <3>0 DEF RedeemLog, Operations
    <3>2. /\ ledger'.spent = ledger.spent + op[r].points /\ ledger'.earned = ledger.earned
          /\ account' = account /\ given' = given /\ died' = died
      BY <2>4 DEF RedeemLog, Ledgers
    <3>3. op[r].read = account /\ Kept
      BY <2>0, <2>4 DEF RedeemLog, BalancedAt
    <3>4. Credited' = Credited /\ Credited \in Int
      BY <2>b, <3>2 DEF Credited
    <3>5. Adds(account.points - new.points, account.points, account.lifetime, account.tier)'
      BY <2>b, <3>1, <3>2, <3>3, <3>4 DEF Kept, Adds
    <3>6. BalancedAt(new)'
      BY <3>1, <3>2, <3>3, <3>5 DEF BalancedAt
    <3> QED BY <2>a, <3>1, <3>6
  <2>5. CASE RedeemReward(r)
    <3>0. PICK new : new = [op[r] EXCEPT !.pc = "debit"]
      OBVIOUS
    <3>1. /\ new.pc = "debit" /\ new.read = op[r].read /\ new.points = op[r].points
          /\ op' = [op EXCEPT ![r] = new]
      BY <2>0, <2>5, <3>0 DEF RedeemReward, Operations
    <3>2. /\ UNCHANGED <<account, ledger, died>> /\ given' = given + op[r].points
      BY <2>5 DEF RedeemReward
    <3>3. /\ op[r].read = account
          /\ Adds(account.points - op[r].points, account.points, account.lifetime,
                  account.tier)
      BY <2>0, <2>5 DEF RedeemReward, BalancedAt
    <3>4. Credited' = Credited /\ Credited \in Int
      BY <2>b, <3>2 DEF Credited
    <3>5. Adds(account.points - new.points, account.points - new.points, account.lifetime,
               account.tier)'
      BY <2>b, <3>1, <3>2, <3>3, <3>4 DEF Adds
    <3>6. BalancedAt(new)'
      BY <3>1, <3>2, <3>3, <3>5 DEF BalancedAt
    <3> QED BY <2>a, <3>1, <3>6
  <2>6. CASE RedeemDebit(r)
    <3>1. /\ op[r].read = account
          /\ Adds(account.points - op[r].points, account.points - op[r].points,
                  account.lifetime, account.tier)
      BY <2>0, <2>6 DEF RedeemDebit, BalancedAt
    <3>2. /\ account'.points = account.points - op[r].points
          /\ account'.lifetime = account.lifetime /\ account'.tier = account.tier
          /\ ledger' = ledger /\ given' = given /\ died' = died
      BY <2>6, <3>1 DEF RedeemDebit, Debit, Rows
    <3>3. Kept'
      BY <3>1, <3>2 DEF Kept, Adds, Credited
    <3> QED BY <1>0, <2>6, <2>a, <3>3 DEF RedeemDebit
  <2>7. CASE Die(r)
    <3>1. /\ UNCHANGED <<account, ledger, given>> /\ op' = [op EXCEPT ![r] = Idle]
      BY <2>7 DEF Die
    <3>2. \A pc \in Unfinished :
            died'[pc] = IF op[r].pc = pc THEN died[pc] + op[r].points ELSE died[pc]
      BY <2>7 DEF Die
    <3>3. Kept'
      \* What died unwritten is taken off what was logged.
      <4>1. CASE op[r].pc = "credit"
        <5>1. /\ died'["credit"] = died["credit"] + op[r].points
              /\ died'["reward"] = died["reward"] /\ died'["debit"] = died["debit"]
          BY <3>2, <4>1 DEF Unfinished
        <5>2. /\ account.tier = calculateTier(account.lifetime)
              /\ account.points + op[r].points
                   = Credited - ledger.spent + died["reward"] + died["debit"]
              /\ account.points + op[r].points = Credited - given + died["debit"]
              /\ account.lifetime + op[r].points = Credited
          BY <2>0, <4>1 DEF BalancedAt, Adds
        <5>3. Credited' = Credited - op[r].points /\ Credited \in Int
          BY <2>b, <3>1, <5>1 DEF Credited
        <5>4. account.lifetime = Credited'
          BY <2>b, <5>2, <5>3
        <5> QED BY <2>b, <3>1, <5>1, <5>2, <5>3, <5>4 DEF Kept, Adds
      <4>2. CASE op[r].pc = "reward"
        <5>1. /\ died'["credit"] = died["credit"] /\ died'["debit"] = died["debit"]
              /\ died'["reward"] = died["reward"] + op[r].points
          BY <3>2, <4>2 DEF Unfinished
        <5>2. Adds(account.points - op[r].points, account.points, account.lifetime,
                   account.tier)
          BY <2>0, <4>2 DEF BalancedAt
        <5>3. Credited' = Credited /\ Credited \in Int
          BY <2>b, <3>1, <5>1 DEF Credited
        <5> QED BY <2>b, <3>1, <5>1, <5>2, <5>3 DEF Kept, Adds
      <4>3. CASE op[r].pc = "debit"
        <5>1. /\ died'["credit"] = died["credit"] /\ died'["reward"] = died["reward"]
              /\ died'["debit"] = died["debit"] + op[r].points
          BY <3>2, <4>3 DEF Unfinished
        <5>2. Adds(account.points - op[r].points, account.points - op[r].points,
                   account.lifetime, account.tier)
          BY <2>0, <4>3 DEF BalancedAt
        <5>3. Credited' = Credited /\ Credited \in Int
          BY <2>b, <3>1, <5>1 DEF Credited
        <5> QED BY <2>b, <3>1, <5>1, <5>2, <5>3 DEF Kept, Adds
      <4>4. CASE op[r].pc \notin Unfinished
        <5>1. /\ died'["credit"] = died["credit"] /\ died'["reward"] = died["reward"]
              /\ died'["debit"] = died["debit"]
          BY <3>2, <4>4 DEF Unfinished
        <5>2. Kept
          BY <2>0, <4>4 DEF BalancedAt, Unfinished
        <5> QED BY <3>1, <5>1, <5>2 DEF Kept, Adds, Credited
      <4> QED BY <4>1, <4>2, <4>3, <4>4 DEF Unfinished
    <3> QED BY <1>0, <2>a, <3>1, <3>3
  <2> QED BY <1>5, <2>1, <2>2, <2>3, <2>4, <2>5, <2>6, <2>7
<1>6. ASSUME NEW i \in RewardIds, Expire(i) PROVE BalanceInv'
  BY <1>6 DEF Expire, BalanceInv, BalancedAt, Kept, Adds, Credited
<1>7. CASE UNCHANGED lvars
  BY <1>7 DEF lvars, BalanceInv, BalancedAt, Kept, Adds, Credited
<1> QED BY <1>2, <1>3, <1>4, <1>5, <1>6, <1>7 DEF Next

LEMMA Balanced ==
  ASSUME Numbers
  PROVE  /\ Init => TypeInv /\ BalanceInv
         /\ TypeInv /\ BalanceInv /\ [Next]_lvars => (TypeInv /\ BalanceInv)'
         /\ TypeInv /\ BalanceInv => BalanceIsLedger /\ RewardsArePaid
<1>1. ASSUME Init PROVE BalanceInv
  <2>1. Kept
    BY <1>1 DEF Init, Kept, Adds, Credited, NoAccount, calculateTier, Unfinished
  <2>2. \A r \in Requests : op[r].pc = "idle"
    BY <1>1 DEF Init, Idle
  <2> QED BY <2>1, <2>2 DEF BalanceInv
<1>2. BalanceInv => BalanceIsLedger /\ RewardsArePaid
  BY DEF BalanceInv, BalanceIsLedger, RewardsArePaid, OneByOne, Kept, Adds
<1> QED BY <1>1, <1>2, TypeInvInit, TypeInvNext, BalanceInvNext

\* One operation at a time leaves an account that is what its transactions add
\* up to, but for those whose operation died before it wrote the account, for
\* every amount, cost and sequence.
THEOREM BalanceSafety == ASSUME Numbers PROVE Spec => []BalanceIsLedger
BY Balanced, PTL DEF Spec

\* One operation at a time takes from the account what every reward cost, but
\* for the rewards whose redemption died before the debit.
THEOREM RewardSafety == ASSUME Numbers PROVE Spec => []RewardsArePaid
BY Balanced, PTL DEF Spec

\* What getAccountSummary promises of the points to the next tier: so many more
\* change the tier, and fewer do not.
THEOREM NextTier ==
  ASSUME NEW lifetime \in Nat, NEW more \in Nat,
         getPointsToNextTier(lifetime) # 0
  PROVE  (more < getPointsToNextTier(lifetime)
            => calculateTier(lifetime + more) = calculateTier(lifetime))
         /\ calculateTier(lifetime + getPointsToNextTier(lifetime)) # calculateTier(lifetime)
<1>1. CASE lifetime < 1000
  <2>1. getPointsToNextTier(lifetime) = 1000 - lifetime
    BY <1>1 DEF getPointsToNextTier
  <2> QED BY <1>1, <2>1 DEF calculateTier
<1>2. CASE lifetime >= 1000 /\ lifetime < 5000
  <2>1. getPointsToNextTier(lifetime) = 5000 - lifetime
    BY <1>2 DEF getPointsToNextTier
  <2> QED BY <1>2, <2>1 DEF calculateTier
<1>3. CASE lifetime >= 5000 /\ lifetime < 10000
  <2>1. getPointsToNextTier(lifetime) = 10000 - lifetime
    BY <1>3 DEF getPointsToNextTier
  <2> QED BY <1>3, <2>1 DEF calculateTier
<1>4. CASE lifetime >= 10000
  BY <1>4 DEF getPointsToNextTier
<1> QED BY <1>1, <1>2, <1>3, <1>4

=============================================================================
