---------------------------- MODULE LiquidStaking ----------------------------
(***************************************************************************)
(* The liquid-staking pallet (src/pallets/liquid-staking/src/lib.rs): the  *)
(* matching pool, the per-derivative-index staking ledgers, the XCM        *)
(* request tracker, the era clock and exchange rate, user unlockings and   *)
(* fast unstake, together with the environment the pallet talks to: the    *)
(* relay chain, which executes the XCM staking calls in the order they     *)
(* were sent and answers each with a response that may arrive in any      *)
(* order.                                                                  *)
(*                                                                         *)
(* Every extrinsic is #[transactional]: an action is the whole call with   *)
(* its error paths as guards; a failing call changes nothing and is a      *)
(* stuttering step.  on_initialize runs in with_transaction and its        *)
(* failure only rolls back its own part of the block step.                 *)
(***************************************************************************)
EXTENDS Integers, Sequences, SequencesExt, FiniteSets, StakingTypes

CONSTANTS
  IndexList,          \* T::DerivativeIndexList (its order is the iteration order)
  Users,              \* signed accounts that stake and unstake
  FeeReceiver,        \* T::ProtocolFeeReceiver, holds liquid fees
  NoLedger,           \* absent StakingLedgers / relay ledger entry
  Amounts,            \* amounts users pass to calls
  CallAmounts,        \* amounts the relay-origin staking calls pass
  MinStake, MinUnstake, XcmFees,
  ReserveFactor,      \* genesis ReserveFactor: Ratio, in units of 1/Scale (mul_floor)
  FastUnstakeFee,     \* T::MatchingPoolFastUnstakeFee, units of 1/Scale
  CommissionRate,     \* genesis CommissionRate, units of 1/Scale
  StakingLedgerCap,   \* genesis StakingLedgerCap
  RatioInputs,        \* values T::UpdateOrigin passes to update_reserve_factor / update_commission_rate
  CapInputs,          \* values T::UpdateOrigin passes to update_staking_ledger_cap
  BondingDuration, EraLength, ElectionSolutionStoredOffset,
  RelayEraPhase,      \* relay eras start at blocks k * EraLength - RelayEraPhase
  MaxChunks,          \* MAX_UNLOCKING_CHUNKS (32 in the code)
  InitialRate,        \* genesis exchange rate, units of 1/Scale
  LoansAccount,       \* loans_account_id(): key of the loans-provider unlockings
  LoansInstantUnstakeFee, \* T::LoansInstantUnstakeFee, units of 1/Scale
  CollateralFactor,   \* collateral_factor of the CollateralCurrency market, units of 1/Scale
  MarketCash,         \* staking currency the Loans market holds to lend at genesis
  \* bounds of the model
  MaxBlock,           \* last relay block number
  MaxBlockStep,       \* relay blocks per parachain block, at most
  MaxQueries,         \* query ids handed out; at the bound no call is sent and the clock stops
  MaxPoolStake,       \* bound on the matching pool's stake total
  MaxEra,             \* bound on eras set or advanced by force calls
  MaxRewards,         \* reward increments the relay may pay
  MaxLoansBorrow      \* interest accrues while the pallet's borrow balance is below this

Idx == {IndexList[k] : k \in 1..Len(IndexList)}

ASSUME /\ FeeReceiver \notin Users
       /\ MaxChunks \in Nat \ {0}
       /\ EraLength \in Nat \ {0}
       /\ LoansAccount \notin Users \cup {FeeReceiver}
       /\ CollateralFactor \in 1..Scale /\ LoansInstantUnstakeFee \in 0..Scale

Kinds == {"Bond", "BondExtra", "Unbond", "Rebond", "WithdrawUnbonded", "Nominate"}
StakeLockKinds == {"Bond", "BondExtra", "Rebond"}

VARIABLES
  exchangeRate,       \* ExchangeRate
  matchingPool,       \* MatchingPool: [stake, unstake] of BondingAmount
  totalReserves,      \* TotalReserves
  xcmRequests,        \* XcmRequests: set of [id, kind, index, amount]
  fastUnstakeRequests,\* FastUnstakeRequests
  currentEra,         \* CurrentEra
  eraStartBlock,      \* EraStartBlock
  unlockings,         \* Unlockings: user -> Seq(UnlockChunk)
  stakingLedgers,     \* StakingLedgers
  isUpdated,          \* IsUpdated
  isMatched,          \* IsMatched
  palletBalance,      \* staking currency held by Self::account_id()
  liquid,             \* liquid currency balances (issuance = their sum)
  reserveFactor,      \* ReserveFactor
  stakingLedgerCap,   \* StakingLedgerCap
  commissionRate,     \* CommissionRate
  \* environment
  relayBlock,         \* relay chain block number seen by the parachain
  nextQueryId,        \* next query id the XCM helper hands out
  relayQueue,         \* XCM calls sent, not yet executed by the relay
  responses,          \* responses in flight: set of [id, ok]
  relayLedgers,       \* staking ledgers of the derivative accounts on the relay
  rewardsPaid,        \* reward increments paid by the relay so far
  \* the Loans pallet (collaborator) as seen by the pallet account
  loansMarket,        \* [borrows: get_current_borrow_balance, collateral: supplied
                      \*  CollateralCurrency, cash: staking currency it can lend]
  \* history: query ids whose failure response has been processed
  failedQueries

storage == <<exchangeRate, matchingPool, totalReserves, xcmRequests,
             fastUnstakeRequests, currentEra, eraStartBlock, unlockings,
             stakingLedgers, isUpdated, isMatched, palletBalance, liquid>>
params  == <<reserveFactor, stakingLedgerCap, commissionRate>>
pallet  == <<storage, params>>
relayEnv == <<relayBlock, nextQueryId, relayQueue, responses, relayLedgers,
              rewardsPaid, failedQueries>>
env    == <<relayEnv, loansMarket>>
vars   == <<pallet, env>>

Holders == Users \cup {FeeReceiver}
\* accounts with Unlockings: users, and the loans account for the Loans provider
Claimants == Users \cup {LoansAccount}
Ledger  == [total : Nat, active : Nat,
            unlocking : Seq([value : Nat, era : Nat])]
Request == [id : Nat, kind : Kinds, index : Idx, amount : Nat]

(***************************************************************************)
(* Read helpers of the pallet.                                             *)
(***************************************************************************)
Bonded(i) == stakingLedgers[i] # NoLedger
TotalBondedOf(i)  == IF Bonded(i) THEN stakingLedgers[i].total ELSE 0
ActiveBondedOf(i) == IF Bonded(i) THEN stakingLedgers[i].active ELSE 0
UnbondingOf(i)    == IF Bonded(i) THEN Sat(stakingLedgers[i].total, stakingLedgers[i].active) ELSE 0
UnbondedOf(i)     == IF Bonded(i) THEN SumChunks(Matured(stakingLedgers[i].unlocking, currentEra)) ELSE 0

RECURSIVE SumOver(_, _)
SumOver(f(_), S) == IF S = {} THEN 0
                    ELSE LET x == CHOOSE y \in S : TRUE IN f(x) + SumOver(f, S \ {x})

TotalUnbonding    == SumOver(UnbondingOf, Idx)
TotalBonded       == SumOver(TotalBondedOf, Idx)
TotalActiveBonded == SumOver(ActiveBondedOf, Idx)
MarketCap         == stakingLedgerCap * Len(IndexList)
Issuance          == SumOver(LAMBDA h : liquid[h], Holders)

\* get_total_unclaimed
TotalUnclaimed == Sat(Sat(palletBalance, totalReserves), matchingPool.stake.total)

\* target_era
TargetEra == currentEra + BondingDuration + 1

\* offset(relaychain_block_number)
Offset(b) == IF b >= eraStartBlock THEN (b - eraStartBlock) \div EraLength ELSE 0

\* the relay's era (environment): eras of EraLength relay blocks, out of
\* phase with the pallet's EraStartBlock by RelayEraPhase blocks
RelayEra == (relayBlock + RelayEraPhase) \div EraLength

(***************************************************************************)
(* Submitting XCM staking calls (do_bond, do_bond_extra, do_unbond,        *)
(* do_rebond, do_withdraw_unbonded, do_nominate).  A batch is submitted    *)
(* all-or-nothing; the ledgers do not change inside a batch, so every      *)
(* call's checks read the same state, and the locks add up.                *)
(***************************************************************************)
Req(kind, i, a) == [id |-> 0, kind |-> kind, index |-> i, amount |-> a]

SubmitOk(r) ==
  /\ r.kind = "Bond" =>
       /\ r.amount >= MinNominatorBond
       /\ TotalBondedOf(r.index) + r.amount <= stakingLedgerCap
  /\ r.kind = "BondExtra" =>
       /\ Bonded(r.index)
       /\ TotalBondedOf(r.index) + r.amount <= stakingLedgerCap
  /\ r.kind = "Unbond" =>
       /\ Bonded(r.index)
       /\ Len(stakingLedgers[r.index].unlocking) < MaxChunks
       /\ Sat(stakingLedgers[r.index].active, r.amount) >= MinNominatorBond
  /\ r.kind \in {"Rebond", "WithdrawUnbonded", "Nominate"} => Bonded(r.index)

LockSum(seq, K) ==
  LET RECURSIVE S(_) S(k) == IF k = 0 THEN 0
                             ELSE (IF seq[k].kind \in K THEN seq[k].amount ELSE 0) + S(k - 1)
  IN  S(Len(seq))

SubmitBatchOk(seq) ==
  /\ \A k \in 1..Len(seq) : SubmitOk(seq[k])
  /\ CanLock(matchingPool.stake, LockSum(seq, StakeLockKinds))
  /\ CanLock(matchingPool.unstake, LockSum(seq, {"Unbond"}))

\* mutant: the unbonds of a batch are not locked on the unstake side
SubmitBatchNoUnstakeLock(seq) ==
  LET sent == [k \in 1..Len(seq) |-> [seq[k] EXCEPT !.id = nextQueryId + k - 1]]
  IN  /\ nextQueryId + Len(seq) <= MaxQueries        \* model bound on query ids
      /\ xcmRequests' = xcmRequests \cup ToSet(sent)
      /\ relayQueue' = relayQueue \o sent
      /\ nextQueryId' = nextQueryId + Len(seq)
      /\ matchingPool' =
           [matchingPool EXCEPT !.stake.locked = @ + LockSum(seq, StakeLockKinds)]

SubmitBatch(seq) ==
  LET sent == [k \in 1..Len(seq) |-> [seq[k] EXCEPT !.id = nextQueryId + k - 1]]
  IN  /\ nextQueryId + Len(seq) <= MaxQueries        \* model bound on query ids
      /\ xcmRequests' = xcmRequests \cup ToSet(sent)
      /\ relayQueue' = relayQueue \o sent
      /\ nextQueryId' = nextQueryId + Len(seq)
      /\ matchingPool' =
           [matchingPool EXCEPT
              !.stake.locked   = @ + LockSum(seq, StakeLockKinds),
              !.unstake.locked = @ + LockSum(seq, {"Unbond"})]

\* do_bond turns into do_bond_extra once the ledger exists
BondKind(i) == IF Bonded(i) THEN "BondExtra" ELSE "Bond"

PerIndex(kind, d) ==
  SelectSeq([k \in 1..Len(IndexList) |->
               Req(kind[IndexList[k]], IndexList[k], d[IndexList[k]])],
            LAMBDA r : r.amount > 0)

\* do_multi_withdraw_unbonded: every bonded index with matured chunks
WithdrawAll ==
  SelectSeq([k \in 1..Len(IndexList) |-> Req("WithdrawUnbonded", IndexList[k], 0)],
            LAMBDA r : Bonded(r.index) /\ UnbondedOf(r.index) > 0)

\* DistributionStrategy::get_{bond,rebond,unbond}_distributions
BondSplits(t) ==
  MaximalSplits(Idx, t, [i \in Idx |-> Sat(stakingLedgerCap, TotalBondedOf(i))],
                [i \in Idx |-> IF Bonded(i) THEN 0 ELSE MinNominatorBond])
RebondSplits(t) == MaximalSplits(Idx, t, [i \in Idx |-> UnbondingOf(i)], [i \in Idx |-> 0])
UnbondSplits(t) ==
  MaximalSplits(Idx, t, [i \in Idx |-> Sat(ActiveBondedOf(i), MinNominatorBond)],
                [i \in Idx |-> 0])

\* do_matching: the batch it submits, for chosen policy outputs
MatchingBatch(bd, rd, ud) ==
  PerIndex([i \in Idx |-> BondKind(i)], bd) \o PerIndex([i \in Idx |-> "Rebond"], rd)
    \o PerIndex([i \in Idx |-> "Unbond"], ud) \o WithdrawAll

MatchResult == Matching(matchingPool, TotalUnbonding)

\* do_matching: the batches it may submit, one per choice of the policy
MatchingBatches ==
  {MatchingBatch(bd, rd, ud) : bd \in BondSplits(MatchResult.bond),
                               rd \in RebondSplits(MatchResult.rebond),
                               ud \in UnbondSplits(MatchResult.unbond)}

(***************************************************************************)
(* do_update_exchange_rate: errors are swallowed by do_advance_era.        *)
(***************************************************************************)
RateNumerator ==
  TotalActiveBonded + matchingPool.stake.total - matchingPool.unstake.total

NewRate ==
  IF Issuance = 0 \/ RateNumerator < 0 THEN exchangeRate
  ELSE LET r == FromRational(RateNumerator, Issuance)
       IN  IF r > exchangeRate THEN r ELSE exchangeRate

(***************************************************************************)
(* Initial state: genesis with no stake anywhere.                          *)
(***************************************************************************)
Init ==
  /\ exchangeRate = InitialRate
  /\ matchingPool = [stake |-> [total |-> 0, locked |-> 0],
                     unstake |-> [total |-> 0, locked |-> 0]]
  /\ totalReserves = 0
  /\ xcmRequests = {}
  /\ fastUnstakeRequests = [u \in Users |-> 0]
  /\ currentEra = 0
  /\ eraStartBlock = 0
  /\ unlockings = [u \in Claimants |-> <<>>]
  /\ stakingLedgers = [i \in Idx |-> NoLedger]
  /\ isUpdated = [i \in Idx |-> FALSE]
  /\ isMatched = FALSE
  /\ palletBalance = 0
  /\ liquid = [h \in Holders |-> 0]
  /\ reserveFactor = ReserveFactor
  /\ stakingLedgerCap = StakingLedgerCap
  /\ commissionRate = CommissionRate
  /\ relayBlock = 0
  /\ nextQueryId = 0
  /\ relayQueue = <<>>
  /\ responses = {}
  /\ relayLedgers = [i \in Idx |-> NoLedger]
  /\ rewardsPaid = 0
  /\ failedQueries = {}
  /\ loansMarket = [borrows |-> 0, collateral |-> 0, cash |-> MarketCash]

(***************************************************************************)
(* User extrinsics.                                                        *)
(***************************************************************************)
\* stake(amount): the liquid amount is minted, the stake waits in the pool
Stake(u, amount) ==
  LET reserves == (reserveFactor * amount) \div Scale      \* mul_floor
      afterFees == amount - XcmFees
      net == afterFees - reserves
      minted == StakingToLiquid(exchangeRate, net)
  IN  /\ amount >= MinStake
      /\ afterFees >= 0 /\ net >= 0
      /\ minted >= 0
      /\ TotalBonded + net <= MarketCap                   \* ensure_market_cap
      /\ matchingPool.stake.total + net <= MaxPoolStake   \* model bound
      /\ palletBalance' = palletBalance + afterFees
      /\ liquid' = [liquid EXCEPT ![u] = @ + minted]
      /\ matchingPool' = [matchingPool EXCEPT !.stake.total = @ + net]
      /\ totalReserves' = totalReserves + reserves
      /\ UNCHANGED <<params, exchangeRate, xcmRequests, fastUnstakeRequests, currentEra,
                     eraStartBlock, unlockings, stakingLedgers, isUpdated,
                     isMatched, env>>

\* mutant: the NoMoreChunks check is left out
UnstakeNoChunkLimit(u, l) ==
  LET amount == LiquidToStaking(exchangeRate, l)
  IN  /\ l >= MinUnstake
      /\ liquid[u] >= l
      /\ unlockings' = [unlockings EXCEPT ![u] = AddChunk(@, amount, TargetEra)]
      /\ liquid' = [liquid EXCEPT ![u] = @ - l]
      /\ matchingPool' = [matchingPool EXCEPT !.unstake.total = @ + amount]
      /\ UNCHANGED <<params, exchangeRate, totalReserves, xcmRequests, fastUnstakeRequests,
                     currentEra, eraStartBlock, stakingLedgers, isUpdated,
                     isMatched, palletBalance, env>>

\* unstake(liquid_amount, RelayChain): an unlock chunk owed at target_era
Unstake(u, l) ==
  LET amount == LiquidToStaking(exchangeRate, l)
      chunks == AddChunk(unlockings[u], amount, TargetEra)
  IN  /\ l >= MinUnstake
      /\ Len(chunks) <= MaxChunks
      /\ liquid[u] >= l                                   \* burn_from
      /\ unlockings' = [unlockings EXCEPT ![u] = chunks]
      /\ liquid' = [liquid EXCEPT ![u] = @ - l]
      /\ matchingPool' = [matchingPool EXCEPT !.unstake.total = @ + amount]
      /\ UNCHANGED <<params, exchangeRate, totalReserves, xcmRequests, fastUnstakeRequests,
                     currentEra, eraStartBlock, stakingLedgers, isUpdated,
                     isMatched, palletBalance, env>>

\* mutant: collateral minted for the borrowed amount, not the unstaked one
LoansInstantUnstakeBorrowCollateral(amount) ==
  LET m      == loansMarket
      borrow == amount - MulInt(LoansInstantUnstakeFee, amount)
      mint   == ReciprocalMulCeil(CollateralFactor, borrow)
  IN  /\ borrow <= m.cash
      /\ m.borrows + borrow <= MulInt(CollateralFactor, m.collateral + mint)
      /\ loansMarket' = [borrows    |-> m.borrows + borrow,
                         collateral |-> m.collateral + mint,
                         cash       |-> m.cash - borrow]

\* do_loans_instant_unstake(who, amount): mint collateral for amount
\* (rounded up), supply it to the Loans market, borrow amount less the fee
\* and pass the borrowed amount on to who.  do_borrow (not in the sources)
\* fails without the cash or without collateral covering the borrows.
LoansInstantUnstake(amount) ==
  LET m      == loansMarket
      fee    == MulInt(LoansInstantUnstakeFee, amount)
      borrow == amount - fee
      mint   == ReciprocalMulCeil(CollateralFactor, amount)
  IN  /\ borrow <= m.cash
      /\ m.borrows + borrow <= MulInt(CollateralFactor, m.collateral + mint)
      /\ loansMarket' = [borrows    |-> m.borrows + borrow,
                         collateral |-> m.collateral + mint,
                         cash       |-> m.cash - borrow]

\* unstake(liquid_amount, Loans): the chunk is owed to the loans account,
\* and the user is paid at once with borrowed staking currency
UnstakeLoans(u, l) ==
  LET amount == LiquidToStaking(exchangeRate, l)
      chunks == AddChunk(unlockings[LoansAccount], amount, TargetEra)
  IN  /\ l >= MinUnstake
      /\ Len(chunks) <= MaxChunks
      /\ liquid[u] >= l
      /\ unlockings' = [unlockings EXCEPT ![LoansAccount] = chunks]
      /\ liquid' = [liquid EXCEPT ![u] = @ - l]
      /\ LoansInstantUnstake(amount)
      /\ matchingPool' = [matchingPool EXCEPT !.unstake.total = @ + amount]
      /\ UNCHANGED <<params, exchangeRate, totalReserves, xcmRequests, fastUnstakeRequests,
                     currentEra, eraStartBlock, stakingLedgers, isUpdated,
                     isMatched, palletBalance, relayEnv>>

\* unstake(liquid_amount, MatchingPool): queue a fast-unstake request
RequestFastUnstake(u, l) ==
  /\ l >= MinUnstake
  /\ fastUnstakeRequests' =
       [fastUnstakeRequests EXCEPT ![u] = MinOf(@ + l, liquid[u])]
  /\ UNCHANGED <<params, exchangeRate, matchingPool, totalReserves, xcmRequests,
                 currentEra, eraStartBlock, unlockings, stakingLedgers,
                 isUpdated, isMatched, palletBalance, liquid, env>>

\* mutant: plain subtraction instead of saturating_sub
CancelUnstakeUnchecked(u, a) ==
  /\ fastUnstakeRequests' =
       [fastUnstakeRequests EXCEPT ![u] = MinOf(@, liquid[u]) - a]
  /\ UNCHANGED <<params, exchangeRate, matchingPool, totalReserves, xcmRequests,
                 currentEra, eraStartBlock, unlockings, stakingLedgers,
                 isUpdated, isMatched, palletBalance, liquid, env>>

\* cancel_unstake(amount)
CancelUnstake(u, a) ==
  /\ fastUnstakeRequests' =
       [fastUnstakeRequests EXCEPT ![u] = Sat(MinOf(@, liquid[u]), a)]
  /\ UNCHANGED <<params, exchangeRate, matchingPool, totalReserves, xcmRequests,
                 currentEra, eraStartBlock, unlockings, stakingLedgers,
                 isUpdated, isMatched, palletBalance, liquid, env>>

\* mutant: the payout is not taken off the pool (sub_stake_amount missing)
FastMatchUnstakeKeepStake(u) ==
  LET request   == MinOf(fastUnstakeRequests[u], liquid[u])
      free      == Free(matchingPool.stake)
      available == StakingToLiquid(exchangeRate, free)
      matched   == MinOf(request, available)
      fee       == MulInt(FastUnstakeFee, matched)
      received  == LiquidToStaking(exchangeRate, matched - fee)
  IN  /\ fastUnstakeRequests[u] > 0
      /\ free >= 0 /\ available >= 0
      /\ matched > 0 => received <= palletBalance
      /\ liquid' = [liquid EXCEPT ![u] = @ - matched, ![FeeReceiver] = @ + fee]
      /\ palletBalance' = palletBalance - received
      /\ fastUnstakeRequests' = [fastUnstakeRequests EXCEPT ![u] = request - matched]
      /\ UNCHANGED <<params, exchangeRate, matchingPool, totalReserves, xcmRequests, currentEra,
                     eraStartBlock, unlockings, stakingLedgers, isUpdated,
                     isMatched, env>>

\* fast_match_unstake([u]) = do_fast_match_unstake(u); a longer list is a
\* run of these, all-or-nothing, and reaches no other state
FastMatchUnstake(u) ==
  LET request   == MinOf(fastUnstakeRequests[u], liquid[u])
      free      == Free(matchingPool.stake)
      available == StakingToLiquid(exchangeRate, free)
      matched   == MinOf(request, available)
      fee       == MulInt(FastUnstakeFee, matched)
      toBurn    == matched - fee
      received  == LiquidToStaking(exchangeRate, toBurn)
  IN  /\ fastUnstakeRequests[u] > 0
      /\ free >= 0 /\ available >= 0
      /\ matched > 0 =>
           /\ received <= matchingPool.stake.total        \* sub_stake_amount
           /\ received <= palletBalance                   \* transfer
      /\ liquid' = [liquid EXCEPT ![u] = @ - matched,
                                  ![FeeReceiver] = @ + fee]
      /\ matchingPool' = [matchingPool EXCEPT !.stake.total = @ - received]
      /\ palletBalance' = palletBalance - received
      /\ fastUnstakeRequests' = [fastUnstakeRequests EXCEPT ![u] = request - matched]
      /\ UNCHANGED <<params, exchangeRate, totalReserves, xcmRequests, currentEra,
                     eraStartBlock, unlockings, stakingLedgers, isUpdated,
                     isMatched, env>>

\* do_claim_for(who, amount): a user is paid from the pallet account
PayOut(u, amount) ==
  /\ u # LoansAccount
  /\ palletBalance' = palletBalance - amount
  /\ UNCHANGED loansMarket

\* do_redeem of the collateral do_claim_for(loans_account_id, amount)
\* gives back, after repaying min(borrows, amount): the Loans pallet (not
\* in the sources) refuses a redeem beyond the supplied collateral or one
\* that leaves the remaining borrows uncovered.
RedeemAllowed(amount) ==
  LET m      == loansMarket
      redeem == ReciprocalMulCeil(CollateralFactor, amount)
  IN  /\ redeem <= m.collateral
      /\ m.borrows - MinOf(m.borrows, amount)
           <= MulInt(CollateralFactor, m.collateral - redeem)

\* do_claim_for(loans_account_id, amount): repay what the pallet borrowed,
\* up to amount, then redeem and burn the collateral minted for amount
RepayLoans(amount) ==
  LET m      == loansMarket
      repay  == MinOf(m.borrows, amount)
      redeem == ReciprocalMulCeil(CollateralFactor, amount)
  IN  /\ RedeemAllowed(amount)
      /\ palletBalance' = palletBalance - repay
      /\ loansMarket' = [borrows    |-> m.borrows - repay,
                         collateral |-> m.collateral - redeem,
                         cash       |-> m.cash + repay]

\* claim_for(dest): pay the chunks whose era has arrived
ClaimFor(u) ==
  LET amount == SumChunks(Matured(unlockings[u], currentEra))
  IN  /\ unlockings[u] # <<>>                             \* NoUnlockings
      /\ amount > 0                                       \* NothingToClaim
      /\ TotalUnclaimed >= amount                         \* NotWithdrawn
      /\ IF u = LoansAccount THEN RepayLoans(amount) ELSE PayOut(u, amount)
      /\ unlockings' = [unlockings EXCEPT ![u] = Pending(@, currentEra)]
      /\ UNCHANGED <<params, exchangeRate, matchingPool, totalReserves, xcmRequests,
                     fastUnstakeRequests, currentEra, eraStartBlock,
                     stakingLedgers, isUpdated, isMatched, liquid, relayEnv>>

\* mutant: the transfer is made but TotalReserves is not reduced
ReduceReservesKeepReserves(a) ==
  /\ a <= totalReserves
  /\ a <= palletBalance
  /\ palletBalance' = palletBalance - a
  /\ UNCHANGED <<params, exchangeRate, matchingPool, totalReserves, xcmRequests,
                 fastUnstakeRequests, currentEra, eraStartBlock, unlockings,
                 stakingLedgers, isUpdated, isMatched, liquid, env>>

\* reduce_reserves(receiver, amount)
ReduceReserves(a) ==
  /\ a <= totalReserves
  /\ a <= palletBalance
  /\ totalReserves' = totalReserves - a
  /\ palletBalance' = palletBalance - a
  /\ UNCHANGED <<params, exchangeRate, matchingPool, xcmRequests, fastUnstakeRequests,
                 currentEra, eraStartBlock, unlockings, stakingLedgers,
                 isUpdated, isMatched, liquid, env>>

(***************************************************************************)
(* Relay-origin / member extrinsics bond, bond_extra, unbond, rebond,      *)
(* withdraw_unbonded and nominate: one XCM call each.                      *)
(***************************************************************************)
SubmitCall(r) ==
  /\ SubmitBatchOk(<<r>>)
  /\ SubmitBatch(<<r>>)
  /\ UNCHANGED <<params, exchangeRate, totalReserves, fastUnstakeRequests, currentEra,
                 eraStartBlock, unlockings, stakingLedgers, isUpdated, isMatched,
                 palletBalance, liquid, responses, relayBlock, relayLedgers,
                 rewardsPaid, failedQueries, loansMarket>>

BondCall(i, a)       == SubmitCall(Req(BondKind(i), i, a))
BondExtraCall(i, a)  == SubmitCall(Req("BondExtra", i, a))
UnbondCall(i, a)     == SubmitCall(Req("Unbond", i, a))
RebondCall(i, a)     == SubmitCall(Req("Rebond", i, a))
\* do_withdraw_unbonded returns early when nothing has matured
WithdrawUnbondedCall(i) == UnbondedOf(i) > 0 /\ SubmitCall(Req("WithdrawUnbonded", i, 0))
NominateCall(i)      == SubmitCall(Req("Nominate", i, 0))

(***************************************************************************)
(* notification_received -> do_notification_received.                      *)
(***************************************************************************)
\* the ledger a successful request leaves behind
ConfirmedLedger(r) ==
  LET l == stakingLedgers[r.index]
  IN  CASE r.kind = "Bond"             -> NewLedger(r.amount)
        [] r.kind = "BondExtra"        -> LedgerBondExtra(l, r.amount)
        [] r.kind = "Unbond"           -> LedgerUnbond(l, r.amount, currentEra + BondingDuration)
        [] r.kind = "Rebond"           -> LedgerRebond(l, r.amount)
        [] r.kind = "WithdrawUnbonded" -> LedgerConsolidate(l, currentEra)
        [] r.kind = "Nominate"         -> l

\* the matching-pool side a successful request consolidates
\* mutant: every confirmation consolidates the stake side
PoolSideStakeOnly(r) == "stake"
PoolSide(r) == IF r.kind = "Unbond" THEN "unstake" ELSE "stake"
Consolidates(r) == r.kind \in StakeLockKinds \cup {"Unbond"}

\* staking currency burnt (bond) or minted (withdraw) on the pallet account
BalanceDelta(r) ==
  CASE r.kind \in {"Bond", "BondExtra"} -> -r.amount
    [] r.kind = "WithdrawUnbonded"      ->
         stakingLedgers[r.index].total - ConfirmedLedger(r).total
    [] OTHER                            -> 0

\* the success branch fails (AlreadyBonded, NotBonded, underflow)
ConfirmOk(r) ==
  /\ r.kind = "Bond" => ~Bonded(r.index)
  /\ r.kind \notin {"Bond", "Nominate"} => Bonded(r.index)
  /\ Consolidates(r) => CanConsolidate(matchingPool[PoolSide(r)], r.amount)
  /\ palletBalance + BalanceDelta(r) >= 0

\* mutant: XcmRequests::remove is forgotten on success
ConfirmKeepRequest(r) ==
  /\ stakingLedgers' = [stakingLedgers EXCEPT ![r.index] = ConfirmedLedger(r)]
  /\ isUpdated' = IF r.kind \in {"Bond", "Nominate"} THEN isUpdated
                  ELSE [isUpdated EXCEPT ![r.index] = TRUE]
  /\ matchingPool' = IF Consolidates(r)
                     THEN [matchingPool EXCEPT ![PoolSide(r)] = Consolidate(@, r.amount)]
                     ELSE matchingPool
  /\ palletBalance' = palletBalance + BalanceDelta(r)
  /\ UNCHANGED <<params, xcmRequests, failedQueries>>

Confirm(r) ==
  /\ stakingLedgers' = [stakingLedgers EXCEPT ![r.index] = ConfirmedLedger(r)]
  /\ isUpdated' = IF r.kind \in {"Bond", "Nominate"} THEN isUpdated
                  ELSE [isUpdated EXCEPT ![r.index] = TRUE]   \* do_update_ledger
  /\ matchingPool' = IF Consolidates(r)
                     THEN [matchingPool EXCEPT ![PoolSide(r)] = Consolidate(@, r.amount)]
                     ELSE matchingPool
  /\ palletBalance' = palletBalance + BalanceDelta(r)
  /\ xcmRequests' = xcmRequests \ {r}
  /\ UNCHANGED failedQueries

NoEffect ==
  UNCHANGED <<params, stakingLedgers, isUpdated, matchingPool, palletBalance,
              xcmRequests, failedQueries>>

\* do_notification_received, from notification_received when the query id
\* is tracked.  A failure outcome returns before XcmRequests::remove: the
\* request and its lock stay.  A failing success branch rolls the whole
\* extrinsic back.
HandleResponse(id, ok) ==
  LET known == {r \in xcmRequests : r.id = id}
  IN  IF known = {} THEN NoEffect                         \* unknown query id
      ELSE LET r == CHOOSE x \in known : TRUE
           IN  IF ~ok THEN /\ failedQueries' = failedQueries \cup {id}
                           /\ UNCHANGED <<params, stakingLedgers, isUpdated, matchingPool,
                                          palletBalance, xcmRequests>>
               ELSE IF ConfirmOk(r) THEN Confirm(r)
               ELSE NoEffect                               \* rolled back

\* the relay's response arrives through ensure_response
NotificationReceived(resp) ==
  /\ responses' = responses \ {resp}
  /\ HandleResponse(resp.id, resp.ok)
  /\ UNCHANGED <<params, exchangeRate, totalReserves, fastUnstakeRequests, currentEra,
                 eraStartBlock, unlockings, isMatched, liquid, relayBlock,
                 nextQueryId, relayQueue, relayLedgers, rewardsPaid, loansMarket>>

\* T::UpdateOrigin may call notification_received with any query id and
\* outcome; the relay's own responses stay in flight
ForceNotification(id, ok) ==
  /\ HandleResponse(id, ok)
  /\ UNCHANGED <<params, exchangeRate, totalReserves, fastUnstakeRequests, currentEra,
                 eraStartBlock, unlockings, isMatched, liquid, relayBlock,
                 nextQueryId, relayQueue, responses, relayLedgers, rewardsPaid, loansMarket>>

(***************************************************************************)
(* Governance parameter setters (T::UpdateOrigin).  update_incentive only  *)
(* sets the native-currency incentive and is not modelled.                 *)
(***************************************************************************)
\* update_reserve_factor: InvalidFactor unless 0 < factor < 1
UpdateReserveFactor(f) ==
  /\ 0 < f /\ f < Scale
  /\ reserveFactor' = f
  /\ UNCHANGED <<storage, stakingLedgerCap, commissionRate, env>>

\* update_staking_ledger_cap: InvalidCap when the cap is zero
UpdateStakingLedgerCap(c) ==
  /\ c # 0
  /\ stakingLedgerCap' = c
  /\ UNCHANGED <<storage, reserveFactor, commissionRate, env>>

\* update_commission_rate: InvalidCommissionRate unless 0 < rate < 1
UpdateCommissionRate(r) ==
  /\ 0 < r /\ r < Scale
  /\ commissionRate' = r
  /\ UNCHANGED <<storage, reserveFactor, stakingLedgerCap, env>>

(***************************************************************************)
(* Era clock: do_advance_era, the hooks, and the force calls.              *)
(***************************************************************************)
\* mutant: EraStartBlock is not moved to the current relay block
AdvanceEraKeepStart(o, b) ==
  /\ UNCHANGED eraStartBlock
  /\ currentEra' = currentEra + o
  /\ exchangeRate' = NewRate
  /\ isMatched' = FALSE

\* do_advance_era(offset) for offset > 0; b is the current relay block
AdvanceEra(o, b) ==
  /\ eraStartBlock' = b
  /\ currentEra' = currentEra + o
  /\ exchangeRate' = NewRate
  /\ isMatched' = FALSE

NoAdvance == UNCHANGED <<params, eraStartBlock, currentEra, exchangeRate>>

NoSubmit == UNCHANGED <<params, matchingPool, xcmRequests, relayQueue, nextQueryId>>

\* on_finalize of one block (IsUpdated cleared), the relay chain moving d
\* blocks, and on_initialize of the next block: matching when due, then
\* the era advance, rolled back together when do_matching fails
BlockBoundary(d) ==
  LET b == relayBlock + d
      o == Offset(b)
      due == ~isMatched /\ ElectionSolutionStoredOffset + eraStartBlock <= b
  IN  /\ b <= MaxBlock
      /\ currentEra + o <= MaxEra                         \* model bound
      /\ relayBlock' = b
      /\ isUpdated' = [i \in Idx |-> FALSE]
      /\ \/ /\ due /\ MatchResult.ok
            /\ \E batch \in MatchingBatches :
                  /\ SubmitBatchOk(batch)
                  /\ SubmitBatch(batch)
            /\ IF o > 0 THEN AdvanceEra(o, b) ELSE isMatched' = TRUE /\ NoAdvance
         \/ /\ due
            /\ \/ ~MatchResult.ok
               \/ \E batch \in MatchingBatches : ~SubmitBatchOk(batch)
            /\ NoSubmit /\ NoAdvance /\ UNCHANGED isMatched
         \/ /\ ~due
            /\ NoSubmit
            /\ IF o > 0 THEN AdvanceEra(o, b) ELSE NoAdvance /\ UNCHANGED isMatched
      /\ UNCHANGED <<params, totalReserves, fastUnstakeRequests, unlockings, stakingLedgers,
                     palletBalance, liquid, responses, relayLedgers, rewardsPaid,
                     failedQueries, loansMarket>>

\* force_matching
ForceMatching ==
  /\ MatchResult.ok
  /\ \E batch \in MatchingBatches : SubmitBatchOk(batch) /\ SubmitBatch(batch)
  /\ isMatched' = TRUE
  /\ UNCHANGED <<params, exchangeRate, totalReserves, fastUnstakeRequests, currentEra,
                 eraStartBlock, unlockings, stakingLedgers, isUpdated,
                 palletBalance, liquid, responses, relayBlock, relayLedgers,
                 rewardsPaid, failedQueries, loansMarket>>

\* force_advance_era(offset), offset > 0
ForceAdvanceEra(o) ==
  /\ currentEra + o <= MaxEra
  /\ AdvanceEra(o, relayBlock)
  /\ UNCHANGED <<params, matchingPool, totalReserves, xcmRequests, fastUnstakeRequests,
                 unlockings, stakingLedgers, isUpdated, palletBalance, liquid, env>>

\* force_set_current_era(era)
ForceSetCurrentEra(e) ==
  /\ currentEra' = e
  /\ isMatched' = FALSE
  /\ UNCHANGED <<params, exchangeRate, matchingPool, totalReserves, xcmRequests,
                 fastUnstakeRequests, eraStartBlock, unlockings, stakingLedgers,
                 isUpdated, palletBalance, liquid, env>>

\* set_current_era(era, proof): the proof holds only for the relay's current
\* era; do_advance_era(era - current_era, saturating), with no matching
\* round first.  An offset of 0 succeeds without changing anything.
SetCurrentEra ==
  LET o == Sat(RelayEra, currentEra)
  IN  /\ o > 0
      /\ currentEra + o <= MaxEra                        \* model bound
      /\ AdvanceEra(o, relayBlock)
      /\ UNCHANGED <<params, matchingPool, totalReserves, xcmRequests, fastUnstakeRequests,
                     unlockings, stakingLedgers, isUpdated, palletBalance, liquid, env>>

\* force_set_era_start_block(block_number)
ForceSetEraStartBlock(b) ==
  /\ eraStartBlock' = b
  /\ UNCHANGED <<params, exchangeRate, matchingPool, totalReserves, xcmRequests,
                 fastUnstakeRequests, currentEra, unlockings, stakingLedgers,
                 isUpdated, isMatched, palletBalance, liquid, env>>

(***************************************************************************)
(* Ledger snapshots: set_staking_ledger (storage proof of the relay        *)
(* ledger, commission minted on the reward) and force_set_staking_ledger.  *)
(***************************************************************************)
\* get_inflate_liquid_amount(rewards); -1 when the checked arithmetic fails
InflateLiquid(rewards) ==
  LET stakeTotal == RateNumerator
      commission == MulInt(commissionRate, rewards)
      den == Sat(stakeTotal + rewards, commission)
      inflateRate == IF den = 0 THEN 0 ELSE FromRational(commission, den)
  IN  IF Issuance = 0 \/ commissionRate = 0 \/ rewards = 0 THEN 0
      ELSE IF stakeTotal < 0 THEN -1
      ELSE MulInt(inflateRate, Issuance)

SetStakingLedger(i) ==
  LET snap == relayLedgers[i]                       \* the proven value
      inflate == InflateLiquid(Sat(snap.total, stakingLedgers[i].total))
  IN  /\ Bonded(i) /\ ~isUpdated[i]
      /\ snap # NoLedger                            \* verify_merkle_proof
      /\ inflate >= 0
      /\ liquid' = [liquid EXCEPT ![FeeReceiver] = @ + inflate]
      /\ stakingLedgers' = [stakingLedgers EXCEPT ![i] = snap]
      /\ isUpdated' = [isUpdated EXCEPT ![i] = TRUE]
      /\ UNCHANGED <<params, exchangeRate, matchingPool, totalReserves, xcmRequests,
                     fastUnstakeRequests, currentEra, eraStartBlock, unlockings,
                     isMatched, palletBalance, env>>

\* mutant: the overwrite is allowed with XCM requests in flight
ForceSetStakingLedgerAnyTime(i) ==
  /\ Bonded(i) /\ ~isUpdated[i]
  /\ relayLedgers[i] # NoLedger
  /\ stakingLedgers' = [stakingLedgers EXCEPT ![i] = relayLedgers[i]]
  /\ isUpdated' = [isUpdated EXCEPT ![i] = TRUE]
  /\ UNCHANGED <<params, exchangeRate, matchingPool, totalReserves, xcmRequests,
                 fastUnstakeRequests, currentEra, eraStartBlock, unlockings,
                 isMatched, palletBalance, liquid, env>>

\* the operator sets the relay chain's ledger
ForceSetStakingLedger(i) ==
  /\ Bonded(i) /\ ~isUpdated[i] /\ xcmRequests = {}
  /\ relayLedgers[i] # NoLedger
  /\ stakingLedgers' = [stakingLedgers EXCEPT ![i] = relayLedgers[i]]
  /\ isUpdated' = [isUpdated EXCEPT ![i] = TRUE]
  /\ UNCHANGED <<params, exchangeRate, matchingPool, totalReserves, xcmRequests,
                 fastUnstakeRequests, currentEra, eraStartBlock, unlockings,
                 isMatched, palletBalance, liquid, env>>

(***************************************************************************)
(* The relay chain (environment, not code of this repository): executes    *)
(* the calls in the order sent, each succeeding or failing, and pays       *)
(* staking rewards to the bonded derivative accounts.                      *)
(***************************************************************************)
RelayAccepts(r) ==
  LET l == relayLedgers[r.index]
  IN  /\ r.kind = "Bond" => l = NoLedger
      /\ r.kind # "Bond" => l # NoLedger
      /\ r.kind = "Unbond" =>
           /\ Len(l.unlocking) < MaxChunks
           /\ r.amount <= l.active
           /\ l.active - r.amount >= MinNominatorBond
      /\ r.kind = "Rebond" => l.unlocking # <<>>

RelayLedgerAfter(r) ==
  LET l == relayLedgers[r.index]
  IN  CASE r.kind = "Bond"             -> NewLedger(r.amount)
        [] r.kind = "BondExtra"        -> LedgerBondExtra(l, r.amount)
        [] r.kind = "Unbond"           -> LedgerUnbond(l, r.amount, currentEra + BondingDuration)
        [] r.kind = "Rebond"           -> LedgerRebond(l, r.amount)
        [] r.kind = "WithdrawUnbonded" -> LedgerConsolidate(l, currentEra)
        [] r.kind = "Nominate"         -> l

RelayExecute ==
  LET r == Head(relayQueue)
  IN  /\ relayQueue # <<>>
      /\ relayQueue' = Tail(relayQueue)
      /\ \E ok \in BOOLEAN :
           /\ ok => RelayAccepts(r)
           /\ relayLedgers' = IF ok THEN [relayLedgers EXCEPT ![r.index] = RelayLedgerAfter(r)]
                              ELSE relayLedgers
           /\ responses' = responses \cup {[id |-> r.id, ok |-> ok]}
      /\ UNCHANGED <<pallet, relayBlock, nextQueryId, rewardsPaid, failedQueries, loansMarket>>

RelayReward(i) ==
  /\ relayLedgers[i] # NoLedger
  /\ rewardsPaid < MaxRewards
  /\ relayLedgers' = [relayLedgers EXCEPT ![i] = LedgerBondExtra(@, 1)]
  /\ rewardsPaid' = rewardsPaid + 1
  /\ UNCHANGED <<pallet, relayBlock, nextQueryId, relayQueue, responses,
                 failedQueries, loansMarket>>

\* the Loans market accrues interest on the pallet's borrows
LoansAccrue ==
  /\ 0 < loansMarket.borrows /\ loansMarket.borrows < MaxLoansBorrow
  /\ loansMarket' = [loansMarket EXCEPT !.borrows = @ + 1]
  /\ UNCHANGED <<pallet, relayEnv>>

(***************************************************************************)
(* The specification.                                                      *)
(***************************************************************************)
UserStep ==
  \/ \E u \in Users, a \in Amounts :
        \/ Stake(u, a) \/ Unstake(u, a) \/ RequestFastUnstake(u, a)
        \/ CancelUnstake(u, a) \/ UnstakeLoans(u, a)
  \/ \E u \in Users : FastMatchUnstake(u)
  \/ \E c \in Claimants : ClaimFor(c)

OperatorStep ==
  \/ \E a \in Amounts : ReduceReserves(a)
  \/ \E i \in Idx, a \in CallAmounts :
        BondCall(i, a) \/ BondExtraCall(i, a) \/ UnbondCall(i, a) \/ RebondCall(i, a)
  \/ \E i \in Idx : WithdrawUnbondedCall(i) \/ NominateCall(i)
  \/ \E id \in 0..(MaxQueries - 1), ok \in BOOLEAN : ForceNotification(id, ok)
  \/ \E f \in RatioInputs : UpdateReserveFactor(f) \/ UpdateCommissionRate(f)
  \/ \E c \in CapInputs : UpdateStakingLedgerCap(c)

ForceStep ==
  \/ ForceMatching
  \/ \E o \in 1..MaxEra : ForceAdvanceEra(o)
  \/ \E e \in 0..MaxEra : ForceSetCurrentEra(e)
  \/ \E b \in 0..MaxBlock : ForceSetEraStartBlock(b)
  \/ \E i \in Idx : ForceSetStakingLedger(i)

HookStep     == \E d \in 0..MaxBlockStep : BlockBoundary(d)
XcmStep      == \E resp \in responses : NotificationReceived(resp)
SnapshotStep == SetCurrentEra \/ \E i \in Idx : SetStakingLedger(i)
RelayStep    == RelayExecute \/ \E i \in Idx : RelayReward(i)
LoansStep    == LoansAccrue

Next ==
  \/ UserStep \/ OperatorStep \/ ForceStep \/ HookStep
  \/ XcmStep \/ SnapshotStep \/ RelayStep \/ LoansStep

Spec == Init /\ [][Next]_vars

\* Block production runs on_finalize and on_initialize in every block, and
\* the relay chain executes the calls it receives and answers each of them
\* through XCM (an assumption on the environment).  Users, governance and
\* proof submitters are not obliged to act.
Fairness == WF_vars(HookStep) /\ WF_vars(RelayExecute) /\ WF_vars(XcmStep)

(***************************************************************************)
(* Properties.                                                             *)
(***************************************************************************)
\* Every variable has its type, and no account's Unlockings holds more than
\* MAX_UNLOCKING_CHUNKS chunks: unstake checks the bound after merging with
\* the last chunk, and claim_for only ever removes chunks.
TypeOK ==
  /\ exchangeRate \in Nat
  /\ matchingPool \in [stake : [total : Nat, locked : Nat],
                       unstake : [total : Nat, locked : Nat]]
  /\ totalReserves \in Nat /\ palletBalance \in Nat
  /\ xcmRequests \subseteq Request
  /\ fastUnstakeRequests \in [Users -> Nat]
  /\ currentEra \in Nat /\ eraStartBlock \in Nat /\ relayBlock \in Nat
  /\ unlockings \in [Claimants -> Seq([value : Nat, era : Nat])]
  /\ \A c \in Claimants : Len(unlockings[c]) <= MaxChunks
  /\ stakingLedgers \in [Idx -> Ledger \cup {NoLedger}]
  /\ relayLedgers \in [Idx -> Ledger \cup {NoLedger}]
  /\ isUpdated \in [Idx -> BOOLEAN] /\ isMatched \in BOOLEAN
  /\ liquid \in [Holders -> Nat]
  /\ params \in Nat \X Nat \X Nat
  /\ responses \subseteq [id : Nat, ok : BOOLEAN]
  /\ failedQueries \subseteq Nat
  /\ loansMarket \in [borrows : Nat, collateral : Nat, cash : Nat]

InFlight(K) == SumOver(LAMBDA r : IF r.kind \in K THEN r.amount ELSE 0, xcmRequests)

\* The amounts locked in the matching pool are exactly the amounts of the
\* stake-side (bond, bond_extra, rebond) and unstake-side (unbond) XCM
\* requests still tracked in XcmRequests: do_matching and the operator
\* calls lock what they submit, and do_notification_received consolidates
\* a request's amount exactly when it removes the request.
LockAccounting ==
  /\ matchingPool.stake.locked = InFlight(StakeLockKinds)
  /\ matchingPool.unstake.locked = InFlight({"Unbond"})

\* The pallet account always holds the reserves and the stake not yet
\* bonded: claim_for, fast unstake, reduce_reserves and the burn on a
\* confirmed bond never pay out of them.
PoolCoversStake == palletBalance >= totalReserves + matchingPool.stake.total

\* Every local staking ledger stays well formed (spec section 8): total is
\* active plus the unlocking chunks, through confirmed unbond, rebond and
\* withdraw_unbonded and through ledgers accepted by set_staking_ledger.
LedgerConsistent ==
  \A i \in Idx : Bonded(i) =>
     stakingLedgers[i].total = stakingLedgers[i].active
                               + SumChunks(stakingLedgers[i].unlocking)

\* Once nothing is outstanding for a derivative index (no call queued to
\* the relay, no request tracked for it), the pallet's StakingLedgers entry
\* is the relay chain's ledger: the IsUpdated flag of set_staking_ledger is
\* meant to keep a proven snapshot from racing a confirmation (spec 5).
Settled(i) ==
  /\ \A k \in 1..Len(relayQueue) : relayQueue[k].index # i
  /\ \A r \in xcmRequests : r.index # i
LedgerMirrorsRelay ==
  \A i \in Idx : Settled(i) => stakingLedgers[i] = relayLedgers[i]

\* Every XCM request the pallet tracks is eventually settled: its
\* notification is processed and do_notification_received either removes
\* it (success) or records the failure, as long as blocks are produced and
\* the relay answers.  A confirmation that rolls back leaves it tracked.
Resolved(id) == id \in failedQueries \/ \A r \in xcmRequests : r.id # id
RequestsResolve ==
  \A id \in 0..(MaxQueries - 1) : (~Resolved(id)) ~> Resolved(id)

\* A user's matured unlocking eventually becomes claimable: once the era of
\* a chunk has arrived, get_total_unclaimed (the pallet balance less the
\* reserves and the matching pool's stake total) eventually covers it, so
\* claim_for is enabled, without any further user call.
MaturedClaim(u) == SumChunks(Matured(unlockings[u], currentEra))
ClaimsBecomePayable ==
  \A u \in Users : (MaturedClaim(u) > 0) ~> (ENABLED ClaimFor(u))

\* The pallet never owes the Loans market more than the loans account is
\* owed in unlockings: do_claim_for repays min(borrows, amount) out of
\* the loans account's claims and nothing else repays the borrows.
LoansDebtCovered ==
  loansMarket.borrows <= SumChunks(unlockings[LoansAccount])

\* While the pallet owes the Loans market no more than the loans account
\* is owed, the market always lets the loans account's matured claim
\* through: the collateral do_loans_instant_unstake minted for each
\* unstaked amount (rounded up) covers the redeem do_claim_for makes for
\* the matured sum, through chunks merged per era and claims of several
\* eras, and what stays supplied covers the borrows left after
\* min(borrows, amount) is repaid.
LoansClaimRedeemable ==
  LET claim == MaturedClaim(LoansAccount)
  IN  claim > 0 /\ LoansDebtCovered => RedeemAllowed(claim)

\* No derivative account is bonded on the relay chain beyond
\* StakingLedgerCap, apart from the rewards the relay added (spec 4.1: the
\* per-delegate cap is checked before every bond and bond_extra; stake
\* checks the global cap).  ensure_staking_ledger_cap and
\* ensure_market_cap read only the confirmed ledgers.
LedgerWithinCap ==
  \A i \in Idx : relayLedgers[i] # NoLedger =>
     relayLedgers[i].total <= stakingLedgerCap + rewardsPaid

\* The pallet's era never runs ahead of the relay chain's: on_initialize
\* advances by whole eras counted from EraStartBlock, which do_advance_era
\* resets, and set_current_era moves to the proven relay era.  An era ahead
\* would let unlockings and withdraw_unbonded fall due before the relay
\* releases the funds.
EraNotAhead == currentEra <= RelayEra
=============================================================================
