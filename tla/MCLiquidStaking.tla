--------------------------- MODULE MCLiquidStaking ---------------------------
(* Model-checking instance of LiquidStaking: two derivative indices in a    *)
(* fixed order, small amounts and a fixed-point scale of 10.                *)
EXTENDS LiquidStaking

MCIndexList == <<0, 1>>
MCOneIndex  == <<0>>

\* users, the hooks, XCM responses, the relay chain, the Loans market and
\* ledger proofs:
\* the pallet running on its own, no operator intervention
SpecAutonomous ==
  Init /\ [][UserStep \/ HookStep \/ XcmStep \/ SnapshotStep \/ RelayStep \/ LoansStep]_vars
\* the same without proven ledger snapshots: StakingLedgers changes only
\* through confirmed XCM requests
SpecConfirmedOnly ==
  Init /\ [][UserStep \/ HookStep \/ XcmStep \/ RelayStep \/ LoansStep]_vars
\* the same with eras also proven by set_current_era (which leaves the
\* ledgers alone), under the fairness of block production, relay execution
\* and XCM delivery; set_current_era is a user call and gets no fairness
SpecConfirmedFair ==
  /\ Init /\ [][UserStep \/ HookStep \/ XcmStep \/ SetCurrentEra \/ RelayStep \/ LoansStep]_vars
  /\ Fairness
\* A reachable start for the operator calls: each user staked GenesisBond
\* at rate 1, the first matching round (relay block 1, query 0) bonded it
\* all, the confirmation arrived, and reduce_reserves took the reserves.
GenesisBond == 2
InitBonded ==
  LET l == NewLedger((GenesisBond * Cardinality(Users)) \div Len(IndexList))
  IN  /\ exchangeRate = InitialRate
      /\ matchingPool = [stake |-> [total |-> 0, locked |-> 0],
                         unstake |-> [total |-> 0, locked |-> 0]]
      /\ totalReserves = 0 /\ palletBalance = 0
      /\ xcmRequests = {} /\ failedQueries = {}
      /\ fastUnstakeRequests = [u \in Users |-> 0]
      /\ unlockings = [c \in Claimants |-> <<>>]
      /\ currentEra = 0 /\ eraStartBlock = 0 /\ relayBlock = 1
      /\ stakingLedgers = [i \in Idx |-> l] /\ relayLedgers = [i \in Idx |-> l]
      /\ isUpdated = [i \in Idx |-> FALSE] /\ isMatched = TRUE
      /\ liquid = [h \in Holders |-> IF h \in Users THEN GenesisBond ELSE 0]
      /\ nextQueryId = 1 /\ relayQueue = <<>> /\ responses = {}
      /\ rewardsPaid = 0
      /\ loansMarket = [borrows |-> 0, collateral |-> 0, cash |-> MarketCash]
      /\ reserveFactor = ReserveFactor /\ stakingLedgerCap = StakingLedgerCap
      /\ commissionRate = CommissionRate

\* users staking and unstaking, with the relay-origin staking calls and
\* governance-delivered notifications of T::UpdateOrigin
SpecOperator ==
  InitBonded /\ [][\/ \E u \in Users, a \in Amounts : Stake(u, a) \/ Unstake(u, a)
            \/ OperatorStep \/ HookStep \/ XcmStep \/ RelayStep]_vars

\* users staking and unstaking, with the governance force calls on the
\* era clock, matching and ledgers
SpecForce ==
  Init /\ [][\/ \E u \in Users, a \in Amounts : Stake(u, a) \/ Unstake(u, a) \/ ClaimFor(u)
            \/ ForceStep \/ HookStep \/ XcmStep \/ RelayStep]_vars
====
