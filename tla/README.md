# TLA+ models of the liquid-staking and loans pallets

This directory holds TLA+ models of the liquid-staking pallet
(`src/pallets/liquid-staking/src/lib.rs`) and of the collateral helpers of
the loans pallet (`src/pallets/loans/src/loan.rs`), and the TLC
configurations that check them. `PROJECT.json` lists the components, runs, mutants, the map from
each definition to the source lines it models, the findings and the hazards.

## The system

The pallet lets users stake a relay-chain currency on a parachain and get a
liquid token back. It has these parts:

- **Matching pool** (`MatchingPool`). User `stake` and `unstake` calls add to
  the stake and unstake totals. Once per era `do_matching` nets the two totals
  and sends the remainder to the relay chain as bond, bond_extra, unbond and
  rebond calls, split over the derivative indices (`do_multi_*`). Every call
  it submits locks its amount in the pool until the call is confirmed.
- **Request tracker** (`XcmRequests`). Every XCM call is stored under its
  query id. `notification_received` (from XCM, or from `T::UpdateOrigin`)
  handles the outcome. On success `do_notification_received` applies the call
  to the local ledger, consolidates the pool lock and burns or mints the
  relay currency, then removes the request. On failure it returns early
  (line 1639) and the request stays, as the storage comment
  "Flying & failed xcm requests" says. Spec 4.5 says the entry is dropped,
  but spec 9 raises the kept entry and its lock as an open question. So no
  run checks it against 4.5. LockAccounting checks that the lock stays equal
  to the kept requests.
- **Ledger store** (`StakingLedgers`, `IsUpdated`). This is the local copy of
  each derivative account's relay ledger. Confirmations update it. So do
  `set_staking_ledger`, which installs a Merkle-proven relay ledger once per
  block per index, and `force_set_staking_ledger`, which governance may call
  only while no request is tracked.
- **Era machine** (`on_initialize`, `do_advance_era`, `set_current_era`,
  `force_*`). When a block crosses an era boundary, `on_initialize` runs
  `do_advance_era` and `do_matching` inside one `with_transaction`, so a
  failing matching round also cancels the era advance. A failure of
  `do_update_exchange_rate` inside `do_advance_era` is logged and ignored.
  `set_current_era` takes an era proven from relay storage and advances by
  the difference, without a matching round.
- **Exchange rate and claims.** `stake` mints liquid tokens at the current
  rate, net of the reserve share. `unstake` burns them and records an
  unlocking chunk for the user. `claim_for` pays matured chunks out of the
  pallet account, and only when `get_total_unclaimed` covers them.
- **Governance parameters.** `update_reserve_factor`,
  `update_staking_ledger_cap` and `update_commission_rate` (origin
  `T::UpdateOrigin`) set values that `stake`, the cap checks, the bond
  distribution and the commission in `do_update_exchange_rate` read.
- **Fast unstake.** `unstake` with the MatchingPool provider records a
  request. `fast_match_unstake` pays it out of the stake total, minus a fee.
  `cancel_unstake` takes it back.
- **Loans instant unstake.** `unstake` with the Loans provider records the
  chunk under `loans_account_id()`, not the user. `do_loans_instant_unstake`
  pays the user at once: it mints collateral for the amount, supplies it to
  the Loans market and borrows the amount less `LoansInstantUnstakeFee`. When
  the chunk matures, `claim_for(loans_account_id)` repays
  `min(borrows, amount)` and redeems and burns the collateral minted for the
  amount.

The relay chain is not part of the source. The model represents it as an
environment (the `Relay*` definitions, which are unmapped). It executes
submitted calls in FIFO order and accepts or rejects each one as the relay
staking pallet would. It answers with responses that the pallet may receive
in any order. It also pays staking rewards into a bonded ledger.
The Loans pallet that the instant unstake borrows from is the
collateralised-lending collaborator of spec 6. It is not in the sources
either. `loansMarket` holds what the pallet sees of it: its borrows with
interest, the collateral it has supplied, and the market's cash.
`LoansAccrue` adds interest.

## Modules

| Module | Models |
| --- | --- |
| `StakingTypes` | Pure operators: fixed-point rate arithmetic (`FromRational`, `MulInt`, `Reciprocal`, rounding down like `FixedU128`), `staking_to_liquid` / `liquid_to_staking`, the user unlocking merge (`AddChunk`), the relay `StakingLedger` operations (bond_extra, unbond, rebond, consolidate_unlocked), the `MatchingLedger` lock/consolidate/matching arithmetic, and distributions (`MaximalSplits`). `types.rs` and `distribution.rs` are not in the sources, so these follow spec 4.2, 4.3 and 4.6 and are marked spec_modelled. |
| `LiquidStaking` | The pallet. Its VARIABLES are the storage items, plus the user liquid balances and the pallet account balance. Each extrinsic and hook is one action: `Stake`, `Unstake`, `RequestFastUnstake`, `CancelUnstake`, `FastMatchUnstake`, `UnstakeLoans`, `ClaimFor` (which pays a user, `PayOut`, or repays the market for the loans account, `RepayLoans`), `ReduceReserves`, the relay-origin calls (`BondCall` … `NominateCall`), `NotificationReceived`, `ForceNotification`, `BlockBoundary` (`on_initialize` and `on_finalize` of one block), `ForceMatching`, `ForceAdvanceEra`, `ForceSetCurrentEra`, `ForceSetEraStartBlock`, `SetCurrentEra`, `SetStakingLedger`, `ForceSetStakingLedger` and the setters `UpdateReserveFactor`, `UpdateStakingLedgerCap`, `UpdateCommissionRate`. Every extrinsic is `#[transactional]`, so a failing call is a stutter step and the action's guard is the conjunction of its `ensure!`s. |
| `Loans` | `loan.rs` for one market: `AccrueInterest`, `MintInternal`, `RedeemInternal`, with u128 checked arithmetic kept at `Width` bits (`CheckedMulDiv`), so each overflow is the same error path as in the code. The loans storage declarations and `update_borrow_rate` are not in the sources: the borrow rate it stores is any of `BorrowRates`. `NewBlock` is the environment. |
| `MCLoans` | The model-checking root for `Loans`. |
| `MCLiquidStaking` | Model-checking instances. It defines small index lists, a bonded genesis state (`InitBonded`) and four sub-specifications: `SpecAutonomous` (users, hooks, XCM, relay, snapshots), `SpecConfirmedOnly` (no snapshots), `SpecOperator` (relay-origin calls, governance notifications and the parameter setters) and `SpecForce` (governance force calls), plus `SpecConfirmedFair`: `SpecConfirmedOnly` with `set_current_era` added, under the fairness below. |

Correspondence, with `PROJECT.json` "map" giving the exact lines:

- The model keeps all the control of the code: each `ensure!`, early return
  and error, in code order. Data is abstracted: accounts are model values,
  amounts are small naturals, and the rate is an integer over `Scale`.
- A `do_multi_*` distribution is a nondeterministic choice among maximal
  splits that respect each index's room. The code uses a configured
  `DistributionStrategy` that is not in the sources.
- `BlockBoundary(d)` moves the relay block number forward by `d`. When an era
  boundary is crossed, it advances the era, runs the whole matching round and
  updates the rate, all in one step, or leaves all of them unchanged when the
  round fails. The same step clears `IsUpdated` (`on_finalize`).
- Merkle proofs are abstracted to "the value is the relay's current value".
  The relay era is `RelayEra == (relayBlock + RelayEraPhase) \div EraLength`:
  with a phase, relay eras start before the local era boundary, which is
  when `set_current_era` can act.
- `MaxQueries` bounds the query ids. At the bound `SubmitBatch` is disabled,
  so no round is sent and the model's clock stops there rather than
  turning the bound into a failing matching round.
- Query ids come from the XCM helper, which is not in the sources. The
  model hands them out consecutively from `nextQueryId`.

## Runs

| Run | Config | Spec | Checks | Result |
| --- | --- | --- | --- | --- |
| autonomous | `MCLiquidStaking.cfg` | SpecAutonomous, 2 indices | TypeOK, LockAccounting, PoolCoversStake | pass (~694k states, 2.5 min) |
| confirmed_fair | `MCResolve.cfg` | SpecConfirmedFair, 1 index, RelayEraPhase 1, Loans market | RequestsResolve (liveness), LedgerConsistent, EraNotAhead, LoansClaimRedeemable | pass (~93k states, 2.6 min) |
| loans | `MCLoans.cfg` | Loans, rates 1.0 and 0.5 | TypeOK, SupplyMatchesCollateral | pass (~17k states) |
| operator_calls | `MCOperator.cfg` | SpecOperator, 1 index, bonded genesis, setters | LockAccounting, PoolCoversStake | pass (~447k states) |
| governance_force | `MCForce.cfg` | SpecForce, 1 index | LockAccounting, LedgerConsistent | pass (~359k states) |
| snapshot_race | `MCSnapshotRace.cfg` | SpecAutonomous | LedgerConsistent | violation |
| unbond_era_drift | `MCEraDrift.cfg` | SpecConfirmedOnly | LedgerMirrorsRelay | violation |
| claim_netting | `MCClaimNetting.cfg` | SpecConfirmedFair, 1 index | ClaimsBecomePayable (liveness) | violation |
| ledger_cap_overflow | `MCCapOverflow.cfg` | SpecConfirmedOnly, 1 index | LedgerWithinCap | violation |
| loans_redeem_rounding | `MCLoansRounding.cfg` | Loans, rate 0.7 | NoUnderlyingGain | violation |
| loans_interest_per_call | `MCLoansInterest.cfg` | Loans | InterestPerBlock (action) | violation |
| loans_debt | `MCLoansDebt.cfg` | SpecConfirmedFair, Loans market | LoansDebtCovered | violation |

What the properties say:

- **LockAccounting.** The pool's stake lock equals the sum of in-flight
  Bond, BondExtra and Rebond requests, and its unstake lock equals the sum of
  in-flight Unbonds. This is checked through submission, confirmation, failed
  and duplicated responses, and forced matching.
- **PoolCoversStake.** The pallet account always holds the reserves plus the
  stake waiting in the pool, whatever the order of stakes, fast unstakes,
  claims, reserve withdrawals and confirmations. This is what makes
  `claim_for` and `reduce_reserves` safe.
- **LedgerConsistent.** Every local ledger satisfies
  `total = active + sum(unlocking)` (spec 8).
- **TypeOK.** Besides the types, no account's `Unlockings` ever holds more
  than `MaxChunks` chunks. This is the `NoMoreChunks` check of `unstake`,
  which runs after merging with the last chunk.
- **RequestsResolve.** Every request sent is eventually resolved: its
  confirmation removes it, or its failure is handled. Under the fairness
  below.
- **EraNotAhead.** `CurrentEra` never passes the relay era, whether it is
  moved by the hook or by `set_current_era`.
- **LoansClaimRedeemable.** Suppose the pallet owes the Loans market no
  more than the loans account is owed. Then the market lets the loans
  account's matured claim through: the redeem stays within the supplied
  collateral, and what stays supplied still covers the borrows left after
  `min(borrows, amount)` is repaid. This relies on two things:
  - `do_loans_instant_unstake` rounds the collateral up for each unstake;
  - `do_claim_for` redeems the matured sum rounded up, after chunks of
    several unstakes have merged.
- **SupplyMatchesCollateral** (loans). `TotalSupply` equals the sum of
  `AccountCollateral` across mints, redeems and accruals, including their
  overflow error paths.
- The violation runs state what the spec or the code says:
  - **ClaimsBecomePayable** is spec 3: a matured chunk is claimed once the
    pallet holds enough unencumbered base asset. TLC finds a stake of 1 and
    an unstake of 1 in one era that matching nets, so nothing goes to the relay.
    The stake total keeps the 1 for good, `get_total_unclaimed` is 0, and
    the chunk is never payable, however many blocks pass.
  - **LedgerMirrorsRelay** says a settled ledger equals the relay's.
  - **LoansDebtCovered** says the borrows never exceed what the loans
    account is owed, which is the only thing that repays them. TLC takes
    an unstake of 2 at a fee of 0.5 (borrow 1), then two interest steps.
    The borrows reach 3 against a chunk of 2. The claim would then leave a
    borrow of 1 with no collateral, so the market refuses the redeem and
    the loans account's claim keeps failing.
  - **LedgerConsistent** under snapshots is spec 5 and 8.
  - **LedgerWithinCap** is the cap `ensure_staking_ledger_cap` names: TLC
    bonds 3 on a ledger capped at 2 across two rounds.
  - **NoUnderlyingGain** at rate 0.7: mint 3, then redeem 1 four times.
  - **InterestPerBlock** is the doc comment of `accrue_interest`.

  TLC finds each one violated. See "findings" in `PROJECT.json`.

Every property of a passing run has a mutant in `PROJECT.json`: a plausible
bug in a mapped definition that TLC catches under the run's config.

## Bounds

- **Users and indices.** One user plus the fee receiver. There are two
  indices in the autonomous runs and one in the runs with governance calls.
- **Amounts.** Amounts are 1..2, the rate scale is 10 and the initial rate is
  1.0. The fee and commission rates are one tenth. These bounds make rounding
  to zero reachable.
- **Eras.** `BondingDuration = 1` and `EraLength` is 1 or 2, so chunks
  mature within the bounded horizon.
- **Counters.** `MaxBlock`, `MaxEra`, `MaxQueries` and `MaxRewards` cap the
  block number, the era, the query ids and the relay rewards.
  `MaxPoolStake` caps the pool stake total.
- **Loans.** `Width = 6` bits, so u128 overflow is reachable. `DECIMAL = 10`.
  Amounts are 1, 3 and 7. The passing run uses exchange rates 1.0 and 0.5.
  Conversion is exact at these rates, so that run checks no rounding
  property. Rounding is checked by the run at 0.7, which finds the gain. At
  0.7 the gain grows the wallets up to the 6-bit bound, and the passing run
  would no longer finish.
- **Loans market.** `CollateralFactor = 7` (0.7), so the reciprocal
  rounds. `confirmed_fair` gives the market 2 units of cash, so two loans
  unstakes of 1 in one era merge into one chunk of 2. That chunk holds 4
  collateral against a redeem of 3, which is the merged-chunk rounding
  `LoansClaimRedeemable` is about, and TLC reaches it matured. Interest
  takes the borrows to `MaxLoansBorrow = 2`. Its fee is 0.5, so the fee on
  2 is charged, and so is the fee on 1, where it rounds to 0. The other
  runs give the market no cash, so the Loans provider fails there. To keep
  the liveness check within budget, `confirmed_fair` uses `MaxBlock = 4`:
  local eras 1 and 2 start at blocks 2 and 4, so loans-account chunks
  (target era 2) mature and are claimed. It uses `MaxQueries = 3`, which
  leaves the reachable states unchanged from 4.
- **Relay era phase.** The phase is 0 in most runs. `confirmed_fair` uses phase
  1 with `EraLength = 2`, so the relay era changes one block before the
  local boundary.
- **Governance inputs.** `RatioInputs = {0, 1, 10}` and `CapInputs = {0, 1}`
  in `operator_calls`. The values 0 and 10 take the error paths. The cap of 1
  is below the 2 bonded at genesis. Other runs give the setters no inputs.
- **Claims liveness.** The `claim_netting` lasso ends where the block bound
  stops the clock. The pool state it repeats is the same after every further
  round, because netting leaves stake and unstake totals equal. So more
  blocks would not make the chunk payable.
- **Chunks.** `MaxChunks = 2` plays `MAX_UNLOCKING_CHUNKS`, so the chunk
  limit is reached.

These bounds reach each interleaving the properties are about:

- a snapshot between a relay execution and its response;
- an era advance between an execution and its confirmation;
- a response arriving after a forced era change;
- netting in both directions.

## Fairness

`Fairness == WF_vars(HookStep) /\ WF_vars(RelayExecute) /\ WF_vars(XcmStep)`
is assumed only by the liveness run (`SpecConfirmedFair`). Substrate authors
blocks and runs `on_initialize` every block, which justifies the block step.
Execution of queued calls by the relay and delivery of its responses are
assumptions about the relay chain and XCM, which the pallet relies on for
its requests to complete. User calls get no fairness. The liveness run uses
one index, because TLC's liveness check on the two-index graph takes far
longer than the five-minute budget.

## Not modelled

- **The Loans pallet behind the instant unstake.** `do_mint`, `do_borrow`,
  `do_repay_borrow`, `do_redeem` and the interest on the pallet's borrows
  are not in the sources. They are modelled from spec 6 (`RedeemAllowed`,
  `LoansAccrue`, spec_modelled), with the collateral currency valued 1:1,
  and with no other borrowers or suppliers in the market.
  `do_collateral_asset` is ignored by the code (`let _ =`), so collateral
  always counts.
- **Incentive transfers and `update_incentive`.** They change no staking
  state.
- **Loans storage and `update_borrow_rate`.** These are not in the sources.
  `Loans` takes the stored borrow rate as a choice among `BorrowRates` and
  the exchange rate as a constant of the market.
- **Weight files.** These are generated code with no state.

## Plan for later sittings

1. Check the loans instant unstake with the force calls too. In
   `governance_force` this took four minutes and more.
2. Check claims liveness again with the matching pool totals reset after
   each round, as spec 3 describes. This should tell whether the missing
   reset is the whole cause of `claim_netting`.
3. Larger instances of the loans model (three accounts, several rates) and
   of the liveness run.
