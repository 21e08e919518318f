---------------------------- MODULE StakingTypes ----------------------------
(***************************************************************************)
(* Value types of the liquid-staking pallet and their pure operations.     *)
(*                                                                         *)
(* The types (StakingLedger, UnlockChunk, BondingAmount, MatchingLedger)   *)
(* and the distribution strategy live in types.rs and distribution.rs of   *)
(* the pallet, which are not part of the checked-in sources; they are      *)
(* modelled from the natural-language specification (sections 3, 4.2,      *)
(* 4.3 and 9).  The fixed-point conversions are from lib.rs.               *)
(***************************************************************************)
EXTENDS Integers, Sequences, SequencesExt, FiniteSets

CONSTANTS
  Scale,            \* denominator of the fixed-point Rate (FixedU128 uses 10^18)
  MinNominatorBond  \* T::MinNominatorBond

ASSUME Scale \in Nat \ {0} /\ MinNominatorBond \in Nat

MinOf(a, b) == IF a <= b THEN a ELSE b
Sat(a, b)   == IF a >= b THEN a - b ELSE 0      \* saturating_sub

(***************************************************************************)
(* Fixed-point Rate: an integer r stands for r / Scale.  Every operation   *)
(* rounds down, as the FixedU128 operations the pallet uses do.            *)
(***************************************************************************)
\* Rate::checked_from_rational(n, d); None (here -1) when d = 0
FromRational(n, d) == IF d = 0 THEN -1 ELSE (n * Scale) \div d
\* Rate::checked_mul_int / saturating_mul_int
MulInt(r, x) == (r * x) \div Scale
\* Ratio::saturating_reciprocal_mul_ceil: x divided by the ratio r,
\* rounded up (r > 0)
ReciprocalMulCeil(r, x) == (x * Scale + r - 1) \div r
\* Rate::reciprocal; None (here -1) for a zero rate
Reciprocal(r) == IF r = 0 THEN -1 ELSE (Scale * Scale) \div r

\* LiquidStakingConvert::staking_to_liquid: None (-1) for a zero rate
StakingToLiquid(rate, amount) ==
  IF Reciprocal(rate) < 0 THEN -1 ELSE MulInt(Reciprocal(rate), amount)
\* LiquidStakingConvert::liquid_to_staking
LiquidToStaking(rate, liquid) == MulInt(rate, liquid)

(***************************************************************************)
(* UnlockChunk and StakingLedger.                                          *)
(***************************************************************************)
Chunk(v, e) == [value |-> v, era |-> e]

\* merge with the last chunk when its era matches, else append
AddChunk(chunks, v, e) ==
  IF chunks # <<>> /\ Last(chunks).era = e
  THEN [chunks EXCEPT ![Len(chunks)].value = @ + v]
  ELSE Append(chunks, Chunk(v, e))

RECURSIVE SumChunks(_)
SumChunks(chunks) ==
  IF chunks = <<>> THEN 0 ELSE Head(chunks).value + SumChunks(Tail(chunks))

\* StakingLedger::new(stash, value)
NewLedger(v) == [total |-> v, active |-> v, unlocking |-> <<>>]

\* StakingLedger::bond_extra
LedgerBondExtra(l, a) == [l EXCEPT !.total = @ + a, !.active = @ + a]

\* StakingLedger::unbond(value, target_era): active -= value (saturating),
\* chunk merged or appended at target_era
LedgerUnbond(l, a, e) ==
  [l EXCEPT !.active = Sat(@, a), !.unlocking = AddChunk(@, a, e)]

\* rebond takes from the latest chunks first, the last one touched partly
RECURSIVE RebondFromTail(_, _)
RebondFromTail(chunks, a) ==
  IF a = 0 \/ chunks = <<>> THEN [rest |-> chunks, moved |-> 0]
  ELSE IF Last(chunks).value <= a
       THEN LET r == RebondFromTail(Front(chunks), a - Last(chunks).value)
            IN  [r EXCEPT !.moved = @ + Last(chunks).value]
       ELSE [rest  |-> [chunks EXCEPT ![Len(chunks)].value = @ - a],
             moved |-> a]

\* StakingLedger::rebond
LedgerRebond(l, a) ==
  LET r == RebondFromTail(l.unlocking, a)
  IN  [l EXCEPT !.active = @ + r.moved, !.unlocking = r.rest]

\* StakingLedger::consolidate_unlocked: chunks of era <= e leave the ledger
Matured(chunks, e) == SelectSeq(chunks, LAMBDA c : c.era <= e)
Pending(chunks, e) == SelectSeq(chunks, LAMBDA c : c.era > e)
\* mutant: the withdrawn chunks leave unlocking but not total
LedgerConsolidateKeepTotal(l, e) == [l EXCEPT !.unlocking = Pending(@, e)]
LedgerConsolidate(l, e) ==
  [l EXCEPT !.total = Sat(@, SumChunks(Matured(l.unlocking, e))),
            !.unlocking = Pending(@, e)]

(***************************************************************************)
(* BondingAmount {total, locked} and MatchingLedger.  An operation whose   *)
(* checked arithmetic fails yields the record with ok = FALSE.             *)
(***************************************************************************)
Free(b) == b.total - b.locked        \* negative means free() fails

\* set_lock: new locked must not exceed total
CanLock(b, a) == b.locked + a <= b.total
\* consolidate: subtract from both total and locked
CanConsolidate(b, a) == a <= b.total /\ a <= b.locked
Consolidate(b, a) == [total |-> b.total - a, locked |-> b.locked - a]

\* MatchingLedger::matching(unbonding) -> (bond, rebond, unbond), spec 4.2
Matching(pool, unbonding) ==
  LET s == Free(pool.stake)
      u == Free(pool.unstake)
  IN  IF s < 0 \/ u < 0 THEN [ok |-> FALSE, bond |-> 0, rebond |-> 0, unbond |-> 0]
      ELSE IF s >= u
      THEN [ok |-> TRUE, bond |-> s - u, rebond |-> MinOf(u, unbonding), unbond |-> 0]
      ELSE LET rb == MinOf(s, unbonding)
           IN  [ok |-> (u - s) - rb >= 0, bond |-> 0, rebond |-> rb,
                unbond |-> (u - s) - rb]

(***************************************************************************)
(* DistributionStrategy (spec 9: a pluggable policy).  Any split of the    *)
(* target over the indices that respects each index's room and that        *)
(* distributes as much as the rooms allow is a possible policy output.     *)
(***************************************************************************)
SplitSum(d) == LET RECURSIVE S(_) S(D) == IF D = {} THEN 0
                                          ELSE LET i == CHOOSE x \in D : TRUE
                                               IN d[i] + S(D \ {i})
               IN S(DOMAIN d)

MaximalSplits(Idx, target, room, least) ==
  LET Feasible == {d \in [Idx -> 0..target] :
                     /\ SplitSum(d) <= target
                     /\ \A i \in Idx : d[i] <= room[i] /\ (d[i] = 0 \/ d[i] >= least[i])}
      best == CHOOSE m \in {SplitSum(d) : d \in Feasible} :
                \A d \in Feasible : SplitSum(d) <= m
  IN  {d \in Feasible : SplitSum(d) = best}
=============================================================================
