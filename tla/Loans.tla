-------------------------------- MODULE Loans --------------------------------
(***************************************************************************)
(* The collateral and interest helpers of the loans pallet                 *)
(* (src/pallets/loans/src/loan.rs) for one market (currency_id): minting   *)
(* and redeeming collateral at the market's exchange rate, and accruing    *)
(* interest into TotalBorrows.  Markets do not share storage, so one       *)
(* market shows every behaviour of these functions.                        *)
(*                                                                         *)
(* Balances are u128 and every arithmetic step is checked; the model keeps *)
(* the width as Width bits, so an overflow is the same error path.         *)
(* mint_internal and redeem_internal are #[transactional] and their        *)
(* callers (extrinsics of the pallet, not in the sources) are too: a       *)
(* failing call changes nothing.                                           *)
(***************************************************************************)
EXTENDS Integers, FiniteSets, Functions

CONSTANTS
  Accounts,        \* accounts that mint and redeem
  DECIMAL,         \* the fixed-point unit of rates (10^18 in the code)
  Width,           \* bits of Balance (128 in the code)
  ExchangeRates,   \* ExchangeRate storage values a market may have
  BorrowRates,     \* per-block rates update_borrow_rate may store
  Amounts,         \* amounts passed to mint_internal / redeem_internal
  InitialWallet,   \* each account's free balance of the currency
  InitialCash,     \* the pallet account's free balance
  InitialBorrows,  \* TotalBorrows when the model starts
  MaxBlock         \* bound of the model: last block number

ASSUME /\ DECIMAL \in Nat \ {0} /\ Width \in Nat \ {0}
       /\ ExchangeRates \subseteq Nat /\ BorrowRates \subseteq Nat

MaxBalance == 2^Width - 1
Balance    == 0..MaxBalance

VARIABLES
  exchangeRate,       \* ExchangeRate[currency_id]: underlying per collateral, / DECIMAL
  accountCollateral,  \* AccountCollateral[currency_id][who]
  totalSupply,        \* TotalSupply[currency_id]
  totalBorrows,       \* TotalBorrows[currency_id]
  borrowRate,         \* BorrowRate[currency_id]
  wallet,             \* free balance of each account
  cash,               \* free balance of Self::account_id() (get_total_cash)
  block,              \* the current block number
  checkpoint          \* the block the doc comment of accrue_interest says is checkpointed

vars == <<exchangeRate, accountCollateral, totalSupply, totalBorrows,
          borrowRate, wallet, cash, block, checkpoint>>

\* the quotient a checked u128 multiplication then division yields,
\* or -1 for the None that ok_or turns into an error
CheckedMulDiv(a, b, c) ==
  IF a * b > MaxBalance \/ c = 0 THEN -1 ELSE (a * b) \div c

\* mint_amount / redeem_amount converted to collateral at the stored rate
Collateral(amount) == CheckedMulDiv(amount, DECIMAL, exchangeRate)

Init ==
  /\ exchangeRate \in ExchangeRates
  /\ accountCollateral = [a \in Accounts |-> 0]
  /\ totalSupply = 0
  /\ totalBorrows = InitialBorrows
  /\ borrowRate = 0
  /\ wallet = [a \in Accounts |-> InitialWallet]
  /\ cash = InitialCash
  /\ block = 0
  /\ checkpoint = 0

(***************************************************************************)
(* accrue_interest.  update_borrow_rate (not in the sources) stores a new  *)
(* rate, modelled as any rate of BorrowRates.  The interest is            *)
(* rate * borrows / DECIMAL; the block delta of the doc comment is not    *)
(* used and no checkpoint is written by the code.  checkpoint only       *)
(* records, for the properties, the block of the last accrual.           *)
(***************************************************************************)
AccrueInterest ==
  \E r \in BorrowRates :
    LET interest == CheckedMulDiv(r, totalBorrows, DECIMAL)
    IN  /\ interest >= 0
        /\ interest + totalBorrows <= MaxBalance
        /\ borrowRate' = r
        /\ totalBorrows' = totalBorrows + interest
        /\ checkpoint' = block
        /\ UNCHANGED <<exchangeRate, accountCollateral, totalSupply, wallet, cash, block>>

\* mutant: collateral is credited but TotalSupply is left alone
MintInternalNoSupply(who, amount) ==
  LET c == Collateral(amount)
  IN  /\ c >= 0
      /\ accountCollateral[who] + c <= MaxBalance
      /\ wallet[who] >= amount
      /\ accountCollateral' = [accountCollateral EXCEPT ![who] = @ + c]
      /\ wallet' = [wallet EXCEPT ![who] = @ - amount]
      /\ cash' = cash + amount
      /\ UNCHANGED <<exchangeRate, totalSupply, totalBorrows, borrowRate, block, checkpoint>>

\* mint_internal: collateral = mint_amount * DECIMAL / rate, credited to
\* AccountCollateral and TotalSupply, then the underlying is transferred in
MintInternal(who, amount) ==
  LET c == Collateral(amount)
  IN  /\ c >= 0
      /\ accountCollateral[who] + c <= MaxBalance
      /\ totalSupply + c <= MaxBalance
      /\ wallet[who] >= amount
      /\ cash + amount <= MaxBalance
      /\ accountCollateral' = [accountCollateral EXCEPT ![who] = @ + c]
      /\ totalSupply' = totalSupply + c
      /\ wallet' = [wallet EXCEPT ![who] = @ - amount]
      /\ cash' = cash + amount
      /\ UNCHANGED <<exchangeRate, totalBorrows, borrowRate, block, checkpoint>>

\* mutant: the CollateralTooLow check becomes an unchecked subtraction
RedeemInternalUnchecked(who, amount) ==
  LET c == Collateral(amount)
  IN  /\ c >= 0
      /\ cash >= amount
      /\ accountCollateral' = [accountCollateral EXCEPT ![who] = @ - c]
      /\ totalSupply' = totalSupply - c
      /\ wallet' = [wallet EXCEPT ![who] = @ + amount]
      /\ cash' = cash - amount
      /\ UNCHANGED <<exchangeRate, totalBorrows, borrowRate, block, checkpoint>>

\* mutant: one unit less collateral is burnt than the conversion gives
RedeemInternalUnderBurn(who, amount) ==
  LET c == Collateral(amount) - 1
  IN  /\ c >= 0
      /\ accountCollateral[who] >= c
      /\ totalSupply >= c
      /\ cash >= amount
      /\ accountCollateral' = [accountCollateral EXCEPT ![who] = @ - c]
      /\ totalSupply' = totalSupply - c
      /\ wallet' = [wallet EXCEPT ![who] = @ + amount]
      /\ cash' = cash - amount
      /\ UNCHANGED <<exchangeRate, totalBorrows, borrowRate, block, checkpoint>>

\* redeem_internal: collateral = redeem_amount * DECIMAL / rate (rounded
\* down) is debited with checked_sub, then redeem_amount is paid out
RedeemInternal(who, amount) ==
  LET c == Collateral(amount)
  IN  /\ c >= 0
      /\ accountCollateral[who] >= c
      /\ totalSupply >= c
      /\ cash >= amount
      /\ wallet[who] + amount <= MaxBalance
      /\ accountCollateral' = [accountCollateral EXCEPT ![who] = @ - c]
      /\ totalSupply' = totalSupply - c
      /\ wallet' = [wallet EXCEPT ![who] = @ + amount]
      /\ cash' = cash - amount
      /\ UNCHANGED <<exchangeRate, totalBorrows, borrowRate, block, checkpoint>>

\* the chain moves to the next block (environment)
NewBlock ==
  /\ block < MaxBlock
  /\ block' = block + 1
  /\ UNCHANGED <<exchangeRate, accountCollateral, totalSupply, totalBorrows,
                 borrowRate, wallet, cash, checkpoint>>

Next ==
  \/ AccrueInterest
  \/ \E who \in Accounts, a \in Amounts : MintInternal(who, a) \/ RedeemInternal(who, a)
  \/ NewBlock

Spec == Init /\ [][Next]_vars

(***************************************************************************)
(* Properties                                                              *)
(***************************************************************************)

\* Every balance stays within the u128 range: no checked operation of
\* mint_internal, redeem_internal or accrue_interest is ever skipped.
TypeOK ==
  /\ exchangeRate \in ExchangeRates
  /\ accountCollateral \in [Accounts -> Balance]
  /\ totalSupply \in Balance /\ totalBorrows \in Balance
  /\ borrowRate \in BorrowRates \cup {0}
  /\ wallet \in [Accounts -> Balance] /\ cash \in Balance
  /\ block \in 0..MaxBlock /\ checkpoint \in 0..MaxBlock

\* TotalSupply is the sum of AccountCollateral: mint_internal and
\* redeem_internal update both maps in the same transaction.
SupplyMatchesCollateral ==
  totalSupply = SumFunction(accountCollateral)

\* With the exchange rate fixed, nobody ends up with more underlying than
\* they started with: the collateral redeem_internal burns is worth at
\* least the amount it pays out, whatever sequence of mints and redeems.
NoUnderlyingGain == \A a \in Accounts : wallet[a] <= InitialWallet

\* Interest is charged per block, as the doc comment of accrue_interest
\* says: an accrual adds rate * (blocks since the checkpoint) * borrows
\* / DECIMAL, so a second accrual in the same block adds nothing.
InterestPerBlock ==
  [][totalBorrows' # totalBorrows =>
       totalBorrows' = totalBorrows
                       + (borrowRate' * (block - checkpoint) * totalBorrows) \div DECIMAL]_vars
=============================================================================
