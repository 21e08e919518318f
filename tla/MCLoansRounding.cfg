CONSTANTS
  Accounts = {a1, a2}
  DECIMAL = 10
  Width = 6
  ExchangeRates = {7}
  BorrowRates = {1, 3}
  Amounts = {1, 3, 7}
  InitialWallet = 3
  InitialCash = 4
  InitialBorrows = 4
  MaxBlock = 3
SPECIFICATION Spec
INVARIANTS NoUnderlyingGain
