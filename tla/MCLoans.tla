------------------------------- MODULE MCLoans -------------------------------
(* Model-checking instance of Loans: two accounts, DECIMAL = 10 and a      *)
(* 6-bit Balance, so conversions round and large amounts overflow.         *)
EXTENDS Loans
=============================================================================
