-------------------------------- MODULE Money --------------------------------
(***************************************************************************)
(* Amounts of money.  Requests carry binary fractions of the currency, the *)
(* tables hold NUMERIC(12,2).  An amount is a natural number of tenths of  *)
(* a cent, so that both what a request may ask and what is stored fit.     *)
(***************************************************************************)
EXTENDS Integers

\* strconv.FormatFloat(x, 'f', 2, 64): an amount rounded to the nearest cent.  Of
\* half a cent, where the code goes the way the binary fraction leans, the model
\* goes up; the instances that TLC checks have no such amount.
Cents(x) == ((x + 5) \div 10) * 10
=============================================================================
