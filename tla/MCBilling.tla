------------------------------ MODULE MCBilling ------------------------------
(***************************************************************************)
(* Prices for TLC: with ten units to the cent, 4 rounds down and 5 and 16  *)
(* round up, and the three together are 2.5 cents.                         *)
(***************************************************************************)
EXTENDS Billing, TLC
CONSTANTS a, b, d

Prices == (a :> 4) @@ (b :> 5) @@ (d :> 16)
=============================================================================
