-------------------------- MODULE MCWalletActivity --------------------------
(* Pages of one transaction and a cap of two pages: three transactions reach *)
(* beyond the cap, and two timestamps make some of them tie.                 *)
EXTENDS WalletActivity

CONSTANTS w1, w2
=============================================================================
