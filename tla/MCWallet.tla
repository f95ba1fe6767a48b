-------------------------------- MODULE MCWallet --------------------------------
(***************************************************************************)
(* Wallet on a small instance: two wallets at one cache file, two sub-     *)
(* wallets, two samples to be stable, three to time out, one poll to wait. *)
(***************************************************************************)
EXTENDS Wallet

CONSTANTS w1, w2, shielded, dust
=============================================================================
