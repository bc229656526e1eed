-------------------------- MODULE MCWebWallet --------------------------
(* Instances of WebWallet for TLC.                                         *)
EXTENDS WebWallet, TLC

Interchangeable == Permutations(Mutations)
=============================================================================
