--------------------- MODULE MCIntersolveVisaWallet ---------------------
(* One registration; the requests next to its payments are model values.   *)
EXTENDS IntersolveVisaWallet, TLC

OnePayment == 1 .. 1
TwoPayments == 1 .. 2
Nobody == {}

PauseSymmetry == Permutations(Pauses)
=============================================================================
