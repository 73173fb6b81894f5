-------------------- MODULE MCCommercialBankEthiopia --------------------
(* Two registrations with one payment.                                      *)
EXTENDS CommercialBankEthiopia

CONSTANTS r1, r2, w

TwoRegistrations == {r1, r2}
OnePayment == {1}
OneWorker == {w}
=============================================================================
