---------------------- MODULE MCIntersolveVouchers ----------------------
(* One registration; one worker for payments and one or two for replies.   *)
EXTENDS IntersolveVouchers

CONSTANTS r1, pay, reply1, reply2

OneRegistration == {r1}
OnePayment == {1}
TwoPayments == {1, 2}
OneReplier == {reply1}
OneReplierAndPayer == {reply1, pay}
=============================================================================
