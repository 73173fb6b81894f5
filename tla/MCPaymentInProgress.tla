---------------------- MODULE MCPaymentInProgress -----------------------
(***************************************************************************)
(* Instances of PaymentInProgress for TLC.                                 *)
(***************************************************************************)
EXTENDS PaymentInProgress, TLC

CONSTANTS r1, r2, q1, q2, q3, visa, safaricom

TwoFsps == {visa, safaricom}

TwoRegistrations == {r1, r2}

OneVisa == [r \in Registrations |-> IF r = r1 THEN visa ELSE safaricom]

OneRequest == {q1}
ThreeRequests == {q1, q2, q3}

RequestSymmetry == Permutations(Requests)

\* The two registrations may change places when their FSPs do.
Exchange ==
    (r1 :> r2) @@ (r2 :> r1) @@ (visa :> safaricom) @@ (safaricom :> visa)
ExchangeSymmetry == RequestSymmetry \cup {p @@ Exchange : p \in RequestSymmetry}
=============================================================================
