---------------------- MODULE MCSafaricomTransfers ----------------------
(***************************************************************************)
(* Instances of SafaricomTransfers for TLC.                                *)
(***************************************************************************)
EXTENDS SafaricomTransfers, TLC

CONSTANTS r1, r2

MCRegistrations == {r1, r2}
OneRegistration == {r1}
RegistrationSymmetry == Permutations(MCRegistrations)

OnePayment == {1}

AllFaults == FaultKinds
Duplicates == {"duplicateCallback"}
\* Faults that leave reports reliable until the service crashes.
FaultyRequests == {"lostRequest", "transientRefusal"}
=============================================================================
