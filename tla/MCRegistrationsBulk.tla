----------------------- MODULE MCRegistrationsBulk -----------------------
(* Two registrations, with one Excel configuration or one each.  Pages of   *)
(* one registration in the order of the ids, or of two in another order.    *)
EXTENDS RegistrationsBulk

CONSTANTS payer, q1, excelA, excelB

TwoRegistrations == {1, 2}
OnePayment == {1}
OnlyPayer == {payer}
OneConfig == <<excelA>>
SameConfig == [r \in {1, 2} |-> excelA]
TwoConfigs == <<excelA, excelB>>
OwnConfig == <<excelA, excelB>>
OwnValue == <<1, 2>>
TwoValues == {1, 2}
OneRequest == {q1}
PausedOrDeleted == {"paused", "deleted"}
Deletion == {"deleted"}
SmallPagesOrUnsorted ==
    {[size |-> 1, byId |-> TRUE], [size |-> 2, byId |-> FALSE]}
=============================================================================
