----------------------- MODULE MCWhatsappMessages -----------------------
(* One registration with a WhatsApp number and one without; a sender of    *)
(* bulk messages and one of replies.                                       *)
EXTENDS WhatsappMessages, TLC

CONSTANTS bulkSender, replySender, h1

TwoRegistrations == {1, 2}
TheFirst == {1}
SmallBulk == {"smallBulk"}
OneOfEach == {bulkSender, replySender}
QueueOfEach == (bulkSender :> "smallBulk") @@ (replySender :> "reply")
OneHandler == {h1}
=============================================================================
