--------------------------- MODULE MCTelegramInbox ---------------------------
(* TelegramInbox on a small instance: a customer who gives a phone, another *)
(* one who gives none, and an update that is not a message of a person.    *)
EXTENDS TelegramInbox, TLC

CONSTANTS anna, boris, phone

ThreePayloads == {<<anna, phone>>, <<boris, NoHandle>>, <<Nobody, NoHandle>>}
=============================================================================
