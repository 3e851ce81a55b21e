----------------------------- MODULE MCAccounts -----------------------------
(* Accounts on a small instance.                                            *)
EXTENDS Accounts, TLC

MixedMenus ==
    {{"login", "mistype", "wait", "refresh", "logout", "change", "stop"},
     {"login", "refresh", "delete", "edit", "stop"},
     {"login", "forgot", "confirm", "reset"},
     {"forgot", "confirm", "mistype", "reset", "stop"},
     {"forgot", "register", "queue"},
     {"register", "confirm", "mistype", "cleanup", "stop"},
     {"register", "confirm", "delete", "edit", "stop"},
     {"upload", "delete", "stop"}, {"forgot", "wait", "stop"}}

Symmetry == Permutations(Requests) \cup Permutations(Users) \cup Permutations(Emails)
=============================================================================
