-------------------------------- MODULE MCCrm --------------------------------
(* Crm on a small instance.                                                 *)
EXTENDS Crm, TLC

MixedMenus ==
    {{"create_deal", "move_deal", "delete_deal", "delete_stage"},
     {"edit_deal", "delete_deal", "delete_contact", "edit_contact", "create_contact"},
     {"create_stage", "update_stage", "delete_stage"},
     {"create_task", "edit_task", "delete_task", "delete_deal"},
     {"create_task", "edit_task", "delete_contact"},
     {"move_deal", "update_stage", "delete_stage", "edit_deal"},
     {"settings"}}

Symmetry == Permutations(Requests) \cup Permutations(Deals) \cup Permutations(Tasks)
            \cup Permutations(Contacts) \cup Permutations(Keys)
=============================================================================
