------------------------------ MODULE MCUsers ------------------------------
(* Three users, one of them hidden, so that two can change places in the   *)
(* list, and enough changes to add, change and delete in one reload, or    *)
(* while the list is being loaded.                                         *)
EXTENDS SharedData

MCMaxChanges == [daemon |-> 2, greeter |-> 3]
============================================================================
