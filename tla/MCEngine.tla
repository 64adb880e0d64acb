------------------------------ MODULE MCEngine ------------------------------
(* Engine with two clients: a detached and a foreground run, containers with and
   without a name, selections by operand, by --all and by --latest. *)
EXTENDS Engine

CONSTANTS n1, n2, v1, v2

MCRunInputs ==
    {[name |-> n1, rm |-> TRUE, detach |-> TRUE, replace |-> FALSE, volumes |-> {}],
     [name |-> n1, rm |-> FALSE, detach |-> TRUE, replace |-> TRUE, volumes |-> {v1}],
     [name |-> NoName, rm |-> FALSE, detach |-> FALSE, replace |-> FALSE, volumes |-> {}]}

Sel == [refs |-> <<>>, cidfiles |-> <<>>, all |-> FALSE, latest |-> FALSE, filter |-> {},
        ignore |-> FALSE]

MCSelections ==
    {[Sel EXCEPT !.refs = <<n1>>], [Sel EXCEPT !.all = TRUE]}
=============================================================================
