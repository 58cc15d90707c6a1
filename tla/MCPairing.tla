------------------------------- MODULE MCPairing ------------------------------
(* One battery node: it is told to give its address up, and offered another. *)
EXTENDS Pairing

CONSTANTS n1, none, anyone

MCChips == {n1}
MCCmds == {[what |-> "accept", dest |-> 255, chip |-> n1, arg |-> 1]}
MCCtrls == {[op |-> "arm", chip |-> n1, cmd |-> "remove"],
            [op |-> "disarm", chip |-> n1, cmd |-> "remove"]}
=============================================================================
