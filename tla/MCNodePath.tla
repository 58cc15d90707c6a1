------------------------------ MODULE MCNodePath ------------------------------
(* One light switch and one or two of: an address for it, a switching command, an order. *)
EXTENDS NodePath

CONSTANTS n1, none, anyone

MCCmds == {[what |-> "accept", dest |-> 255, chip |-> n1, arg |-> 1],
           [what |-> "relay", dest |-> 1, chip |-> anyone, arg |-> 1]}
MCCtrls == {[op |-> "arm", chip |-> n1, cmd |-> "remove"]}
MCChips == {n1}

\* The chip makes two reports, but one, of its own or as an answer, when it is sent a command.
\* The messages of the M4F come early: before the first report, an order before the second.
MCNext ==
    /\ Next
    /\ posted' # posted =>
          node[n1].made = 0 \/ (posted' \subseteq MCCtrls /\ node[n1].made = 1)
    /\ node'[n1].made > node[n1].made => node[n1].made = 0 \/ posted \subseteq MCCtrls
MCSpec == Init /\ [][MCNext]_vars
==============================================================================
