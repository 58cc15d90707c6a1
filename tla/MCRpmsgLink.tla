----------------------------- MODULE MCRpmsgLink -----------------------------
(* Values for model checking RpmsgLink. *)
EXTENDS RpmsgLink, TLC

CONSTANTS c1, c2, c3

NoCmds    == {}
OneCmd    == {c1}
ThreeCmds == {c1, c2, c3}

NoKinds   == {}
AllKinds  == {"DATA", "CTRL", "PING"}

\* Commands differ in nothing but their name.
CmdSymmetry == Permutations(Cmds)

=============================================================================
