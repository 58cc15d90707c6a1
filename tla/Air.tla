--------------------------------- MODULE Air ----------------------------------
(***************************************************************************)
(* What the gateway and the nodes say to each other.  A node is known by its *)
(* factory id, its chip, and addressed by the address it was assigned; a       *)
(* chip that has none uses Unprovisioned, as any other such chip does.         *)
(*                                                                         *)
(* A frame from a node is a record [kind |-> "frame", chip, src, what, num,   *)
(* tagged]: `src` is the address it uses, `what` is "report", "join" or the   *)
(* command it confirms, `num` counts what the chip made, `tagged` says        *)
(* whether the frame carries the factory id (tag 'E').  The checksum that a   *)
(* reply repeats identifies the frame: two frames on the air at the same time *)
(* have different ones.                                                      *)
(***************************************************************************)
EXTENDS Naturals, Sequences, FiniteSets

CONSTANTS
    Chips,         \* nodes in reach
    AnyChip,       \* factory id of a frame with tag 'D'
    Addresses,     \* addresses the gateway assigns (ADDR_POOL_FIRST to ADDR_POOL_LAST)
    Unprovisioned, \* ADDR_UNPROVISIONED, 0xFF
    Cmds,          \* commands for nodes: [what, dest, chip, arg], each sent once
    NoCmd,         \* "no command"
    MaxReports     \* bound: frames a chip makes

ASSUME AirAssumption ==
    /\ AnyChip \notin Chips /\ Unprovisioned \notin Addresses
    /\ MaxReports \in Nat /\ NoCmd \notin {"report", "join", "remove", "unregistered"}
    /\ \A c \in Cmds : /\ c.what \in {"accept", "remove", "relay"}
                       /\ c.chip \in Chips \union {AnyChip}
                       /\ c.dest \in Addresses \union {Unprovisioned}
                       /\ c.what = "accept" => c.arg \in Addresses

\* A reading is a chip and the number of the frame it made.
Readings == [chip : Chips, num : 1..MaxReports]
Reading(p) == [chip |-> p.chip, num |-> p.num]

FrameOf(n, a, w, k, t) ==
    [kind |-> "frame", chip |-> n, src |-> a, what |-> w, num |-> k, tagged |-> t]
=============================================================================
