---------------------------- MODULE EventDelivery ----------------------------
(***************************************************************************)
(* What the reliable link promises about the reports of the M4F engine     *)
(* (EVENT, NODE_TELEMETRY, NODE_STATE, RULE_FIRED), without saying how: in  *)
(* one numbering session the consumer receives a subsequence of them, in   *)
(* the order they were made and none twice, and the M4F is only told that  *)
(* a report arrived if it did.  Once the session is disturbed (a second    *)
(* HELLO, a new Linux process) order and multiplicity are no longer        *)
(* promised, only that nothing is invented.                                *)
(***************************************************************************)
EXTENDS Naturals, Sequences

CONSTANT Reports   \* how many reports the engine makes

VARIABLES
    produced,   \* reports made so far: 1..produced
    received,   \* reports whose frame reached Linux
    out,        \* what the consumer was given
    confirmed,  \* reports the M4F regards as acknowledged
    intact      \* still the first numbering session

vars == <<produced, received, out, confirmed, intact>>

Init == produced = 0 /\ received = {} /\ out = <<>> /\ confirmed = {} /\ intact = TRUE

Produce ==
    /\ produced < Reports
    /\ produced' = produced + 1
    /\ UNCHANGED <<received, out, confirmed, intact>>

Receive(e) ==
    /\ received' = received \cup {e}
    /\ UNCHANGED <<produced, out, confirmed, intact>>

Deliver(e) ==
    /\ e \in received
    /\ intact => \A i \in 1..Len(out) : out[i] < e
    /\ out' = Append(out, e)
    /\ UNCHANGED <<produced, received, confirmed, intact>>

Confirm(e) ==
    /\ intact => e \in received
    /\ confirmed' = confirmed \cup {e}
    /\ UNCHANGED <<produced, received, out, intact>>

Disturb ==
    /\ intact' = FALSE
    /\ UNCHANGED <<produced, received, out, confirmed>>

Next == \/ Produce \/ Disturb
        \/ \E e \in 1..produced : Receive(e) \/ Deliver(e) \/ Confirm(e)

Spec == Init /\ [][Next]_vars

=============================================================================
