----------------------------- MODULE MCAutomation -----------------------------
(* Either the loop runs without a clock, or the clock runs and the node is off. *)
EXTENDS Automation

Cold == [tcol |-> 40, t2 |-> 38]
Warm == [tcol |-> 47, t2 |-> 41]
Hot  == [tcol |-> 50, t2 |-> 40]
MCSuns == {Cold, Warm, Hot}

Over == [kind |-> "delta", node |-> 1, par |-> "tcol", node2 |-> 1, par2 |-> "t2",
         op |-> "more", lo |-> 5, hi |-> 0]
Below == [kind |-> "param", node |-> 1, par |-> "tcol", op |-> "less", lo |-> 0, hi |-> 45]
Noon == [kind |-> "time", from |-> 1, to |-> 1]
MCRules ==
    <<[conds |-> {Over}, act |-> "relay", node |-> 1, want |-> 1],
      [conds |-> {Below}, act |-> "relay", node |-> 1, want |-> 0],
      [conds |-> {Noon}, act |-> "message", node |-> 0, want |-> 0]>>

MCFrames == {[kind |-> "th", from |-> 2, type |-> "th", val |-> [temperature |-> 20]]}
ByHand == [what |-> "relay", arg |-> 1, dest |-> 1, type |-> "solar"]
Pair   == [what |-> "accept", arg |-> 1, dest |-> 255, type |-> "solar"]
Remove == [what |-> "remove", arg |-> 0, dest |-> 1, type |-> "solar"]
MCOrders == {ByHand, Pair, Remove}
MCNodeAddrs == {0, 1, 2, 255}
MCLeftover ==
    {[a \in MCNodeAddrs |-> IF a = 1 THEN [inUse |-> TRUE, type |-> "solar",
                                           val |-> [tcol |-> 49, t2 |-> 40, pump |-> 1]]
                            ELSE Blank]}

\* The loop, with one order; the clock, with another node's readings; the node alone.
Loop  == node.addr = Address /\ given \in {Orders \ {ByHand}, Orders \ {Remove}}
Paired == node.addr = Unprovisioned /\ given = Orders \ {Pair}
Alone == node.addr = Unprovisioned /\ given = Orders
MCInit ==
    /\ Init
    /\ \/ (Loop \/ Paired) /\ syncs = 0 /\ node.pc = "pend" /\ power = MaxPower /\ sun # Hot
       \/ Alone /\ syncs > 0 /\ node.pc = "off" /\ power = MaxPower /\ sun = Cold
       \/ Alone /\ syncs = 0 /\ node.pc = "pend" /\ power = 0

\* In the loop time stands still, nobody presses JOIN, and the sun is not so strong that the
\* circulation starts; the sun changes only when the order has been given.
MCNext ==
    /\ Next
    /\ OtherNode \/ Tick => Alone /\ node.pc = "off"
    /\ Join => Alone /\ power = 0
    /\ Weather => given = Orders /\ (sun' = Hot => power = 0)
MCSpec == MCInit /\ [][MCNext]_vars /\ Fairness
=============================================================================
