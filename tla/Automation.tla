------------------------------ MODULE Automation ------------------------------
(***************************************************************************)
(* The closed loop: the engine, the solar controller, and the way between     *)
(* them.  The way is NodePath's subject and appears here by what it does to     *)
(* messages: reports arrive in order, more than once or not at all; a command     *)
(* that is not acknowledged is sent again behind later ones, a few times; both      *)
(* find queues full.                                                                  *)
(***************************************************************************)
EXTENDS Engine, SolarNode

CONSTANTS
    Frames,      \* readings of other nodes
    Orders,      \* commands of the user, each given once
    DOWN_DEPTH,  \* commands on their way (spi_master.c: 8, radio_task.c: 10)
    DOWN_RETRIES \* MAX_RETRIES of radio_task.c (2)

ASSUME AutomationAssumption == DOWN_DEPTH \in Nat \ {0} /\ DOWN_RETRIES \in Nat

VARIABLES
    down,  \* commands on their way to the node, with the transmissions left
    given  \* orders of the user so far

vars == <<engineVars, solarVars, down, given>>

Init == EngineInit /\ SolarInit /\ down = <<>> /\ given \in SUBSET Orders

\* COMMS empties the outbox: a telemetry goes to Linux, the relay action of a rule to its
\* node, as a frame that names no chip.
CommandsOf(box) ==
    LET actions == SelectSeq(box, LAMBDA i : i.kind = "fired" /\ i.rule.node # 0)
    IN  [k \in DOMAIN actions |->
            [cmd |-> [what |-> "relay", arg |-> actions[k].rule.want,
                      dest |-> actions[k].rule.node, type |-> actions[k].type],
             tries |-> DOWN_RETRIES]]
drainEngineOutbox ==
    /\ outbox # <<>> /\ outbox' = <<>>
    /\ LET all == down \o CommandsOf(outbox)
       IN  down' = SubSeq(all, 1, IF Len(all) < DOWN_DEPTH THEN Len(all) ELSE DOWN_DEPTH)
    /\ UNCHANGED <<wall, left, busy, nodeIn, g_node, lastMin, syncs, pushes, excused,
                   solarVars, given>>

\* The user's commands, and the two that give and take an address, come the same way.
Order ==
    /\ \E c \in Orders \ given :
          /\ given' = given \union {c}
          /\ down' = Offer(down, [cmd |-> c, tries |-> DOWN_RETRIES], DOWN_DEPTH)
    /\ UNCHANGED <<engineVars, solarVars>>

ReadyFor(c) == node.pc # "off" /\ node.addr = c.dest

\* The first command goes out.  An acknowledged one is done with, another one goes to the
\* end until its transmissions are used up.
Delivered ==
    /\ down # <<>> /\ ReadyFor(Head(down).cmd)
    /\ Hears(Head(down).cmd) /\ down' = Tail(down)
    /\ UNCHANGED <<engineVars, sun, power, given>>
Unacknowledged ==
    LET j == Head(down)
    IN  /\ down # <<>>
        /\ down' = IF j.tries > 0 THEN Append(Tail(down), [j EXCEPT !.tries = @ - 1])
                   ELSE Tail(down)
        /\ UNCHANGED node \/ (ReadyFor(j.cmd) /\ Hears(j.cmd))
        /\ UNCHANGED <<engineVars, sun, power, given>>

\* The node's next message reaches the engine's queue, again if the answer was lost, or is
\* given up.
Arrives ==
    /\ node.out # <<>> /\ nodeIn' = Offer(nodeIn, Head(node.out), NODEIN_DEPTH)
    /\ \/ node' = [node EXCEPT !.out = Tail(@)]
       \/ UNCHANGED node
    /\ UNCHANGED <<wall, left, busy, outbox, g_node, lastMin, syncs, pushes, excused,
                   sun, power, down, given>>
GivenUp ==
    /\ node.out # <<>> /\ node' = [node EXCEPT !.out = Tail(@)]
    /\ UNCHANGED <<engineVars, sun, power, down, given>>
OtherNode ==
    /\ \E m \in Frames : nodeIn' = Offer(nodeIn, m, NODEIN_DEPTH)
    /\ UNCHANGED <<wall, left, busy, outbox, g_node, lastMin, syncs, pushes, excused,
                   solarVars, down, given>>

EngineSide ==
    /\ EngineStep \/ Tick \/ TimeSync \/ Commit
    /\ UNCHANGED <<solarVars, down, given>>
NodeSide ==
    /\ \/ Timer \/ Measure \/ Wake \/ Obey
       \/ Join \/ PowerOff \/ PowerOn \/ Weather
    /\ UNCHANGED <<engineVars, down, given>>
Way == drainEngineOutbox \/ Order \/ Delivered \/ Unacknowledged \/ Arrives \/ GivenUp \/ OtherNode

Next == EngineSide \/ NodeSide \/ Way

-----------------------------------------------------------------------------
\* The tasks run, and Linux delivers its rules.  Sent again and again, a report gets through
\* at last and finds room, and a command finds the node with nothing to do: the timer posts
\* its bit every ten seconds, for a few milliseconds of work.
Through == nodeIn = <<>> /\ Arrives /\ node' # node
FindsIdle == node.pc = "pend" /\ node.events = {} /\ Delivered
Fairness ==
    /\ WF_vars(EngineSide /\ busy' # busy)
    /\ WF_vars(EngineSide /\ pushes' # pushes)
    /\ WF_vars(drainEngineOutbox) /\ SF_vars(Through)
    /\ WF_vars(NodeSide /\ Timer) /\ WF_vars(NodeSide /\ (Measure \/ Obey)) /\ SF_vars(NodeSide /\ Wake)
    /\ []<>(down # <<>>) => []<><<FindsIdle>>_vars

Spec == Init /\ [][Next]_vars /\ Fairness

\* What the rules want of the node's relay when its sensors read s.
Wanted(s) ==
    {Rules[i].want : i \in {k \in DOMAIN Rules :
        /\ Rules[k].act = "relay" /\ Rules[k].node = Address /\ Rules[k].conds # {}
        /\ \A c \in Rules[k].conds :
             Holds(c, [g_node EXCEPT ![Address] = [inUse |-> TRUE, type |-> "solar",
                                                   val |-> [tcol |-> s.tcol, t2 |-> s.t2]]], wall)}}

\* While the sensors read the same, the node has power and an address and the rules agree
\* on what they want, the relay ends in that state and stays there, whatever was lost, left
\* over, reordered or switched by hand on the way (the level-triggered evaluation of
\* engine_evaluate and its dedup on the reported state).
PumpFollows ==
    \A s \in Suns :
        <>[](sun = s /\ node.pc # "off" /\ node.addr = Address)
            => <>[](\A w \in Wanted(s) : Cardinality(Wanted(s)) = 1 => node.relay = w)
=============================================================================
