-------------------------------- MODULE Engine --------------------------------
(***************************************************************************)
(* The automation engine of the M4F at work (engine.c and engineTask of      *)
(* ipc_rpmsg_echo.c): readings are folded into a record per address, the        *)
(* rules that look at readings are evaluated after each one, the rules that       *)
(* look at the clock once per minute.  Actions go to COMMS through a bounded        *)
(* outbox.  How the set of rules gets here is RuleUpload's subject.                    *)
(*                                                                                        *)
(* The wall clock counts half minutes: an even one is [:00, :56), an odd one                *)
(* the four seconds in which the engine already reads the next minute.                        *)
(***************************************************************************)
EXTENDS Integers, Sequences, FiniteSets

CONSTANTS
    Rules,        \* the active rules, in order
    NodeAddrs,    \* addresses rules and readings name
    Leftover,     \* what an earlier run may have left in g_node
    DAY,          \* minutes of a day (1440)
    OUTBOX_DEPTH, \* entries of gOutboxQueue (16)
    NODEIN_DEPTH, \* entries of gNodeInQueue (8)
    MaxSyncs,     \* bound: TIME_SYNC messages
    MaxPushes     \* bound: commits of the rules

ASSUME EngineAssumption ==
    /\ DAY \in Nat \ {0} /\ OUTBOX_DEPTH \in Nat \ {0} /\ NODEIN_DEPTH \in Nat \ {0}
    /\ MaxSyncs \in Nat /\ MaxPushes \in Nat

VARIABLES
    wall,    \* g_wall: whether the clock was ever set, and the half minute it shows
    left,    \* half minutes until the engine's wait ends
    busy,    \* the engine is at work on what its wait returned
    nodeIn,  \* gNodeInQueue
    outbox,  \* gOutboxQueue
    g_node,  \* the record of every address
    lastMin, \* g_last_time_min
    syncs,   \* TIME_SYNCs that may still come
    pushes,  \* commits so far
    excused  \* history: something kept the engine from this minute's evaluation

engineVars == <<wall, left, busy, nodeIn, outbox, g_node, lastMin, syncs, pushes, excused>>

Resync == [kind |-> "resync"]

\* What a full queue does with one more element.
Offer(q, m, depth) == IF Len(q) < depth THEN Append(q, m) ELSE q

-----------------------------------------------------------------------------
(* Live state *)

Blank == [inUse |-> FALSE, type |-> "solar", val |-> <<>>]

\* engine_update_node: a status of the pump leaves the temperatures alone, anything else
\* replaces the record; a JOIN and unknown types are not folded.
update_node(nodes, m) ==
    CASE m.kind \in {"data", "bufor", "th"} ->
            [nodes EXCEPT ![m.from] = [inUse |-> TRUE, type |-> m.type, val |-> m.val]]
      [] m.kind = "status" ->
            [nodes EXCEPT ![m.from] =
                [inUse |-> TRUE, type |-> m.type,
                 val |-> [p \in DOMAIN @.val \union {"pump"} |->
                             IF p = "pump" THEN m.val.pump ELSE @.val[p]]]]
      [] OTHER -> nodes

\* A parameter the record does not have reads as zero.
getNodeParam(nodes, a, p) == IF p \in DOMAIN nodes[a].val THEN nodes[a].val[p] ELSE 0

-----------------------------------------------------------------------------
(* The clock *)

\* Half minutes to the next :00; without a clock, one period.
ms_to_next_minute(w) == IF w.valid THEN 2 - (w.at % 2) ELSE 1

\* The minute as rules see it: from :56 on it is the next one.
wall_now_rounded(w) == ((w.at + 1) \div 2) % DAY

-----------------------------------------------------------------------------
(* Evaluation *)

Compare(c, v) ==
    CASE c.op = "less" -> v < c.hi
      [] c.op = "more" -> v > c.lo
      [] OTHER -> c.lo <= v /\ v <= c.hi

\* A condition on a node that never reported is not met; nor is one on a clock never set.
Holds(c, nodes, w) ==
    CASE c.kind = "time" -> w.valid /\ c.from <= wall_now_rounded(w) /\ wall_now_rounded(w) <= c.to
      [] c.kind = "param" -> nodes[c.node].inUse /\ Compare(c, getNodeParam(nodes, c.node, c.par))
      [] OTHER -> /\ nodes[c.node].inUse /\ nodes[c.node2].inUse
                  /\ Compare(c, getNodeParam(nodes, c.node, c.par)
                                - getNodeParam(nodes, c.node2, c.par2))

\* A pass for the clock takes the rules with a time condition and those with none, a pass
\* for a reading the rules with a condition on a reading.
rule_matches_scope(r, scope) ==
    IF scope = "time" THEN r.conds = {} \/ \E c \in r.conds : c.kind = "time"
                      ELSE \E c \in r.conds : c.kind # "time"

\* (mutant) the relay is taken to be in the wanted state once the node has reported
Satisfied_Reported(r, nodes) ==
    r.act = "relay" /\ nodes[r.node].type = "solar" /\ nodes[r.node].inUse
\* The pump already is what the rule wants.
Satisfied(r, nodes) ==
    /\ r.act = "relay" /\ nodes[r.node].type = "solar"
    /\ getNodeParam(nodes, r.node, "pump") = r.want

Fires(r, scope, nodes, w) ==
    /\ rule_matches_scope(r, scope) /\ ~Satisfied(r, nodes)
    /\ \A c \in r.conds : Holds(c, nodes, w)

\* A full outbox drops what comes after: the outbox after a pass over the rules.
WithActions(box, scope, nodes) ==
    LET fired == SelectSeq(IF pushes > 0 THEN Rules ELSE <<>>,
                           LAMBDA r : Fires(r, scope, nodes, wall))
        all == box \o [i \in DOMAIN fired |-> [kind |-> "fired", rule |-> fired[i], type |-> nodes[fired[i].node].type]]
    IN  SubSeq(all, 1, IF Len(all) < OUTBOX_DEPTH THEN Len(all) ELSE OUTBOX_DEPTH)

-----------------------------------------------------------------------------
EngineInit ==
    /\ wall = [valid |-> FALSE, at |-> 0] /\ left = 1 /\ busy = FALSE
    /\ nodeIn = <<>> /\ outbox = <<>> /\ lastMin = -1
    /\ g_node \in Leftover \union {[a \in NodeAddrs |-> Blank]}
    /\ syncs \in {0, MaxSyncs} /\ pushes = 0 /\ excused = TRUE

\* engineTask's wait returns an entry of the queue, even if its time is up.
Receive ==
    LET m == Head(nodeIn)
        nodes == update_node(g_node, m)
    IN  /\ ~busy /\ nodeIn # <<>>
        /\ nodeIn' = Tail(nodeIn) /\ busy' = TRUE
        /\ IF m = Resync THEN UNCHANGED <<g_node, outbox>>
           ELSE /\ g_node' = nodes
                /\ outbox' = WithActions(Offer(outbox, [kind |-> "telemetry"], OUTBOX_DEPTH),
                                         "node", nodes)
        /\ excused' = (excused \/ left = 0)
        /\ UNCHANGED <<wall, left, lastMin, syncs, pushes>>

\* (mutant) the minute must be later than the last one
Repeated_NotLater == wall_now_rounded(wall) <= lastMin
\* This minute's rules were evaluated already.
Repeated == wall_now_rounded(wall) = lastMin

\* The wait ends, maybe a little early: the rules that look at the clock, once per minute.
Timeout ==
    /\ ~busy /\ nodeIn = <<>> /\ (left = 0 \/ (left = 1 /\ wall.valid))
    /\ busy' = TRUE
    /\ IF wall.valid /\ Repeated THEN UNCHANGED <<lastMin, outbox>>
       ELSE /\ lastMin' = IF wall.valid THEN wall_now_rounded(wall) ELSE lastMin
            /\ outbox' = WithActions(outbox, "time", g_node)
    /\ UNCHANGED <<wall, left, nodeIn, g_node, syncs, pushes, excused>>

\* The loop starts over and sizes its wait by the clock.
Done ==
    /\ busy /\ busy' = FALSE /\ left' = ms_to_next_minute(wall)
    /\ UNCHANGED <<wall, nodeIn, outbox, g_node, lastMin, syncs, pushes, excused>>

\* Time passes.  A full minute is long enough for all the engine has to do, the last four
\* seconds may pass while it works or while a reading waits; then it misses the :00.
Tick ==
    LET waits == ~busy /\ nodeIn = <<>>
        boundary == wall.valid /\ wall.at % 2 = 1
    IN  /\ boundary \/ (waits /\ left > 0)
        /\ wall' = IF wall.valid THEN [wall EXCEPT !.at = (@ + 1) % (2 * DAY)] ELSE wall
        /\ left' = IF left > 0 THEN left - 1 ELSE 0
        /\ excused' = IF boundary THEN excused \/ ~waits ELSE ~wall.valid
        /\ UNCHANGED <<busy, nodeIn, outbox, g_node, lastMin, syncs, pushes>>

\* (mutant) nobody tells the engine
Woken_Not(q) == q
\* The sentinel that ends the engine's wait; a full queue ends it too.
Woken(q) == Offer(q, Resync, NODEIN_DEPTH)

\* TIME_SYNC: sets the clock, by a small correction or for the first time.
TimeSync ==
    /\ syncs > 0 /\ syncs' = syncs - 1
    /\ \E at \in 0..(2 * DAY - 1) :
          /\ wall.valid => at \in {(wall.at + d) % (2 * DAY) : d \in {0, 1, 2 * DAY - 1}}
          /\ wall' = [valid |-> TRUE, at |-> at]
    /\ nodeIn' = Woken(nodeIn) /\ excused' = TRUE
    /\ UNCHANGED <<left, busy, outbox, g_node, lastMin, pushes>>

\* A new set of rules is committed: this minute may be evaluated again.
Commit ==
    /\ pushes < MaxPushes /\ pushes' = pushes + 1
    /\ lastMin' = -1 /\ excused' = TRUE
    /\ UNCHANGED <<wall, left, busy, nodeIn, outbox, g_node, syncs>>

EngineStep == Receive \/ Timeout \/ Done

-----------------------------------------------------------------------------
EngineTypeOK ==
    /\ wall \in [valid : BOOLEAN, at : 0..(2 * DAY - 1)] /\ left \in 0..2 /\ busy \in BOOLEAN
    /\ Len(nodeIn) <= NODEIN_DEPTH /\ Len(outbox) <= OUTBOX_DEPTH
    /\ lastMin \in -1..(DAY - 1) /\ DOMAIN g_node = NodeAddrs
    /\ syncs \in 0..MaxSyncs /\ pushes \in 0..MaxPushes /\ excused \in BOOLEAN

\* While the engine waits with a clock set, its wait ends at a full minute: however the
\* clock was corrected, and whatever readings came in between, no evaluation is due at
\* another moment (engineTask's recomputed timeout and the sentinel of TIME_SYNC).
Aligned ==
    wall.valid /\ ~busy /\ nodeIn = <<>> => (wall.at + left) % 2 = 0

\* When a minute gives way to the next, its rules were evaluated in it, midnight included;
\* unless the clock was set, the rules were replaced, or the engine was busy at the :00.
EachMinuteOnce ==
    [][wall_now_rounded(wall') # wall_now_rounded(wall) /\ syncs' = syncs
          => excused \/ lastMin = wall_now_rounded(wall)]_engineVars
=============================================================================
