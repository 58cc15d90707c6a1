------------------------------ MODULE LightNode -------------------------------
(***************************************************************************)
(* The light switch: a node that always listens.  Its radio task            *)
(* (rfEchoTx.c) has the shape of the gateway's; the app task (node_app.c)     *)
(* obeys commands and reports; the main thread (gpiointerrupt.c) turns a       *)
(* short touch into a toggle and a report, a long one into a JOIN; the         *)
(* address survives a power cycle in flash (node_identity.c).                  *)
(***************************************************************************)
EXTENDS Air

CONSTANTS
    NODE_ENTRIES,   \* NUM_DATA_ENTRIES of the node (4)
    NODE_DEPTH,     \* mq_maxmsg of both queues of the node (10)
    NODE_RETRIES    \* MAX_RETRIES of the node (2)

ASSUME LightAssumption ==
    /\ NODE_ENTRIES \in Nat \ {0} /\ NODE_DEPTH \in Nat \ {0}
    /\ NODE_RETRIES \in Nat

VARIABLES
    node,   \* for every chip its tasks, queues and address
    heard,  \* history: commands a chip acknowledged
    known   \* history: readings whose acknowledgement the chip saw

nodeVars == <<node, heard, known>>

NoFrame == [kind |-> "none"]

\* identity_init: only the address survives.
Booted(a, made) ==
    [pc |-> "pend", rx |-> "listen", events |-> {}, inbox |-> <<>>, out |-> <<>>,
     frame |-> NoFrame, tries |-> 0, app |-> <<>>, addr |-> a, nvs |-> a,
     writing |-> FALSE, made |-> made]

NodeInit ==
    /\ node \in [Chips -> {Booted(a, 0) : a \in Addresses \union {Unprovisioned}}]
    /\ heard = {} /\ known = {}

NodePut(n, r) == node' = [node EXCEPT ![n] = r]

-----------------------------------------------------------------------------
(* The radio task *)

\* A packet reaches the node.  It ends the reception; with a full ring it is lost.
NodeCatch(n, p) ==
    LET s == node[n]
    IN  /\ s.rx # "off"
        /\ NodePut(n, [s EXCEPT !.rx = "off",
                         !.inbox = IF Len(@) < NODE_ENTRIES THEN Append(@, p) ELSE @,
                         !.events = IF s.rx = "listen" THEN @ \union {"rx"} ELSE @])
        /\ UNCHANGED <<heard, known>>

\* Event_pend takes all bits; "send" wins over "rx"; with nothing to do it listens again.
NodePend(n) ==
    LET s == node[n]
        t == [s EXCEPT !.events = {}]
    IN  /\ s.pc = "pend" /\ s.events # {}
        /\ NodePut(n, CASE "send" \in s.events /\ s.out # <<>> ->
                              [t EXCEPT !.pc = "jobs", !.rx = "off"]
                        [] "send" \notin s.events /\ s.inbox # <<>> -> [t EXCEPT !.pc = "rx"]
                        [] OTHER -> [t EXCEPT !.rx = "listen"])
        /\ UNCHANGED <<heard, known>>

\* One transmission, of the report in hand or of the next one; the receiver follows for
\* RX_TIMEOUT.
Sending(n) == IF node[n].frame # NoFrame THEN node[n].frame ELSE Head(node[n].out)
NodeSend(n) ==
    LET s == node[n]
        t == IF s.frame # NoFrame THEN [s EXCEPT !.tries = @ - 1]
             ELSE [s EXCEPT !.frame = Head(s.out), !.out = Tail(@), !.tries = NODE_RETRIES]
    IN  /\ s.pc = "jobs" 
        /\ NodePut(n, [t EXCEPT !.pc = "window", !.rx = "window"])
        /\ UNCHANGED <<heard, known>>

\* The acknowledgement of this report, addressed back to its source.
Confirms(s, p) == p.kind = "ack" /\ p.of = s.frame

\* The window is over.  All that was received is read and, unless it is the
\* acknowledgement, thrown away: a NACK, and a command too.
NodeWindowEnd(n) ==
    LET s == node[n]
        ok == \E i \in 1..Len(s.inbox) : Confirms(s, s.inbox[i])
        t == [s EXCEPT !.inbox = <<>>]
    IN  /\ s.pc = "window"
        /\ known' = IF ok THEN known \union {Reading(s.frame)} ELSE known
        /\ NodePut(n, CASE ~ok /\ s.tries > 0 -> [t EXCEPT !.pc = "jobs", !.rx = "off"]
                        [] (ok \/ s.tries = 0) /\ s.out # <<>> ->
                              [t EXCEPT !.pc = "jobs", !.rx = "off", !.frame = NoFrame, !.tries = 0]
                        [] OTHER ->
                              [t EXCEPT !.pc = "pend", !.rx = "listen", !.frame = NoFrame, !.tries = 0])
        /\ UNCHANGED <<heard>>

\* Addressed to this node, and its own id if the frame carries one.
ForUs(n, p) ==
    /\ p.kind = "cmd" /\ p.job.cmd.dest = node[n].addr
    /\ p.job.cmd.chip \in {n, AnyChip}

\* The next packet of the ring: a command for this node is handed to the app task and
\* acknowledged, anything else is skipped.
NodeReceive(n) ==
    LET s == node[n]
        p == Head(s.inbox)
        last == Len(s.inbox) = 1
        rest == [s EXCEPT !.inbox = Tail(@), !.pc = IF last THEN "pend" ELSE "rx",
                          !.rx = IF last THEN "listen" ELSE "off"]
    IN  /\ s.pc = "rx" /\ s.inbox # <<>>
        /\ IF ForUs(n, p)
           THEN /\ NodePut(n, [rest EXCEPT !.app = IF Len(@) < NODE_DEPTH
                                                   THEN Append(@, p.job.cmd) ELSE @])
                /\ heard' = heard \union {p.job.cmd}
           ELSE NodePut(n, rest) /\ UNCHANGED heard
        /\ UNCHANGED <<known>>

-----------------------------------------------------------------------------
(* The app task and the main thread.  They have the same priority: neither runs inside *)
(* the other's handler.                                                                *)

\* The next message for the gateway.
Post(s, n) ==
    [s EXCEPT !.made = @ + 1, !.events = @ \union {"send"},
              !.out = IF Len(@) < NODE_DEPTH
                      THEN Append(@, FrameOf(n, s.addr, "report", s.made + 1, TRUE))
                      ELSE @]

\* A command from the gateway.  A new address is written to flash before it is reported.
App(n) ==
    LET s == node[n]
        c == Head(s.app)
        t == [s EXCEPT !.app = Tail(@)]
    IN  /\ s.app # <<>> /\ ~s.writing
        /\ \/ /\ c.what \in {"accept", "remove"}
              /\ NodePut(n, [t EXCEPT !.writing = TRUE,
                                      !.addr = IF c.what = "accept" THEN c.arg ELSE Unprovisioned])
           \/ /\ c.what = "relay" /\ s.made < MaxReports
              /\ NodePut(n, Post(t, n))
        /\ UNCHANGED <<heard, known>>

Persist(n) ==
    LET s == node[n]
        t == [s EXCEPT !.nvs = s.addr, !.writing = FALSE]
    IN  /\ s.writing
        /\ \/ s.addr = Unprovisioned /\ NodePut(n, t)
           \/ /\ s.addr # Unprovisioned /\ s.made < MaxReports
              /\ NodePut(n, Post(t, n))
        /\ UNCHANGED <<heard, known>>

\* A short touch toggles the relay and reports; four seconds announce the chip with a
\* JOIN.  The way to the engine is the same for both.
Touch(n) ==
    /\ ~node[n].writing /\ node[n].made < MaxReports
    /\ NodePut(n, Post(node[n], n))
    /\ UNCHANGED <<heard, known>>

\* Power lost and back: what the flash held, or nothing if a write was cut short.
PowerCycle(n) ==
    LET s == node[n]
    IN  /\ \E a \in IF s.writing THEN {s.nvs, s.addr, Unprovisioned} ELSE {s.nvs} :
               NodePut(n, Booted(a, s.made))
        /\ UNCHANGED <<heard, known>>

NodeStep(n) ==
    \/ NodePend(n) \/ NodeWindowEnd(n)
    \/ App(n) \/ Persist(n) \/ Touch(n) \/ PowerCycle(n)

NodeTypeOK ==
    /\ \A n \in Chips :
         LET s == node[n]
         IN  /\ s.pc \in {"pend", "jobs", "window", "rx"}
             /\ s.rx \in {"off", "listen", "window"} /\ s.events \subseteq {"send", "rx"}
             /\ Len(s.inbox) <= NODE_ENTRIES /\ Len(s.out) <= NODE_DEPTH
             /\ s.tries \in 0..NODE_RETRIES
             /\ s.app \in Seq(Cmds) /\ Len(s.app) <= NODE_DEPTH
             /\ {s.addr, s.nvs} \subseteq Addresses \union {Unprovisioned}
             /\ s.writing \in BOOLEAN /\ s.made \in 0..MaxReports
    /\ heard \subseteq Cmds
=============================================================================
