---------------------------- MODULE NodeRegistry -----------------------------
(***************************************************************************)
(* The life of a node: the registry in SQLite (store.go), the HTTP handlers *)
(* that change it (httpapi.go), the drain of the M4F's events (main.go),    *)
(* the joins waiting for approval (join.go), the pending-command table of   *)
(* the CC1310 (radio_task.c) and the address each chip keeps in its flash.  *)
(*                                                                         *)
(* A handler runs one transaction, then sends commands down a pipe that may *)
(* drop them, then pushes the rules again.  Meanwhile the drain checks and  *)
(* records frames in steps of its own, and a chip acts on what it hears.    *)
(* Two kinds of chip: a battery node listens for a JOIN_ACCEPT after its    *)
(* JOIN only, and obeys the command a NACK carries; an always-on node hears *)
(* what is sent to its address, and takes no notice of a NACK.              *)
(*                                                                         *)
(* Left out: labels, types and capabilities; rows without a factory id and  *)
(* nodes of the first generation; errors of the database.  A request that   *)
(* is refused changes nothing and is not a step.                            *)
(***************************************************************************)
EXTENDS Naturals, Sequences, FiniteSets

CONSTANTS
    Chips,            \* factory ids
    NoChip,
    AlwaysOn,         \* chips of always-on nodes
    addrPoolFirst,    \* the pool of RF addresses, 0x10..0xEF
    addrPoolLast,
    PENDING_MAX,      \* entries of the CC1310's table (8)
    Handlers,         \* bound: HTTP requests in progress at the same time
    MaxNodes,         \* bound: node ids ever given (AUTOINCREMENT)
    MaxRequests,      \* bound: requests started
    MaxJoins,         \* bound: times JOIN is pressed
    MaxUp,            \* bound: frames on their way from the CC1310 to the drain
    MaxDown,          \* bound: commands on their way from Linux to the CC1310
    MaxFaults,        \* bound: commands and rule pushes that fail
    MaxRestarts       \* bound: restarts of the service, or of the gateway

ASSUME RegistryAssumption ==
    /\ NoChip \notin Chips /\ AlwaysOn \subseteq Chips /\ IsFiniteSet(Handlers)
    /\ addrPoolFirst \in Nat \ {0} /\ addrPoolLast \in Nat /\ addrPoolLast < 255
    /\ PENDING_MAX \in Nat /\ MaxNodes \in Nat /\ MaxRequests \in Nat
    /\ MaxJoins \in Nat /\ MaxUp \in Nat /\ MaxDown \in Nat /\ MaxFaults \in Nat /\ MaxRestarts \in Nat

VARIABLES
    row,        \* per node id: its row of the table node
    nextId,     \* the next node id
    joins,      \* joinRegistry: chips awaiting approval
    handler,    \* per request: where it stands
    drain,      \* the event drain
    serving,    \* the HTTP API is up
    engine,     \* per node: the address the rules in the M4F name it by, 0 if none
    up,         \* frames on their way to the drain
    down,       \* commands on their way to the CC1310
    armed,      \* gPending: chips to be NACKed with UNREGISTERED
    own,        \* per chip: gNodeAddress
    window,     \* battery chips listening for a JOIN_ACCEPT
    nacked,     \* battery chips that heard a NACK and have not cleared yet
    requests, presses, faults, restarts

dbVars    == <<row, nextId>>
goVars    == <<joins, handler, drain, serving, requests>>
pipeVars  == <<up, down>>
chipVars  == <<own, window, nacked, presses>>
boundVars == <<faults, restarts>>
vars == <<dbVars, goVars, engine, pipeVars, armed, chipVars, boundVars>>

Unprovisioned == 255
NodeIds == 1..MaxNodes
Pool    == addrPoolFirst..addrPoolLast

\* A row; address 0 is NULL.
NoRow == [st |-> "none", addr |-> 0, chip |-> NoChip, status |-> "none"]
Bound(a, c) == [st |-> "live", addr |-> a, chip |-> c, status |-> "pending_join"]

Live == {n \in NodeIds : row[n].st = "live"}
Holders(a) == {n \in NodeIds : a # 0 /\ row[n].addr = a}
BoundTo(c) == {n \in Live : row[n].chip = c}

\* ux_node_factory covers the rows in the trash too.
Taken(c, except) == \E n \in NodeIds \ except : row[n].chip = c

\* (mutant) a node awaiting its first frame does not hold its address
FreeAddrs_ActiveOnly == {a \in Pool : \A n \in Holders(a) : row[n].status # "active"}
FreeAddrs == {a \in Pool : Holders(a) = {}}
allocAddr == CHOOSE a \in FreeAddrs : \A b \in FreeAddrs : a <= b

NoRules == [n \in NodeIds |-> 0]
Current == [n \in NodeIds |-> row[n].addr]

NoReq   == [pc |-> "idle", chip |-> NoChip, addr |-> 0, repush |-> FALSE, rules |-> NoRules]
NoDrain == [pc |-> "idle", chip |-> NoChip, addr |-> 0, confirms |-> FALSE]

Init ==
    /\ row = [n \in NodeIds |-> NoRow] /\ nextId = 1
    /\ joins = {} /\ handler = [h \in Handlers |-> NoReq] /\ drain = NoDrain
    /\ serving = FALSE /\ engine = NoRules
    /\ up = <<>> /\ down = <<>> /\ armed = {}
    /\ own = [c \in Chips |-> Unprovisioned] /\ window = {} /\ nacked = {}
    /\ requests = 0 /\ presses = 0 /\ faults = 0 /\ restarts = 0

-----------------------------------------------------------------------------
(* Requests: the transaction of a handler *)

Begin(h) ==
    /\ serving /\ handler[h] = NoReq
    /\ requests < MaxRequests /\ requests' = requests + 1

At(h, pc, c, a, repush) ==
    handler' = [handler EXCEPT ![h] = [pc |-> pc, chip |-> c, addr |-> a,
                                       repush |-> repush, rules |-> NoRules]]

dbOnly == <<joins, drain, serving, engine, pipeVars, armed, chipVars, boundVars>>

\* handleApproveJoin, ProvisionNode: a chip with a live row keeps its address (0 when
\* the row is detached); a new one gets the lowest free address.  The look into joinRegistry
\* and the transaction are one step: what happens between them changes neither.
ApproveKnown(h, c) ==
    /\ Begin(h) /\ c \in joins
    /\ \E n \in BoundTo(c) : At(h, "disarm", c, row[n].addr, FALSE)
    /\ UNCHANGED <<dbVars, dbOnly>>

ApproveNew(h, c) ==
    /\ Begin(h) /\ c \in joins
    /\ ~Taken(c, {}) /\ FreeAddrs # {} /\ nextId \in NodeIds
    /\ row' = [row EXCEPT ![nextId] = Bound(allocAddr, c)]
    /\ nextId' = nextId + 1
    /\ At(h, "disarm", c, allocAddr, FALSE)
    /\ UNCHANGED dbOnly

\* handleReplaceNode, ReplaceNode: the node at address a gets a new chip.
Replace(h, c, a) ==
    /\ Begin(h) /\ c \in joins
    /\ Holders(a) # {} /\ ~Taken(c, Holders(a))
    /\ row' = [n \in NodeIds |-> IF n \in Holders(a) THEN Bound(a, c) ELSE row[n]]
    /\ At(h, "disarm", c, a, FALSE)
    /\ UNCHANGED <<nextId, dbOnly>>

\* handleRepairNode, RepairNode: a detached node gets a chip and a fresh address.
Repair(h, c, n) ==
    /\ Begin(h) /\ c \in joins
    /\ n \in Live /\ row[n].status = "detached"
    /\ ~Taken(c, {n}) /\ FreeAddrs # {}
    /\ row' = [row EXCEPT ![n] = Bound(allocAddr, c)]
    /\ At(h, "disarm", c, allocAddr, TRUE)
    /\ UNCHANGED <<nextId, dbOnly>>

\* DeleteNodeByID
Trashed(r) == [r EXCEPT !.st = "trash", !.addr = 0]
DeleteNodeByID(n) ==
    row' = [row EXCEPT ![n] = IF @.st = "live" THEN Trashed(@) ELSE @]

\* (mutant) the row goes before the chip was told
Remove_DeletesFirst(h, a) ==
    /\ Begin(h)
    /\ \E n \in Holders(a) : DeleteNodeByID(n) /\ At(h, "unregister", row[n].chip, a, TRUE)
    /\ UNCHANGED <<nextId, dbOnly>>

\* handleRemoveNode by address reads the chip; nothing is deleted before it was told.
Remove(h, a) ==
    /\ Begin(h)
    /\ \E n \in Holders(a) : At(h, "unregister", row[n].chip, a, TRUE)
    /\ UNCHANGED <<dbVars, dbOnly>>

\* ... and by id, for a node that has no address; on a node that is gone it only pushes
\* the rules, like SetRules.
RemoveById(h, n) ==
    /\ Begin(h) /\ n \in Live
    /\ DeleteNodeByID(n)
    /\ At(h, "build", NoChip, 0, TRUE)
    /\ UNCHANGED <<nextId, dbOnly>>

\* handleRestoreNode
Restore(h, n) ==
    /\ Begin(h) /\ row[n].st = "trash"
    /\ row' = [row EXCEPT ![n].st = "live", ![n].status = "detached"]
    /\ UNCHANGED <<nextId, handler, dbOnly>>

\* handleRejectJoin
Reject(h, c) ==
    /\ Begin(h) /\ c \in joins
    /\ joins' = joins \ {c}
    /\ UNCHANGED <<dbVars, handler, drain, serving, engine, pipeVars, armed, chipVars,
                   boundVars>>

\* handleSetRules; a rule set names every node.
SetRules(h) ==
    /\ Begin(h)
    /\ At(h, "build", NoChip, 0, TRUE)
    /\ UNCHANGED <<dbVars, dbOnly>>

\* PurgeExpiredTrash: the id is not given again.
Purge(n) ==
    /\ row[n].st = "trash"
    /\ row' = [row EXCEPT ![n] = NoRow]
    /\ UNCHANGED <<nextId, goVars, engine, pipeVars, armed, chipVars, boundVars>>

-----------------------------------------------------------------------------
(* Requests: the commands, and the rules *)

\* (mutant) the full queue is not checked
SendDown_Unbounded(cmd, c, a, ok) ==
    /\ ok \/ faults < MaxFaults
    /\ faults' = IF ok THEN faults ELSE faults + 1
    /\ down' = IF ok THEN Append(down, [cmd |-> cmd, chip |-> c, addr |-> a]) ELSE down

\* A reliable command to the M4F: it fails, or it is queued for the CC1310, where a
\* full queue drops it silently.
SendDown(cmd, c, a, ok) ==
    /\ ok \/ faults < MaxFaults
    /\ faults' = IF ok THEN faults ELSE faults + 1
    /\ down' = IF ok /\ Len(down) < MaxDown
               THEN Append(down, [cmd |-> cmd, chip |-> c, addr |-> a]) ELSE down

Goto(h, pc) == handler' = [handler EXCEPT ![h].pc = pc]
Finish(h)   == handler' = [handler EXCEPT ![h] = NoReq]

sendOnly == <<dbVars, drain, serving, requests, engine, up, armed, chipVars, restarts>>

\* DisarmPending, whose error is ignored.
Disarm(h, ok) ==
    /\ handler[h].pc = "disarm"
    /\ SendDown("disarm", handler[h].chip, 0, ok)
    /\ Goto(h, "accept")
    /\ UNCHANGED <<joins, sendOnly>>

\* SendJoinAccept; an error ends the request and leaves the join pending.
Accept(h, ok) ==
    /\ handler[h].pc = "accept"
    /\ SendDown("accept", handler[h].chip, handler[h].addr, ok)
    /\ IF ok THEN Goto(h, "joined") ELSE Finish(h)
    /\ UNCHANGED <<joins, sendOnly>>

Joined(h) ==
    /\ handler[h].pc = "joined"
    /\ joins' = joins \ {handler[h].chip}
    /\ IF handler[h].repush THEN Goto(h, "build") ELSE Finish(h)
    /\ UNCHANGED <<sendOnly, down, faults>>

\* SendUnregister and ArmUnregister, whose errors are ignored.
Unregister(h, ok) ==
    /\ handler[h].pc = "unregister"
    /\ SendDown("unregister", handler[h].chip, handler[h].addr, ok)
    /\ Goto(h, "arm")
    /\ UNCHANGED <<joins, sendOnly>>

Arm(h, ok) ==
    /\ handler[h].pc = "arm"
    /\ SendDown("arm", handler[h].chip, 0, ok)
    /\ Goto(h, "delete")
    /\ UNCHANGED <<joins, sendOnly>>

\* (mutant) the rules are not pushed after a removal
Delete_NoRepush(h) ==
    /\ handler[h].pc = "delete"
    /\ \E n \in Holders(handler[h].addr) : DeleteNodeByID(n)
    /\ Finish(h)
    /\ UNCHANGED <<nextId, joins, drain, serving, requests, engine, pipeVars, armed,
                   chipVars, boundVars>>

\* DeleteNode: whoever has the address by now.
Delete(h) ==
    /\ handler[h].pc = "delete"
    /\ IF Holders(handler[h].addr) = {} THEN UNCHANGED row
       ELSE \E n \in Holders(handler[h].addr) : DeleteNodeByID(n)
    /\ Goto(h, "build")
    /\ UNCHANGED <<nextId, joins, drain, serving, requests, engine, pipeVars, armed,
                   chipVars, boundVars>>

\* repushRules: RulesForPush, then PushRules, whose error is only logged.
Build(h) ==
    /\ handler[h].pc = "build"
    /\ handler' = [handler EXCEPT ![h].pc = "push", ![h].rules = Current]
    /\ UNCHANGED <<joins, sendOnly, down, faults>>

Push(h, ok) ==
    /\ handler[h].pc = "push"
    /\ ok \/ faults < MaxFaults
    /\ faults' = IF ok THEN faults ELSE faults + 1
    /\ engine' = IF ok THEN handler[h].rules ELSE engine
    /\ Finish(h)
    /\ UNCHANGED <<dbVars, joins, drain, serving, requests, pipeVars, armed, chipVars,
                   restarts>>

-----------------------------------------------------------------------------
(* The drain *)

Take(f) == drain.pc = "idle" /\ up # <<>> /\ f = Head(up) /\ up' = Tail(up)

drainOnly == <<handler, serving, requests, engine, armed, chipVars, restarts>>

\* A JOIN; one of a chip whose node is active is ignored.
DrainJoin ==
    \E f \in {up[i] : i \in 1..Len(up)} :
        /\ Take(f) /\ f.kind = "join"
        /\ joins' = IF \E n \in BoundTo(f.chip) : row[n].status = "active"
                    THEN joins ELSE joins \cup {f.chip}
        /\ UNCHANGED <<dbVars, drain, drainOnly, down, faults>>

\* The confirm of a chip that cleared its address.
DrainConfirm(ok) ==
    \E f \in {up[i] : i \in 1..Len(up)} :
        /\ Take(f) /\ f.kind = "cleared"
        /\ SendDown("disarm", f.chip, 0, ok)
        /\ UNCHANGED <<dbVars, joins, drain, drainOnly>>

\* (mutant) the identity of the sender is not compared
Matches_AnyChip(f) == Holders(f.addr) # {}
Matches(f) == \E n \in Holders(f.addr) : row[n].chip = f.chip

\* Telemetry: NodeStatus and the check of the chip against the row.
DrainData ==
    \E f \in {up[i] : i \in 1..Len(up)} :
        /\ Take(f) /\ f.kind = "data"
        /\ drain' = [pc |-> IF Matches(f) THEN "record" ELSE "arm",
                     chip |-> f.chip, addr |-> f.addr,
                     confirms |-> \E n \in Holders(f.addr) : row[n].status = "pending_join"]
        /\ UNCHANGED <<dbVars, joins, drainOnly, down, faults>>

DrainArm(ok) ==
    /\ drain.pc = "arm"
    /\ SendDown("arm", drain.chip, 0, ok)
    /\ drain' = NoDrain
    /\ UNCHANGED <<dbVars, joins, drainOnly, up>>

\* RecordTelemetry, which fails without a row, and MarkActive, both by address.  One step:
\* a change between the two has the effect of the same change before them.
MarkActive ==
    /\ drain.pc = "record"
    /\ drain' = NoDrain
    /\ row' = [n \in NodeIds |->
                 IF drain.confirms /\ n \in Holders(drain.addr)
                    /\ row[n].status = "pending_join"
                 THEN [row[n] EXCEPT !.status = "active"] ELSE row[n]]
    /\ UNCHANGED <<nextId, joins, drainOnly, pipeVars, faults>>

-----------------------------------------------------------------------------
(* The CC1310 and the chips *)

\* The CC1310 takes a command.  A chip may miss what is sent to it.
Deliver(heard) ==
    LET m == Head(down)
        adopt == heard /\ m.cmd = "accept"
                 /\ IF m.chip \in AlwaysOn THEN own[m.chip] = Unprovisioned
                    ELSE m.chip \in window
        clear == heard /\ m.cmd = "unregister" /\ m.chip \in AlwaysOn /\ own[m.chip] = m.addr
    IN
    /\ down # <<>> /\ down' = Tail(down)
    /\ armed' = CASE m.cmd = "arm" /\ Cardinality(armed) < PENDING_MAX -> armed \cup {m.chip}
                  [] m.cmd = "disarm" -> armed \ {m.chip}
                  [] OTHER -> armed
    /\ own' = IF adopt THEN [own EXCEPT ![m.chip] = m.addr]
              ELSE IF clear THEN [own EXCEPT ![m.chip] = Unprovisioned] ELSE own
    /\ window' = IF adopt THEN window \ {m.chip} ELSE window
    /\ UNCHANGED <<dbVars, goVars, engine, up, nacked, presses, boundVars>>

Uplink(kind, c, ok) ==
    up' = IF ok /\ Len(up) < MaxUp
          THEN Append(up, [kind |-> kind, chip |-> c, addr |-> own[c]]) ELSE up

chipOnly == <<dbVars, goVars, engine, down, boundVars>>

\* JOIN is pressed; a battery chip then listens for a minute.
Join(c, ok) ==
    /\ c \notin window /\ c \notin nacked
    /\ presses < MaxJoins /\ presses' = presses + 1
    /\ Uplink("join", c, ok)
    /\ window' = IF c \in AlwaysOn THEN window ELSE window \cup {c}
    /\ UNCHANGED <<chipOnly, armed, own, nacked>>

WindowEnd(c) ==
    /\ c \in window
    /\ window' = window \ {c}
    /\ UNCHANGED <<chipOnly, up, armed, own, nacked, presses>>

\* A chip with an address reports.  The CC1310 answers an armed chip with a NACK, which
\* the chip may miss, and forwards the frame all the same.
Report(c, ok, heard) ==
    /\ own[c] # Unprovisioned /\ c \notin window /\ c \notin nacked
    /\ Uplink("data", c, ok)
    /\ nacked' = IF heard /\ c \in armed \ AlwaysOn THEN nacked \cup {c} ELSE nacked
    /\ UNCHANGED <<chipOnly, armed, own, window, presses>>

\* The confirm clears the entry; the chip drops its address whether it is heard or not.
Clear(c, ok) ==
    /\ c \in nacked
    /\ Uplink("cleared", c, ok)
    /\ armed' = IF ok THEN armed \ {c} ELSE armed
    /\ own' = [own EXCEPT ![c] = Unprovisioned]
    /\ nacked' = nacked \ {c}
    /\ UNCHANGED <<chipOnly, window, presses>>

\* A chip starts again; identity_init takes an address of the pool only.
PowerCycle(c) ==
    /\ own' = [own EXCEPT ![c] = IF @ \in Pool THEN @ ELSE Unprovisioned]
    /\ window' = window \ {c} /\ nacked' = nacked \ {c}
    /\ UNCHANGED <<chipOnly, up, armed, presses>>

-----------------------------------------------------------------------------
(* Restarts *)

\* The service dies, or with it the whole gateway.
Restart(all) ==
    /\ restarts < MaxRestarts /\ restarts' = restarts + 1
    /\ joins' = {} /\ handler' = [h \in Handlers |-> NoReq] /\ drain' = NoDrain
    /\ serving' = FALSE
    /\ IF all THEN engine' = NoRules /\ up' = <<>> /\ down' = <<>> /\ armed' = {}
       ELSE UNCHANGED <<engine, pipeVars, armed>>
    /\ UNCHANGED <<dbVars, chipVars, requests, faults>>

\* The rules are pushed before the HTTP API starts.
Serve(ok) ==
    /\ ~serving /\ serving' = TRUE
    /\ ok \/ faults < MaxFaults
    /\ faults' = IF ok THEN faults ELSE faults + 1
    /\ engine' = IF ok THEN Current ELSE engine
    /\ UNCHANGED <<dbVars, joins, handler, drain, requests, pipeVars, armed, chipVars,
                   restarts>>

-----------------------------------------------------------------------------
Transaction(h) ==
    \/ \E c \in Chips : ApproveKnown(h, c) \/ ApproveNew(h, c) \/ Reject(h, c)
    \/ \E c \in Chips, a \in Pool : Replace(h, c, a)
    \/ \E c \in Chips, n \in NodeIds : Repair(h, c, n)
    \/ \E a \in Pool : Remove(h, a)
    \/ \E n \in NodeIds : RemoveById(h, n) \/ Restore(h, n)
    \/ SetRules(h)
Continue(h) ==
    \/ \E ok \in BOOLEAN : Disarm(h, ok) \/ Accept(h, ok) \/ Unregister(h, ok) \/ Arm(h, ok)
                           \/ Push(h, ok)
    \/ Joined(h) \/ Delete(h) \/ Build(h)
Drain ==
    \/ DrainJoin \/ DrainData \/ MarkActive
    \/ \E ok \in BOOLEAN : DrainConfirm(ok) \/ DrainArm(ok)
Radio == \E heard \in BOOLEAN : Deliver(heard)
Chip(c) ==
    \/ \E ok \in BOOLEAN : Join(c, ok) \/ Clear(c, ok)
    \/ \E ok, heard \in BOOLEAN : Report(c, ok, heard)
    \/ WindowEnd(c) \/ PowerCycle(c)

Next ==
    \/ \E h \in Handlers : Transaction(h) \/ Continue(h)
    \/ \E n \in NodeIds : Purge(n)
    \/ Drain \/ Radio
    \/ \E c \in Chips : Chip(c)
    \/ \E all \in BOOLEAN : Restart(all)
    \/ \E ok \in BOOLEAN : Serve(ok)

Spec == Init /\ [][Next]_vars

\* Fairness for Silenced.  The service, the pipe and the drain run.  A battery chip wakes
\* again and again: not every report of it is lost, nor every arming of it dropped, nor
\* is it switched off whenever it is about to clear its address.
Fairness ==
    /\ \A h \in Handlers : WF_vars(Continue(h))
    /\ WF_vars(Drain) /\ WF_vars(Radio) /\ WF_vars(\E ok \in BOOLEAN : Serve(ok))
    /\ \A c \in Chips :
         /\ WF_vars(WindowEnd(c))
         /\ SF_vars(Report(c, TRUE, TRUE) /\ up' # up)
         /\ SF_vars(DrainArm(TRUE) /\ drain.chip = c /\ down' # down)
         /\ SF_vars(\E ok \in BOOLEAN : Clear(c, ok))

FairSpec == Spec /\ Fairness

-----------------------------------------------------------------------------
(* Properties *)

Addrs == Pool \cup {0}
RowRec == {NoRow} \cup
          [st : {"live", "trash"}, addr : Addrs, chip : Chips,
           status : {"pending_join", "active", "detached"}]
ReqRec == [pc : {"idle", "disarm", "accept", "joined", "unregister", "arm", "delete",
                 "build", "push"},
           chip : Chips \cup {NoChip}, addr : Addrs, repush : BOOLEAN,
           rules : [NodeIds -> Addrs]]
DrainRec == [pc : {"idle", "record", "arm"}, chip : Chips \cup {NoChip}, addr : Nat,
             confirms : BOOLEAN]
UpMsg   == [kind : {"join", "data", "cleared"}, chip : Chips, addr : Nat]
DownMsg == [cmd : {"arm", "disarm", "accept", "unregister"}, chip : Chips, addr : Addrs]

\* Rows, frames and commands name chips and addresses that exist.
TypeOK ==
    /\ row \in [NodeIds -> RowRec] /\ nextId \in 1..MaxNodes + 1
    /\ joins \subseteq Chips /\ serving \in BOOLEAN
    /\ handler \in [Handlers -> ReqRec]
    /\ \A h \in Handlers : handler[h].pc \notin {"idle", "build", "push"} =>
                               handler[h].chip # NoChip
    /\ drain \in DrainRec /\ (drain.pc = "arm" => drain.chip # NoChip)
    /\ engine \in [NodeIds -> Addrs]
    /\ up \in Seq(UpMsg) /\ Len(up) <= MaxUp
    /\ down \in Seq(DownMsg) /\ Len(down) <= MaxDown
    /\ armed \subseteq Chips /\ window \subseteq Chips /\ nacked \subseteq Chips
    /\ own \in [Chips -> Addrs \cup {Unprovisioned}]
    /\ requests \in 0..MaxRequests /\ presses \in 0..MaxJoins
    /\ faults \in 0..MaxFaults /\ restarts \in 0..MaxRestarts

\* No two nodes ever have the same address, so the unique index on it never rejects
\* anything.  (The model has no such index.)
OneOwner ==
    \A m, n \in NodeIds : row[m].addr # 0 /\ row[m].addr = row[n].addr => m = n

\* A node has an address exactly if it is live and not detached: the trash holds no
\* address, and no live node is left without one that nobody can repair.
RowShape == \A n \in NodeIds :
    row[n].addr # 0 <=> row[n].st = "live" /\ row[n].status # "detached"

\* As long as requests do not overlap and every push arrives, no rule in the M4F names
\* an address that has gone to another node, across removals, restores and restarts.
\* (Rules drive a node by its address alone.)
RuleNamesOwner ==
    Cardinality(Handlers) = 1 /\ faults = 0 =>
        \A m, n \in NodeIds : engine[n] # 0 /\ m # n => row[m].addr # engine[n]

\* As long as requests do not overlap, a removal deletes the node whose chip it told.
RemovesWhatItTold ==
    Cardinality(Handlers) = 1 =>
        \A h \in Handlers : handler[h].pc \in {"unregister", "arm", "delete"} =>
            \E n \in Holders(handler[h].addr) : row[n].chip = handler[h].chip

\* A battery chip that is not registered under the address it uses falls silent, or is
\* registered again, whatever was lost and whoever restarted, as long as the table of the
\* CC1310 has room for every chip.  (An always-on node takes no notice of a NACK, so its
\* entry may stay in the table for ever.)
Silenced ==
    PENDING_MAX >= Cardinality(Chips) => \A c \in Chips \ AlwaysOn :
        []<>(own[c] = Unprovisioned \/ \E n \in Holders(own[c]) : row[n].chip = c)
==============================================================================
