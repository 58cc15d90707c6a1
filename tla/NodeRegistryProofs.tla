-------------------------- MODULE NodeRegistryProofs --------------------------
(* Theorems about NodeRegistry and their proofs. *)
EXTENDS NodeRegistry, FiniteSetTheorems, WellFoundedInduction, TLAPS

-----------------------------------------------------------------------------
(* Addresses and rows *)

Below == {ss \in Nat \X Nat : ss[1] < ss[2]}

\* A non-empty set of naturals has a least element.
LEMMA LeastNat ==
    ASSUME NEW S \in SUBSET Nat, S # {}
    PROVE  \E i \in S : \A j \in S : i <= j
<1>1. IsWellFoundedOn(Below, Nat)
  BY NatLessThanWellFounded DEF OpToRel, Below
<1>2. PICK i \in S : \A j \in S : ~ (<<j, i>> \in Below)
  BY <1>1, WFMin
<1>3. ASSUME NEW j \in S PROVE i <= j
  <2>1. <<j, i>> \in Nat \X Nat
    OBVIOUS
  <2>2. ~ (<<j, i>> \in Below)
    BY <1>2
  <2>3. ~ (j < i)
    BY <2>1, <2>2 DEF Below
  <2> QED
    BY <2>3
<1> QED
  BY <1>3

\* Every address of the pool is a natural number, none is 0 or Unprovisioned.
LEMMA PoolNat ==
    /\ Pool \subseteq Nat /\ Addrs \subseteq Nat /\ Pool \subseteq Addrs
    /\ 0 \notin Pool /\ 0 \in Addrs /\ Unprovisioned \notin Addrs
  BY RegistryAssumption DEF Pool, Addrs, Unprovisioned

\* allocAddr returns a free address of the pool when there is one.
LEMMA AllocFree ==
    ASSUME FreeAddrs # {}
    PROVE  allocAddr \in FreeAddrs /\ allocAddr \in Pool
<1>1. FreeAddrs \in SUBSET Nat
  BY PoolNat DEF FreeAddrs
<1>2. \E a \in FreeAddrs : \A b \in FreeAddrs : a <= b
  BY <1>1, LeastNat
<1>3. allocAddr \in FreeAddrs
  BY <1>2, Zenon DEF allocAddr
<1> QED
  BY <1>3 DEF FreeAddrs

\* Nobody has a free address.
LEMMA FreeIsFree ==
    ASSUME NEW a \in FreeAddrs, NEW n \in NodeIds
    PROVE  row[n].addr # a
  BY PoolNat DEF FreeAddrs, Holders

\* A bound row is a row.
LEMMA BoundRow ==
    ASSUME NEW a \in Pool, NEW c \in Chips
    PROVE  /\ Bound(a, c) \in RowRec
           /\ Bound(a, c).addr = a /\ Bound(a, c).addr # 0 /\ Bound(a, c).chip = c
           /\ Bound(a, c).st = "live" /\ Bound(a, c).status = "pending_join"
  BY PoolNat DEF Bound, RowRec

\* The fields of a row.
LEMMA RowFields ==
    ASSUME NEW r \in RowRec
    PROVE  /\ r.addr \in Addrs /\ r.st \in {"none", "live", "trash"}
           /\ r.chip \in Chips \cup {NoChip}
           /\ r.st # "none" => r \in [st : {"live", "trash"}, addr : Addrs, chip : Chips,
                                      status : {"pending_join", "active", "detached"}]
           /\ r.addr # 0 => r.st # "none"
           /\ r.st = "none" => r = NoRow
           /\ r.status = "pending_join" => r.st # "none"
  BY PoolNat DEF RowRec, NoRow

\* A row in the trash, a restored one, a confirmed one.
LEMMA RowUpdates ==
    ASSUME NEW r \in RowRec, r.st # "none"
    PROVE  /\ Trashed(r) \in RowRec /\ Trashed(r).addr = 0 /\ Trashed(r).st = "trash"
           /\ Trashed(r).chip = r.chip
           /\ [r EXCEPT !.st = "live", !.status = "detached"] \in RowRec
           /\ [r EXCEPT !.status = "active"] \in RowRec
  BY RowFields, PoolNat DEF Trashed, RowRec

-----------------------------------------------------------------------------
(* The parts of TypeOK *)

Pcs      == {"idle", "disarm", "accept", "joined", "unregister", "arm", "delete", "build",
             "push"}
Chipless == {"idle", "build", "push"}

RowOK == row \in [NodeIds -> RowRec] /\ nextId \in 1..MaxNodes + 1
GoOK  == joins \subseteq Chips /\ serving \in BOOLEAN /\ requests \in 0..MaxRequests
HandlerOK ==
    /\ handler \in [Handlers -> ReqRec]
    /\ \A h \in Handlers : handler[h].pc \notin Chipless => handler[h].chip # NoChip
DrainOK  == drain \in DrainRec /\ (drain.pc = "arm" => drain.chip # NoChip)
EngineOK == engine \in [NodeIds -> Addrs]
UpOK     == up \in Seq(UpMsg) /\ Len(up) <= MaxUp
DownOK   == down \in Seq(DownMsg) /\ Len(down) <= MaxDown
ChipsOK  ==
    /\ armed \subseteq Chips /\ window \subseteq Chips /\ nacked \subseteq Chips
    /\ own \in [Chips -> Addrs \cup {Unprovisioned}] /\ presses \in 0..MaxJoins
BoundsOK == faults \in 0..MaxFaults /\ restarts \in 0..MaxRestarts

\* TypeOK is their conjunction.
LEMMA TypeParts ==
    TypeOK <=> /\ RowOK /\ GoOK /\ HandlerOK /\ DrainOK /\ EngineOK /\ UpOK /\ DownOK
               /\ ChipsOK /\ BoundsOK
  BY DEF TypeOK, RowOK, GoOK, HandlerOK, DrainOK, EngineOK, UpOK, DownOK, ChipsOK, BoundsOK,
         Chipless

\* The next value of a part.
LEMMA TypeParts2 ==
    ASSUME RowOK', GoOK', HandlerOK', DrainOK', EngineOK', UpOK', DownOK', ChipsOK', BoundsOK'
    PROVE  TypeOK'
  BY DEF TypeOK, RowOK, GoOK, HandlerOK, DrainOK, EngineOK, UpOK, DownOK, ChipsOK, BoundsOK,
         Chipless

\* A part whose variables stay keeps its type.
LEMMA KeepRow     == RowOK /\ UNCHANGED dbVars => RowOK'
  BY DEF RowOK, dbVars
LEMMA KeepGo      == GoOK /\ UNCHANGED <<joins, serving, requests>> => GoOK'
  BY DEF GoOK
LEMMA KeepHandler == HandlerOK /\ UNCHANGED handler => HandlerOK'
  BY DEF HandlerOK
LEMMA KeepDrain   == DrainOK /\ UNCHANGED drain => DrainOK'
  BY DEF DrainOK
LEMMA KeepEngine  == EngineOK /\ UNCHANGED engine => EngineOK'
  BY DEF EngineOK
LEMMA KeepUp      == UpOK /\ UNCHANGED up => UpOK'
  BY DEF UpOK
LEMMA KeepDown    == DownOK /\ UNCHANGED down => DownOK'
  BY DEF DownOK
LEMMA KeepChips   == ChipsOK /\ UNCHANGED <<armed, chipVars>> => ChipsOK'
  BY DEF ChipsOK, chipVars
LEMMA KeepBounds  == BoundsOK /\ UNCHANGED boundVars => BoundsOK'
  BY DEF BoundsOK, boundVars

-----------------------------------------------------------------------------
(* The helpers of the actions *)

\* The rules name addresses.
LEMMA RulesType == NoRules \in [NodeIds -> Addrs] /\ (RowOK => Current \in [NodeIds -> Addrs])
  BY PoolNat, RowFields DEF NoRules, Current, RowOK

\* A request that starts, goes on, ends.
LEMMA AtType ==
    ASSUME HandlerOK, NEW h \in Handlers, NEW pc \in Pcs, NEW c \in Chips \cup {NoChip},
           NEW a \in Addrs, NEW repush \in BOOLEAN, pc \in Chipless \/ c # NoChip,
           At(h, pc, c, a, repush)
    PROVE  HandlerOK'
<1> DEFINE r == [pc |-> pc, chip |-> c, addr |-> a, repush |-> repush, rules |-> NoRules]
<1>1. r \in ReqRec /\ r.pc = pc /\ r.chip = c
  BY RulesType DEF ReqRec, Pcs
<1>2. handler' = [handler EXCEPT ![h] = r]
  BY DEF At
<1> HIDE DEF r
<1> QED
  BY <1>1, <1>2 DEF HandlerOK

LEMMA GotoType ==
    ASSUME HandlerOK, NEW h \in Handlers, NEW pc \in Pcs,
           pc \in Chipless \/ handler[h].pc \notin Chipless, Goto(h, pc)
    PROVE  HandlerOK'
<1> DEFINE r == [handler[h] EXCEPT !.pc = pc]
<1>1. r \in ReqRec /\ r.pc = pc /\ r.chip = handler[h].chip
  BY DEF HandlerOK, ReqRec, Pcs
<1>2. handler' = [handler EXCEPT ![h] = r]
  BY DEF Goto
<1> HIDE DEF r
<1> QED
  BY <1>1, <1>2 DEF HandlerOK

LEMMA FinishType ==
    ASSUME HandlerOK, NEW h \in Handlers, Finish(h)
    PROVE  HandlerOK'
<1>1. NoReq \in ReqRec /\ NoReq.pc \in Chipless
  BY RulesType, PoolNat DEF NoReq, ReqRec, Chipless
<1> QED
  BY <1>1 DEF HandlerOK, Finish

\* A request that is past its transaction carries a chip and an address.
LEMMA ReqFields ==
    ASSUME HandlerOK, NEW h \in Handlers
    PROVE  /\ handler[h] \in ReqRec /\ handler[h].addr \in Addrs
           /\ handler[h].repush \in BOOLEAN /\ handler[h].rules \in [NodeIds -> Addrs]
           /\ handler[h].pc \notin Chipless => handler[h].chip \in Chips
  BY DEF HandlerOK, ReqRec

\* The pipes stay bounded sequences of messages.
LEMMA SendType ==
    ASSUME DownOK, BoundsOK, NEW cmd \in {"arm", "disarm", "accept", "unregister"},
           NEW c \in Chips, NEW a \in Addrs, NEW ok \in BOOLEAN, SendDown(cmd, c, a, ok),
           UNCHANGED restarts
    PROVE  DownOK' /\ BoundsOK'
<1>1. [cmd |-> cmd, chip |-> c, addr |-> a] \in DownMsg
  BY DEF DownMsg
<1>2. BoundsOK'
  BY RegistryAssumption DEF SendDown, BoundsOK
<1>3. DownOK'
  BY <1>1, RegistryAssumption DEF SendDown, DownOK
<1> QED
  BY <1>2, <1>3

LEMMA UplinkType ==
    ASSUME UpOK, ChipsOK, NEW kind \in {"join", "data", "cleared"}, NEW c \in Chips,
           NEW ok \in BOOLEAN, Uplink(kind, c, ok)
    PROVE  UpOK'
<1>1. Unprovisioned \in Nat
  BY DEF Unprovisioned
<1>2. own[c] \in Nat
  BY <1>1, PoolNat DEF ChipsOK
<1>3. [kind |-> kind, chip |-> c, addr |-> own[c]] \in UpMsg
  BY <1>2 DEF UpMsg
<1> QED
  BY <1>3, RegistryAssumption DEF Uplink, UpOK

\* What the drain takes is a frame, and the queue gets shorter.
LEMMA TakeType ==
    ASSUME UpOK, NEW f, Take(f)
    PROVE  f \in UpMsg /\ UpOK' /\ f.chip \in Chips /\ f.addr \in Nat
<1>1. f \in UpMsg /\ UpOK'
  BY RegistryAssumption DEF UpOK, Take
<1> QED
  BY <1>1 DEF UpMsg

-----------------------------------------------------------------------------
(* Type correctness *)

LEMMA TypeInit == Init => TypeOK
<1> SUFFICES ASSUME Init PROVE TypeOK
  OBVIOUS
<1>1. RowOK
  BY RegistryAssumption DEF Init, RowOK, RowRec, NodeIds
<1>2. HandlerOK
  BY RulesType, PoolNat DEF Init, HandlerOK, NoReq, ReqRec, Chipless
<1>3. DrainOK
  BY DEF Init, DrainOK, NoDrain, DrainRec
<1>4. EngineOK
  BY RulesType DEF Init, EngineOK
<1>5. GoOK
  <2>1. serving \in BOOLEAN
    BY Zenon DEF Init
  <2> QED
    BY <2>1, RegistryAssumption DEF Init, GoOK
<1>8. UpOK /\ DownOK
  BY RegistryAssumption DEF Init, UpOK, DownOK
<1>6. ChipsOK
  BY RegistryAssumption DEF Init, ChipsOK
<1>7. BoundsOK
  BY RegistryAssumption DEF Init, BoundsOK
<1> QED
  BY <1>1, <1>2, <1>3, <1>4, <1>5, <1>6, <1>7, <1>8, TypeParts

\* A request that starts.
LEMMA TransactionType ==
    ASSUME TypeOK, NEW h \in Handlers, Transaction(h)
    PROVE  TypeOK'
<1>0. /\ RowOK /\ GoOK /\ HandlerOK /\ DrainOK /\ EngineOK /\ UpOK /\ DownOK /\ ChipsOK
      /\ BoundsOK
  BY TypeParts
<1> DEFINE AllKept == /\ UNCHANGED <<serving, drain, engine, up, down, armed, chipVars, boundVars>>
                      /\ Begin(h)
<1>1. ASSUME AllKept, joins' \subseteq Chips, RowOK', HandlerOK' PROVE TypeOK'
  <2>1. GoOK'
    BY <1>0, <1>1, RegistryAssumption DEF GoOK, Begin
  <2>2. DrainOK' /\ EngineOK' /\ UpOK' /\ DownOK'
    BY <1>0, <1>1, KeepDrain, KeepEngine, KeepUp, KeepDown
  <2>3. ChipsOK' /\ BoundsOK'
    BY <1>0, <1>1, KeepChips, KeepBounds
  <2> QED
    BY <1>1, <2>1, <2>2, <2>3, TypeParts2
<1>2. joins \subseteq Chips
  BY <1>0 DEF GoOK
<1>3. ASSUME UNCHANGED dbOnly, Begin(h) PROVE AllKept /\ joins' \subseteq Chips
  BY <1>2, <1>3 DEF dbOnly, pipeVars
<1> HIDE DEF AllKept
<1>4. ASSUME NEW c \in Chips, ApproveKnown(h, c) PROVE TypeOK'
  <2>1. PICK n \in BoundTo(c) : At(h, "disarm", c, row[n].addr, FALSE)
    BY <1>4 DEF ApproveKnown
  <2>2. row[n].addr \in Addrs
    BY <1>0, RowFields DEF RowOK, BoundTo, Live
  <2>3. HandlerOK'
    BY <1>0, <2>1, <2>2, AtType, RegistryAssumption DEF Pcs
  <2>4. UNCHANGED dbVars /\ UNCHANGED dbOnly /\ Begin(h)
    BY <1>4 DEF ApproveKnown
  <2> QED
    BY <1>0, <1>1, <1>3, <2>3, <2>4, KeepRow
<1>5. ASSUME NEW c \in Chips, ApproveNew(h, c) PROVE TypeOK'
  <2>1. allocAddr \in Pool
    BY <1>5, AllocFree DEF ApproveNew
  <2>2. HandlerOK'
    BY <1>0, <1>5, <2>1, AtType, PoolNat, RegistryAssumption DEF ApproveNew, Pcs
  <2>3. row' = [row EXCEPT ![nextId] = Bound(allocAddr, c)] /\ nextId \in NodeIds
        /\ nextId' = nextId + 1
    BY <1>5 DEF ApproveNew
  <2>4. RowOK'
    BY <1>0, <2>1, <2>3, BoundRow, RegistryAssumption DEF RowOK, NodeIds
  <2>5. UNCHANGED dbOnly /\ Begin(h)
    BY <1>5 DEF ApproveNew
  <2> QED
    BY <1>1, <1>3, <2>2, <2>4, <2>5
<1>6. ASSUME NEW c \in Chips, Reject(h, c) PROVE TypeOK'
  <2>1. AllKept /\ UNCHANGED dbVars /\ UNCHANGED handler
    BY <1>6 DEF AllKept, Reject, pipeVars
  <2>2. joins' \subseteq Chips
    BY <1>2, <1>6 DEF Reject
  <2> QED
    BY <1>0, <1>1, <2>1, <2>2, KeepRow, KeepHandler
<1>7. ASSUME NEW c \in Chips, NEW a \in Pool, Replace(h, c, a) PROVE TypeOK'
  <2>1. HandlerOK'
    BY <1>0, <1>7, AtType, PoolNat, RegistryAssumption DEF Replace, Pcs
  <2>2. /\ row' = [n \in NodeIds |-> IF n \in Holders(a) THEN Bound(a, c) ELSE row[n]]
        /\ nextId' = nextId
    BY <1>7 DEF Replace
  <2>3. RowOK'
    BY <1>0, <2>2, BoundRow DEF RowOK
  <2>4. UNCHANGED dbOnly /\ Begin(h)
    BY <1>7 DEF Replace
  <2> QED
    BY <1>1, <1>3, <2>1, <2>3, <2>4
<1>8. ASSUME NEW c \in Chips, NEW n \in NodeIds, Repair(h, c, n) PROVE TypeOK'
  <2>1. allocAddr \in Pool
    BY <1>8, AllocFree DEF Repair
  <2>2. HandlerOK'
    BY <1>0, <1>8, <2>1, AtType, PoolNat, RegistryAssumption DEF Repair, Pcs
  <2>3. row' = [row EXCEPT ![n] = Bound(allocAddr, c)] /\ nextId' = nextId
    BY <1>8 DEF Repair
  <2>4. RowOK'
    BY <1>0, <2>1, <2>3, BoundRow DEF RowOK
  <2>5. UNCHANGED dbOnly /\ Begin(h)
    BY <1>8 DEF Repair
  <2> QED
    BY <1>1, <1>3, <2>2, <2>4, <2>5
<1>9. ASSUME NEW a \in Pool, Remove(h, a) PROVE TypeOK'
  <2>1. PICK n \in Holders(a) : At(h, "unregister", row[n].chip, a, TRUE)
    BY <1>9 DEF Remove
  <2>2. row[n] \in RowRec /\ row[n].addr # 0
    BY <1>0, <2>1 DEF RowOK, Holders
  <2>3. row[n].chip \in Chips
    BY <2>2, RowFields
  <2>4. HandlerOK'
    BY <1>0, <2>1, <2>3, AtType, PoolNat, RegistryAssumption DEF Pcs
  <2>5. UNCHANGED dbVars /\ UNCHANGED dbOnly /\ Begin(h)
    BY <1>9 DEF Remove
  <2> QED
    BY <1>0, <1>1, <1>3, <2>4, <2>5, KeepRow
<1>10. ASSUME NEW n \in NodeIds, RemoveById(h, n) PROVE TypeOK'
  <2>1. HandlerOK'
    BY <1>0, <1>10, AtType, PoolNat DEF RemoveById, Pcs, Chipless
  <2>2. RowOK'
    BY <1>0, <1>10, RowUpdates DEF RemoveById, DeleteNodeByID, RowOK
  <2>3. UNCHANGED dbOnly /\ Begin(h)
    BY <1>10 DEF RemoveById
  <2> QED
    BY <1>1, <1>3, <2>1, <2>2, <2>3
<1>11. ASSUME NEW n \in NodeIds, Restore(h, n) PROVE TypeOK'
  <2>1. /\ row' = [row EXCEPT ![n] = [row[n] EXCEPT !.st = "live", !.status = "detached"]]
        /\ row[n].st = "trash" /\ nextId' = nextId /\ UNCHANGED handler
    BY <1>0, <1>11 DEF Restore, RowOK
  <2>2. RowOK'
    BY <1>0, <2>1, RowUpdates DEF RowOK
  <2>3. UNCHANGED dbOnly /\ Begin(h)
    BY <1>11 DEF Restore
  <2> QED
    BY <1>0, <1>1, <1>3, <2>1, <2>2, <2>3, KeepHandler
<1>12. ASSUME SetRules(h) PROVE TypeOK'
  <2>1. HandlerOK'
    BY <1>0, <1>12, AtType, PoolNat DEF SetRules, Pcs, Chipless
  <2>2. UNCHANGED dbVars /\ UNCHANGED dbOnly /\ Begin(h)
    BY <1>12 DEF SetRules
  <2> QED
    BY <1>0, <1>1, <1>3, <2>1, <2>2, KeepRow
<1> QED
  BY <1>4, <1>5, <1>6, <1>7, <1>8, <1>9, <1>10, <1>11, <1>12 DEF Transaction

\* A request that goes on.
LEMMA ContinueType ==
    ASSUME TypeOK, NEW h \in Handlers, Continue(h)
    PROVE  TypeOK'
<1>0. /\ RowOK /\ GoOK /\ HandlerOK /\ DrainOK /\ EngineOK /\ UpOK /\ DownOK /\ ChipsOK
      /\ BoundsOK
  BY TypeParts
<1>1. /\ handler[h].addr \in Addrs /\ handler[h].repush \in BOOLEAN
      /\ handler[h].rules \in [NodeIds -> Addrs]
      /\ handler[h].pc \notin Chipless => handler[h].chip \in Chips
  BY <1>0, ReqFields
<1>2. ASSUME UNCHANGED sendOnly, joins' \subseteq Chips, HandlerOK', DownOK', BoundsOK'
      PROVE  TypeOK'
  <2>1. RowOK' /\ DrainOK' /\ EngineOK' /\ UpOK' /\ ChipsOK'
    BY <1>0, <1>2, KeepRow, KeepDrain, KeepEngine, KeepUp, KeepChips DEF sendOnly
  <2>2. GoOK'
    BY <1>0, <1>2 DEF GoOK, sendOnly
  <2> QED
    BY <1>2, <2>1, <2>2, TypeParts2
<1>3. joins \subseteq Chips
  BY <1>0 DEF GoOK
<1>4. ASSUME NEW pc \in Pcs, NEW ok \in BOOLEAN, NEW a \in Addrs,
             NEW cmd \in {"arm", "disarm", "accept", "unregister"},
             handler[h].pc \notin Chipless, SendDown(cmd, handler[h].chip, a, ok),
             Goto(h, pc) \/ Finish(h), UNCHANGED <<joins, sendOnly>>
      PROVE  TypeOK'
  <2>1. DownOK' /\ BoundsOK'
    BY <1>0, <1>1, <1>4, SendType DEF sendOnly
  <2>2. HandlerOK'
    BY <1>0, <1>4, GotoType, FinishType
  <2> QED
    BY <1>2, <1>3, <1>4, <2>1, <2>2
<1>5. ASSUME NEW ok \in BOOLEAN, Disarm(h, ok) PROVE TypeOK'
  BY <1>4, <1>5, PoolNat DEF Disarm, Pcs, Chipless
<1>6. ASSUME NEW ok \in BOOLEAN, Accept(h, ok) PROVE TypeOK'
  BY <1>1, <1>4, <1>6 DEF Accept, Pcs, Chipless
<1>7. ASSUME NEW ok \in BOOLEAN, Unregister(h, ok) PROVE TypeOK'
  BY <1>1, <1>4, <1>7 DEF Unregister, Pcs, Chipless
<1>8. ASSUME NEW ok \in BOOLEAN, Arm(h, ok) PROVE TypeOK'
  BY <1>4, <1>8, PoolNat DEF Arm, Pcs, Chipless
<1>9. ASSUME Joined(h) PROVE TypeOK'
  <2>1. HandlerOK'
    BY <1>0, <1>9, GotoType, FinishType DEF Joined, Pcs, Chipless
  <2>2. DownOK' /\ BoundsOK'
    BY <1>0, <1>9, KeepDown, KeepBounds DEF Joined, boundVars, sendOnly
  <2>3. joins' \subseteq Chips /\ UNCHANGED sendOnly
    BY <1>3, <1>9 DEF Joined
  <2> QED
    BY <1>2, <2>1, <2>2, <2>3
<1>10. ASSUME Delete(h) PROVE TypeOK'
  <2>1. HandlerOK'
    BY <1>0, <1>10, GotoType DEF Delete, Pcs, Chipless
  <2>2. RowOK'
    <3>1. nextId' = nextId
      BY <1>10 DEF Delete
    <3>2. CASE UNCHANGED row
      BY <1>0, <3>1, <3>2 DEF RowOK
    <3>3. ASSUME NEW n \in Holders(handler[h].addr), DeleteNodeByID(n) PROVE RowOK'
      BY <1>0, <3>1, <3>3, RowUpdates DEF RowOK, DeleteNodeByID, Holders
    <3> QED
      BY <1>10, <3>2, <3>3 DEF Delete
  <2>3. GoOK' /\ DrainOK' /\ EngineOK'
    BY <1>0, <1>10, KeepGo, KeepDrain, KeepEngine DEF Delete
  <2>4. UpOK' /\ DownOK' /\ ChipsOK' /\ BoundsOK'
    BY <1>0, <1>10, KeepUp, KeepDown, KeepChips, KeepBounds DEF Delete, pipeVars
  <2> QED
    BY <2>1, <2>2, <2>3, <2>4, TypeParts2
<1>11. ASSUME Build(h) PROVE TypeOK'
  <2> DEFINE r == [handler[h] EXCEPT !.pc = "push", !.rules = Current]
  <2>1. r \in ReqRec /\ r.pc = "push"
    BY <1>0, RulesType, ReqFields DEF ReqRec
  <2>2. handler' = [handler EXCEPT ![h] = r]
    BY <1>0, <1>11 DEF Build, HandlerOK
  <2> HIDE DEF r
  <2>3. HandlerOK'
    BY <1>0, <2>1, <2>2 DEF HandlerOK, Chipless
  <2>4. UNCHANGED sendOnly /\ UNCHANGED joins /\ UNCHANGED down /\ UNCHANGED boundVars
    BY <1>11 DEF Build, boundVars, sendOnly
  <2> QED
    BY <1>0, <1>2, <1>3, <2>3, <2>4, KeepDown, KeepBounds
<1>12. ASSUME NEW ok \in BOOLEAN, Push(h, ok) PROVE TypeOK'
  <2>1. HandlerOK'
    BY <1>0, <1>12, FinishType DEF Push
  <2>2. EngineOK'
    BY <1>0, <1>1, <1>12 DEF Push, EngineOK
  <2>3. BoundsOK'
    BY <1>0, <1>12, RegistryAssumption DEF Push, BoundsOK
  <2>4. RowOK' /\ GoOK' /\ DrainOK'
    BY <1>0, <1>12, KeepRow, KeepGo, KeepDrain DEF Push
  <2>5. UpOK' /\ DownOK' /\ ChipsOK'
    BY <1>0, <1>12, KeepUp, KeepDown, KeepChips DEF Push, pipeVars
  <2> QED
    BY <2>1, <2>2, <2>3, <2>4, <2>5, TypeParts2
<1> QED
  BY <1>5, <1>6, <1>7, <1>8, <1>9, <1>10, <1>11, <1>12 DEF Continue

\* A step of the drain.
LEMMA DrainType ==
    ASSUME TypeOK, Drain
    PROVE  TypeOK'
<1>0. /\ RowOK /\ GoOK /\ HandlerOK /\ DrainOK /\ EngineOK /\ UpOK /\ DownOK /\ ChipsOK
      /\ BoundsOK
  BY TypeParts
<1>1. ASSUME UNCHANGED drainOnly, RowOK', joins' \subseteq Chips, DrainOK', UpOK', DownOK',
             BoundsOK'
      PROVE  TypeOK'
  <2>1. HandlerOK' /\ EngineOK' /\ ChipsOK'
    BY <1>0, <1>1, KeepHandler, KeepEngine, KeepChips DEF drainOnly
  <2>2. GoOK'
    BY <1>0, <1>1 DEF GoOK, drainOnly
  <2> QED
    BY <1>1, <2>1, <2>2, TypeParts2
<1>2. joins \subseteq Chips
  BY <1>0 DEF GoOK
<1>3. NoDrain \in DrainRec /\ NoDrain.pc = "idle"
  BY DEF NoDrain, DrainRec
<1>4. CASE DrainJoin
  <2>1. PICK f : Take(f) /\ (joins' = joins \/ joins' = joins \cup {f.chip})
    BY <1>4 DEF DrainJoin
  <2>2. joins' \subseteq Chips /\ UpOK'
    BY <1>0, <1>2, <2>1, TakeType
  <2>3. UNCHANGED drainOnly /\ UNCHANGED dbVars /\ UNCHANGED drain /\ UNCHANGED down
        /\ UNCHANGED boundVars
    BY <1>4 DEF DrainJoin, boundVars, drainOnly
  <2> QED
    BY <1>0, <1>1, <2>2, <2>3, KeepRow, KeepDrain, KeepDown, KeepBounds
<1>5. ASSUME NEW ok \in BOOLEAN, DrainConfirm(ok) PROVE TypeOK'
  <2>1. PICK f : Take(f) /\ SendDown("disarm", f.chip, 0, ok)
    BY <1>5 DEF DrainConfirm
  <2>2. UNCHANGED drainOnly /\ UNCHANGED dbVars /\ UNCHANGED drain /\ UNCHANGED joins
        /\ UNCHANGED restarts
    BY <1>5 DEF DrainConfirm, drainOnly
  <2>3. UpOK' /\ DownOK' /\ BoundsOK'
    BY <1>0, <2>1, <2>2, TakeType, SendType, PoolNat
  <2> QED
    BY <1>0, <1>1, <1>2, <2>2, <2>3, KeepRow, KeepDrain
<1>6. CASE DrainData
  <2>1. PICK f : /\ Take(f)
                 /\ drain' = [pc |-> IF Matches(f) THEN "record" ELSE "arm",
                              chip |-> f.chip, addr |-> f.addr,
                              confirms |-> \E n \in Holders(f.addr) :
                                               row[n].status = "pending_join"]
    BY <1>6 DEF DrainData
  <2>2. UpOK' /\ f.chip \in Chips /\ f.addr \in Nat
    BY <1>0, <2>1, TakeType
  <2>3. DrainOK'
    <3>1. /\ (IF Matches(f) THEN "record" ELSE "arm") \in {"record", "arm"}
          /\ (\E n \in Holders(f.addr) : row[n].status = "pending_join") \in BOOLEAN
      BY Zenon
    <3> QED
      BY <2>1, <2>2, <3>1, RegistryAssumption DEF DrainOK, DrainRec
  <2>4. UNCHANGED drainOnly /\ UNCHANGED dbVars /\ UNCHANGED joins /\ UNCHANGED down
        /\ UNCHANGED boundVars
    BY <1>6 DEF DrainData, boundVars, drainOnly
  <2> QED
    BY <1>0, <1>1, <1>2, <2>2, <2>3, <2>4, KeepRow, KeepDown, KeepBounds
<1>7. ASSUME NEW ok \in BOOLEAN, DrainArm(ok) PROVE TypeOK'
  <2>1. drain.chip \in Chips
    BY <1>0, <1>7 DEF DrainArm, DrainOK, DrainRec
  <2>2. /\ UNCHANGED drainOnly /\ UNCHANGED dbVars /\ UNCHANGED joins /\ UNCHANGED up
        /\ UNCHANGED restarts /\ drain' = NoDrain /\ SendDown("arm", drain.chip, 0, ok)
    BY <1>7 DEF DrainArm, drainOnly
  <2>3. DownOK' /\ BoundsOK' /\ DrainOK'
    BY <1>0, <1>3, <2>1, <2>2, SendType, PoolNat DEF DrainOK
  <2> QED
    BY <1>0, <1>1, <1>2, <2>2, <2>3, KeepRow, KeepUp
<1>8. CASE MarkActive
  <2>1. /\ UNCHANGED drainOnly /\ UNCHANGED nextId /\ UNCHANGED joins /\ UNCHANGED up
        /\ UNCHANGED down /\ UNCHANGED boundVars /\ drain' = NoDrain
    BY <1>8 DEF MarkActive, drainOnly, pipeVars, boundVars
  <2>2. RowOK'
    <3>1. \A n \in NodeIds : row[n].status = "pending_join" =>
              [row[n] EXCEPT !.status = "active"] \in RowRec
      BY <1>0, RowUpdates, RowFields DEF RowOK
    <3> QED
      BY <1>0, <1>8, <2>1, <3>1 DEF MarkActive, RowOK
  <2>3. DrainOK'
    BY <1>3, <2>1 DEF DrainOK
  <2> QED
    BY <1>0, <1>1, <1>2, <2>1, <2>2, <2>3, KeepUp, KeepDown, KeepBounds
<1> QED
  BY <1>4, <1>5, <1>6, <1>7, <1>8 DEF Drain

\* A step of the CC1310 or of a chip.
LEMMA RadioType ==
    ASSUME TypeOK, Radio \/ \E c \in Chips : Chip(c)
    PROVE  TypeOK'
<1>0. /\ RowOK /\ GoOK /\ HandlerOK /\ DrainOK /\ EngineOK /\ UpOK /\ DownOK /\ ChipsOK
      /\ BoundsOK
  BY TypeParts
<1>1. ASSUME UNCHANGED <<dbVars, goVars, engine, boundVars>>, UpOK', DownOK', ChipsOK'
      PROVE  TypeOK'
  <2>1. RowOK' /\ GoOK' /\ HandlerOK' /\ DrainOK'
    BY <1>0, <1>1, KeepRow, KeepGo, KeepHandler, KeepDrain DEF goVars
  <2>2. EngineOK' /\ BoundsOK'
    BY <1>0, <1>1, KeepEngine, KeepBounds
  <2> QED
    BY <1>1, <2>1, <2>2, TypeParts2
<1>2. ASSUME NEW heard \in BOOLEAN, Deliver(heard) PROVE TypeOK'
  <2> DEFINE m == Head(down)
  <2>1. down # <<>> /\ down' = Tail(down) /\ UNCHANGED up
    BY <1>2 DEF Deliver
  <2>2. m \in DownMsg /\ DownOK'
    BY <1>0, <2>1, RegistryAssumption DEF DownOK
  <2>3. m.chip \in Chips /\ m.addr \in Addrs
    BY <2>2 DEF DownMsg
  <2>4. armed' \subseteq Chips
    <3>1. armed' = armed \cup {m.chip} \/ armed' = armed \ {m.chip} \/ armed' = armed
      BY <1>2 DEF Deliver
    <3> QED
      BY <1>0, <2>3, <3>1 DEF ChipsOK
  <2>5. own' \in [Chips -> Addrs \cup {Unprovisioned}]
    <3>1. \/ own' = [own EXCEPT ![m.chip] = m.addr]
          \/ own' = [own EXCEPT ![m.chip] = Unprovisioned]
          \/ own' = own
      BY <1>2 DEF Deliver
    <3> QED
      BY <1>0, <2>3, <3>1 DEF ChipsOK
  <2>6. window' \subseteq Chips
    <3>1. window' = window \ {m.chip} \/ window' = window
      BY <1>2 DEF Deliver
    <3> QED
      BY <1>0, <3>1 DEF ChipsOK
  <2>7. UNCHANGED <<dbVars, goVars, engine, boundVars>> /\ UNCHANGED nacked
        /\ UNCHANGED presses
    BY <1>2 DEF Deliver
  <2> QED
    BY <1>0, <1>1, <2>1, <2>2, <2>4, <2>5, <2>6, <2>7, KeepUp DEF ChipsOK
<1>3. ASSUME NEW c \in Chips, Chip(c) PROVE TypeOK'
  <2>1. ASSUME UNCHANGED chipOnly, UpOK', ChipsOK' PROVE TypeOK'
    BY <1>0, <1>1, <2>1, KeepDown DEF chipOnly
  <2>2. ASSUME NEW ok \in BOOLEAN, Join(c, ok) PROVE TypeOK'
    <3>1. UpOK'
      BY <1>0, <2>2, UplinkType DEF Join
    <3>2. ChipsOK'
      BY <1>0, <2>2, RegistryAssumption DEF Join, ChipsOK
    <3> QED
      BY <2>1, <2>2, <3>1, <3>2 DEF Join
  <2>3. ASSUME NEW ok \in BOOLEAN, Clear(c, ok) PROVE TypeOK'
    <3>1. UpOK'
      BY <1>0, <2>3, UplinkType DEF Clear
    <3>2. ChipsOK'
      BY <1>0, <2>3 DEF Clear, ChipsOK
    <3> QED
      BY <2>1, <2>3, <3>1, <3>2 DEF Clear
  <2>4. ASSUME NEW ok \in BOOLEAN, NEW heard \in BOOLEAN, Report(c, ok, heard) PROVE TypeOK'
    <3>1. UpOK'
      BY <1>0, <2>4, UplinkType DEF Report
    <3>2. ChipsOK'
      BY <1>0, <2>4 DEF Report, ChipsOK
    <3> QED
      BY <2>1, <2>4, <3>1, <3>2 DEF Report
  <2>5. CASE WindowEnd(c)
    <3>1. ChipsOK'
      BY <1>0, <2>5 DEF WindowEnd, ChipsOK
    <3> QED
      BY <1>0, <2>1, <2>5, <3>1, KeepUp DEF WindowEnd
  <2>6. CASE PowerCycle(c)
    <3>1. ChipsOK'
      BY <1>0, <2>6, PoolNat DEF PowerCycle, ChipsOK
    <3> QED
      BY <1>0, <2>1, <2>6, <3>1, KeepUp DEF PowerCycle
  <2> QED
    BY <1>3, <2>2, <2>3, <2>4, <2>5, <2>6 DEF Chip
<1> QED
  BY <1>2, <1>3 DEF Radio

\* TypeOK is inductive.
LEMMA TypeStep == TypeOK /\ [Next]_vars => TypeOK'
<1> SUFFICES ASSUME TypeOK, [Next]_vars PROVE TypeOK'
  OBVIOUS
<1>0. /\ RowOK /\ GoOK /\ HandlerOK /\ DrainOK /\ EngineOK /\ UpOK /\ DownOK /\ ChipsOK
      /\ BoundsOK
  BY TypeParts
<1>1. ASSUME NEW h \in Handlers, Transaction(h) \/ Continue(h) PROVE TypeOK'
  BY <1>1, TransactionType, ContinueType
<1>2. ASSUME NEW n \in NodeIds, Purge(n) PROVE TypeOK'
  <2>1. RowOK'
    BY <1>0, <1>2 DEF Purge, RowOK, RowRec
  <2>2. GoOK' /\ HandlerOK' /\ DrainOK'
    BY <1>0, <1>2, KeepGo, KeepHandler, KeepDrain DEF Purge, goVars
  <2>3. EngineOK' /\ UpOK' /\ DownOK'
    BY <1>0, <1>2, KeepEngine, KeepUp, KeepDown DEF Purge, pipeVars
  <2>4. ChipsOK' /\ BoundsOK'
    BY <1>0, <1>2, KeepChips, KeepBounds DEF Purge
  <2> QED
    BY <2>1, <2>2, <2>3, <2>4, TypeParts2
<1>3. CASE Drain
  BY <1>3, DrainType
<1>4. CASE Radio \/ \E c \in Chips : Chip(c)
  BY <1>4, RadioType
<1>5. ASSUME NEW all \in BOOLEAN, Restart(all) PROVE TypeOK'
  <2>1. HandlerOK'
    <3>1. NoReq \in ReqRec /\ NoReq.pc \in Chipless
      BY RulesType, PoolNat DEF NoReq, ReqRec, Chipless
    <3> QED
      BY <1>5, <3>1 DEF Restart, HandlerOK
  <2>2. DrainOK'
    BY <1>5 DEF Restart, DrainOK, NoDrain, DrainRec
  <2>3. GoOK'
    <3>1. serving' \in BOOLEAN
      BY <1>5, Zenon DEF Restart
    <3> QED
      BY <1>0, <1>5, <3>1 DEF Restart, GoOK
  <2>4. EngineOK' /\ UpOK' /\ DownOK'
    <3>1. CASE all
      <4>1. engine' = NoRules /\ up' = <<>> /\ down' = <<>>
        BY <1>5, <3>1 DEF Restart
      <4> QED
        BY <4>1, RulesType, RegistryAssumption DEF EngineOK, UpOK, DownOK
    <3>2. CASE ~all
      BY <1>0, <1>5, <3>2, KeepEngine, KeepUp, KeepDown DEF Restart, pipeVars
    <3> QED
      BY <3>1, <3>2
  <2>5. ChipsOK'
    <3>1. armed' = {} \/ armed' = armed
      BY <1>5 DEF Restart
    <3> QED
      BY <1>0, <1>5, <3>1 DEF Restart, ChipsOK, chipVars
  <2>6. RowOK' /\ BoundsOK'
    BY <1>0, <1>5, KeepRow, RegistryAssumption DEF Restart, BoundsOK
  <2> QED
    BY <2>1, <2>2, <2>3, <2>4, <2>5, <2>6, TypeParts2
<1>6. ASSUME NEW ok \in BOOLEAN, Serve(ok) PROVE TypeOK'
  <2>1. GoOK'
    <3>1. serving' \in BOOLEAN
      BY <1>6, Zenon DEF Serve
    <3> QED
      BY <1>0, <1>6, <3>1 DEF Serve, GoOK
  <2>2. EngineOK'
    BY <1>0, <1>6, RulesType DEF Serve, EngineOK
  <2>3. BoundsOK'
    BY <1>0, <1>6, RegistryAssumption DEF Serve, BoundsOK
  <2>4. RowOK' /\ HandlerOK' /\ DrainOK'
    BY <1>0, <1>6, KeepRow, KeepHandler, KeepDrain DEF Serve
  <2>5. UpOK' /\ DownOK' /\ ChipsOK'
    BY <1>0, <1>6, KeepUp, KeepDown, KeepChips DEF Serve, pipeVars
  <2> QED
    BY <2>1, <2>2, <2>3, <2>4, <2>5, TypeParts2
<1>7. CASE UNCHANGED vars
  <2>1. RowOK' /\ GoOK' /\ HandlerOK' /\ DrainOK' /\ EngineOK'
    BY <1>0, <1>7, KeepRow, KeepGo, KeepHandler, KeepDrain, KeepEngine DEF vars, goVars
  <2>2. UpOK' /\ DownOK' /\ ChipsOK' /\ BoundsOK'
    BY <1>0, <1>7, KeepUp, KeepDown, KeepChips, KeepBounds DEF vars, pipeVars
  <2> QED
    BY <2>1, <2>2, TypeParts2
<1> QED
  BY <1>1, <1>2, <1>3, <1>4, <1>5, <1>6, <1>7 DEF Next

\* For any number of chips, nodes, requests, faults and restarts every row, frame and
\* command names a chip and an address that exist, and every request that is past its
\* transaction knows its chip.
THEOREM TypeCorrect == Spec => []TypeOK
<1>1. Init => TypeOK
  BY TypeInit
<1>2. TypeOK /\ [Next]_vars => TypeOK'
  BY TypeStep
<1> QED
  BY <1>1, <1>2, PTL DEF Spec

-----------------------------------------------------------------------------
(* Who has which address *)

\* Ids are given in order: an id not given yet has no row.
FreshIds == \A n \in NodeIds : n >= nextId => row[n] = NoRow

RowInv == OneOwner /\ RowShape /\ FreshIds

\* A step that leaves every address where it is, with its chip.
Quiet ==
    /\ nextId' = nextId
    /\ \A n \in NodeIds : /\ row'[n].addr = row[n].addr
                          /\ row[n].addr # 0 => row'[n].chip = row[n].chip
                          /\ row[n] = NoRow => row'[n] = NoRow
                          /\ row'[n].st = row[n].st \/ row'[n] = NoRow
                          /\ row'[n].status = "detached" <=> row[n].status = "detached"
                                                             /\ row'[n] # NoRow

\* Only the transactions and the delete of a removal move an address.
LEMMA QuietStep ==
    ASSUME TypeOK, RowInv, [Next]_vars, \A h \in Handlers : ~Transaction(h) /\ ~Delete(h)
    PROVE  Quiet
<1>0. row \in [NodeIds -> RowRec]
  BY DEF TypeOK
<1>1. CASE UNCHANGED dbVars
  BY <1>1 DEF dbVars, Quiet, NoRow
<1>2. ASSUME NEW h \in Handlers, Continue(h) PROVE UNCHANGED dbVars
  BY <1>2 DEF Continue, Disarm, Accept, Unregister, Arm, Push, Joined, Build, sendOnly
<1>3. ASSUME NEW n \in NodeIds, Purge(n) PROVE Quiet
  <2>1. row[n].addr = 0
    BY <1>3 DEF Purge, RowInv, RowShape
  <2>2. row' = [row EXCEPT ![n] = NoRow] /\ nextId' = nextId
    BY <1>3 DEF Purge
  <2>3. NoRow.addr = 0 /\ NoRow.status # "detached"
    BY DEF NoRow
  <2> QED
    BY <1>0, <2>1, <2>2, <2>3 DEF Quiet
<1>4. CASE Drain
  <2>1. CASE MarkActive
    <3>1. /\ nextId' = nextId
          /\ row' = [n \in NodeIds |->
                       IF drain.confirms /\ n \in Holders(drain.addr)
                          /\ row[n].status = "pending_join"
                       THEN [row[n] EXCEPT !.status = "active"] ELSE row[n]]
      BY <2>1 DEF MarkActive
    <3>2. ASSUME NEW n \in NodeIds
          PROVE  /\ row'[n] = row[n] \/ /\ row[n].status = "pending_join"
                                        /\ row'[n] = [row[n] EXCEPT !.status = "active"]
      BY <3>1
    <3>3. ASSUME NEW r \in RowRec, r.status = "pending_join"
          PROVE  LET s == [r EXCEPT !.status = "active"] IN
                 /\ r # NoRow /\ s # NoRow /\ s.addr = r.addr /\ s.chip = r.chip
                 /\ s.st = r.st /\ s.status # "detached"
      BY <3>3, RegistryAssumption DEF RowRec, NoRow
    <3>4. NoRow.status # "detached"
      BY DEF NoRow
    <3> QED
      BY <1>0, <3>1, <3>2, <3>3, <3>4 DEF Quiet
  <2>2. CASE ~MarkActive
    BY <1>1, <1>4, <2>2 DEF Drain, DrainJoin, DrainData, DrainConfirm, DrainArm
  <2> QED
    BY <2>1, <2>2
<1>5. CASE Radio
  BY <1>1, <1>5 DEF Radio, Deliver
<1>6. ASSUME NEW c \in Chips, Chip(c) PROVE UNCHANGED dbVars
  BY <1>6 DEF Chip, Join, Clear, Report, WindowEnd, PowerCycle, chipOnly
<1>7. CASE (\E all \in BOOLEAN : Restart(all)) \/ (\E ok \in BOOLEAN : Serve(ok))
  BY <1>1, <1>7 DEF Restart, Serve
<1> QED
  BY <1>1, <1>2, <1>3, <1>4, <1>5, <1>6, <1>7 DEF Next, vars

\* Moving one address to a free one, or dropping addresses, keeps them distinct.
LEMMA MoveOne ==
    ASSUME OneOwner, NEW n \in NodeIds,
           \A m \in NodeIds \ {n} : row'[m].addr = row[m].addr,
           row'[n].addr \in {0, row[n].addr} \cup FreeAddrs
    PROVE  OneOwner'
  BY FreeIsFree DEF OneOwner

\* The row invariant is inductive.
LEMMA RowStep ==
    ASSUME TypeOK, RowInv, [Next]_vars
    PROVE  RowInv'
<1>0. row \in [NodeIds -> RowRec] /\ nextId \in 1..MaxNodes + 1 /\ MaxNodes \in Nat
  BY RegistryAssumption DEF TypeOK
<1>1. CASE Quiet
  <2>1. OneOwner' /\ RowShape'
    BY <1>1 DEF Quiet, RowInv, OneOwner, RowShape, NoRow
  <2>2. FreshIds'
    BY <1>1 DEF Quiet, RowInv, FreshIds
  <2> QED
    BY <2>1, <2>2 DEF RowInv
<1>2. ASSUME NEW n \in NodeIds, NEW r, row' = [row EXCEPT ![n] = r],
             r.addr \in {0, row[n].addr} \cup FreeAddrs,
             r.addr # 0 <=> r.st = "live" /\ r.status # "detached",
             \/ nextId' = nextId /\ row[n] # NoRow
             \/ nextId' = nextId + 1 /\ n = nextId
      PROVE  RowInv'
  <2>1. \A m \in NodeIds : row'[m] = IF m = n THEN r ELSE row[m]
    BY <1>0, <1>2
  <2>2. OneOwner'
    BY <1>2, <2>1, MoveOne DEF RowInv
  <2>3. RowShape'
    BY <1>2, <2>1 DEF RowInv, RowShape
  <2>4. FreshIds'
    BY <1>0, <1>2, <2>1 DEF RowInv, FreshIds, NodeIds
  <2> QED
    BY <2>2, <2>3, <2>4 DEF RowInv
<1>3. ASSUME UNCHANGED dbVars PROVE RowInv'
  BY <1>3 DEF dbVars, RowInv, OneOwner, RowShape, FreshIds
<1>4. ASSUME NEW n \in NodeIds, DeleteNodeByID(n), nextId' = nextId PROVE RowInv'
  <2>1. CASE row[n].st = "live"
    <3>1. row' = [row EXCEPT ![n] = Trashed(row[n])]
      BY <1>0, <1>4, <2>1 DEF DeleteNodeByID
    <3>2. row[n] # NoRow /\ Trashed(row[n]).addr = 0 /\ Trashed(row[n]).st = "trash"
      <4>1. row[n] \in RowRec /\ row[n].st # "none" /\ row[n] # NoRow
        BY <1>0, <2>1 DEF NoRow
      <4> QED
        BY <4>1, RowUpdates
    <3> QED
      BY <1>2, <1>4, <3>1, <3>2
  <2>2. CASE row[n].st # "live"
    BY <1>0, <1>3, <1>4, <2>2 DEF DeleteNodeByID, dbVars
  <2> QED
    BY <2>1, <2>2
<1>5. ASSUME NEW h \in Handlers, Transaction(h) PROVE RowInv'
  <2>1. ASSUME NEW c \in Chips, ApproveKnown(h, c) PROVE RowInv'
    BY <1>3, <2>1 DEF ApproveKnown
  <2>2. ASSUME NEW c \in Chips, ApproveNew(h, c) PROVE RowInv'
    <3>1. allocAddr \in FreeAddrs /\ allocAddr \in Pool
      BY <2>2, AllocFree DEF ApproveNew
    <3> DEFINE r == Bound(allocAddr, c)
               n == nextId
    <3>2. /\ row' = [row EXCEPT ![n] = r] /\ nextId' = nextId + 1
          /\ n \in NodeIds /\ n = nextId
      BY <2>2 DEF ApproveNew
    <3>3. /\ r.addr \in {0, row[n].addr} \cup FreeAddrs
          /\ r.addr # 0 <=> r.st = "live" /\ r.status # "detached"
      BY <3>1, BoundRow
    <3> HIDE DEF r, n
    <3> QED
      BY <1>2, <3>2, <3>3
  <2>3. ASSUME NEW c \in Chips, Reject(h, c) PROVE RowInv'
    BY <1>3, <2>3 DEF Reject
  <2>4. ASSUME NEW c \in Chips, NEW a \in Pool, Replace(h, c, a) PROVE RowInv'
    <3>1. /\ row' = [n \in NodeIds |-> IF n \in Holders(a) THEN Bound(a, c) ELSE row[n]]
          /\ nextId' = nextId
      BY <2>4 DEF Replace
    <3>2. \A n \in NodeIds : row'[n].addr = row[n].addr
      BY <3>1, BoundRow DEF Holders
    <3>3. OneOwner'
      BY <3>2 DEF RowInv, OneOwner
    <3>4. RowShape'
      BY <3>1, BoundRow DEF RowInv, RowShape
    <3>5. FreshIds'
      <4>1. \A n \in Holders(a) : row[n] # NoRow
        BY DEF Holders, NoRow
      <4> QED
        BY <3>1, <4>1 DEF RowInv, FreshIds
    <3> QED
      BY <3>3, <3>4, <3>5 DEF RowInv
  <2>5. ASSUME NEW c \in Chips, NEW n \in NodeIds, Repair(h, c, n) PROVE RowInv'
    <3>1. allocAddr \in FreeAddrs /\ allocAddr \in Pool
      BY <2>5, AllocFree DEF Repair
    <3>2. row' = [row EXCEPT ![n] = Bound(allocAddr, c)] /\ nextId' = nextId
      BY <2>5 DEF Repair
    <3>3. row[n] # NoRow
      BY <2>5 DEF Repair, NoRow
    <3> DEFINE r == Bound(allocAddr, c)
    <3>4. /\ row' = [row EXCEPT ![n] = r]
          /\ r.addr \in {0, row[n].addr} \cup FreeAddrs
          /\ r.addr # 0 <=> r.st = "live" /\ r.status # "detached"
      BY <3>1, <3>2, BoundRow
    <3> HIDE DEF r
    <3> QED
      BY <1>2, <3>2, <3>3, <3>4
  <2>6. ASSUME NEW a \in Pool, Remove(h, a) PROVE RowInv'
    BY <1>3, <2>6 DEF Remove
  <2>7. ASSUME NEW n \in NodeIds, RemoveById(h, n) PROVE RowInv'
    BY <1>4, <2>7 DEF RemoveById
  <2>8. ASSUME NEW n \in NodeIds, Restore(h, n) PROVE RowInv'
    <3> DEFINE r == [row[n] EXCEPT !.st = "live", !.status = "detached"]
    <3>1. row' = [row EXCEPT ![n] = r] /\ nextId' = nextId
      BY <1>0, <2>8 DEF Restore
    <3>2. row[n].st = "trash" /\ row[n].addr = 0 /\ row[n] # NoRow
      BY <2>8 DEF Restore, RowInv, RowShape, NoRow
    <3>3. r.addr = 0 /\ r.status = "detached"
      <4>1. row[n] \in RowRec
        BY <1>0
      <4> QED
        BY <3>2, <4>1, RowFields
    <3> HIDE DEF r
    <3> QED
      BY <1>2, <3>1, <3>2, <3>3
  <2>9. CASE SetRules(h)
    BY <1>3, <2>9 DEF SetRules
  <2> QED
    BY <1>5, <2>1, <2>2, <2>3, <2>4, <2>5, <2>6, <2>7, <2>8, <2>9 DEF Transaction
<1>6. ASSUME NEW h \in Handlers, Delete(h) PROVE RowInv'
  <2>1. nextId' = nextId
    BY <1>6 DEF Delete
  <2>2. CASE UNCHANGED row
    BY <1>3, <2>1, <2>2 DEF dbVars
  <2>3. ASSUME NEW n \in Holders(handler[h].addr), DeleteNodeByID(n) PROVE RowInv'
    BY <1>4, <2>1, <2>3 DEF Holders
  <2> QED
    BY <1>6, <2>2, <2>3 DEF Delete
<1> QED
  BY <1>1, <1>5, <1>6, QuietStep

\* For any pool, any number of requests that overlap, faults and restarts: no two nodes
\* share an address (the lowest free one is free), and exactly the live nodes that are
\* not detached have one.
THEOREM AddressesOwned == Spec => [](OneOwner /\ RowShape)
<1>1. Init => RowInv
  BY DEF Init, RowInv, OneOwner, RowShape, FreshIds, NoRow
<1>2. TypeOK /\ RowInv /\ [Next]_vars => RowInv'
  BY RowStep
<1>3. RowInv => OneOwner /\ RowShape
  BY DEF RowInv
<1> QED
  BY <1>1, <1>2, <1>3, TypeCorrect, PTL DEF Spec

-----------------------------------------------------------------------------
(* One request at a time *)

LEMMA OneHandler ==
    ASSUME Cardinality(Handlers) = 1
    PROVE  \E h \in Handlers : Handlers = {h}
  BY RegistryAssumption, FS_Singleton

\* A quiet step keeps the rules' view of the rows, and who holds an address.
LEMMA QuietViews ==
    ASSUME Quiet
    PROVE  /\ Current' = Current
           /\ \A a \in Nat : \A n \in Holders(a) :
                  n \in NodeIds /\ row'[n].addr = a /\ row'[n].chip = row[n].chip /\ a # 0
  BY DEF Quiet, Current, Holders

\* Going on changes the place of a request only; ending it forgets everything.
LEMMA GotoFields ==
    ASSUME HandlerOK, NEW h \in Handlers, NEW pc, Goto(h, pc)
    PROVE  /\ handler'[h].pc = pc /\ handler'[h].chip = handler[h].chip
           /\ handler'[h].addr = handler[h].addr
<1> DEFINE r == [handler[h] EXCEPT !.pc = pc]
<1>1. handler' = [handler EXCEPT ![h] = r]
  BY DEF Goto
<1>2. r.pc = pc /\ r.chip = handler[h].chip /\ r.addr = handler[h].addr
  BY DEF HandlerOK, ReqRec
<1> HIDE DEF r
<1> QED
  BY <1>1, <1>2 DEF HandlerOK

LEMMA FinishFields ==
    ASSUME HandlerOK, NEW h \in Handlers, Finish(h)
    PROVE  handler'[h].pc = "idle"
  BY DEF HandlerOK, Finish, NoReq

\* While a removal tells its chip nobody else moves the address.
LEMMA RemovesStep ==
    ASSUME TypeOK, RowInv, RemovesWhatItTold, [Next]_vars
    PROVE  RemovesWhatItTold'
<1> DEFINE Telling == {"unregister", "arm", "delete"}
           Told(h) == handler[h].pc \in Telling =>
                          \E n \in Holders(handler[h].addr) : row[n].chip = handler[h].chip
<1> SUFFICES ASSUME Cardinality(Handlers) = 1, NEW h \in Handlers
             PROVE  Told(h)'
  BY DEF RemovesWhatItTold
<1>1. Handlers = {h}
  BY OneHandler
<1>2. Told(h)
  BY DEF RemovesWhatItTold
<1>3. handler \in [Handlers -> ReqRec] /\ handler[h].addr \in Nat
  BY PoolNat DEF TypeOK, ReqRec
<1>9. HandlerOK
  BY TypeParts
<1>4. ASSUME Quiet, handler[h].pc \in Telling, handler'[h].addr = handler[h].addr,
             handler'[h].chip = handler[h].chip
      PROVE  Told(h)'
  <2>1. PICK n \in Holders(handler[h].addr) : row[n].chip = handler[h].chip
    BY <1>2, <1>4
  <2>2. /\ n \in NodeIds /\ row'[n].addr = handler[h].addr /\ handler[h].addr # 0
        /\ row'[n].chip = row[n].chip
    BY <1>3, <1>4, <2>1, QuietViews
  <2> QED
    BY <1>4, <2>1, <2>2 DEF Holders
<1>5. ASSUME handler'[h].pc \notin Telling PROVE Told(h)'
  BY <1>5
<1>6. CASE Transaction(h)
  <2>1. ASSUME Begin(h), UNCHANGED handler PROVE Told(h)'
    BY <1>5, <2>1 DEF Begin, NoReq
  <2>2. ASSUME NEW pc, NEW c, NEW a, NEW b, At(h, pc, c, a, b)
        PROVE  handler'[h].pc = pc /\ handler'[h].chip = c /\ handler'[h].addr = a
    BY <1>3, <2>2 DEF At
  <2>3. ASSUME NEW a \in Pool, Remove(h, a) PROVE Told(h)'
    <3>1. PICK n \in Holders(a) : At(h, "unregister", row[n].chip, a, TRUE)
      BY <2>3 DEF Remove
    <3>2. row' = row
      BY <2>3 DEF Remove, dbVars
    <3> QED
      BY <2>2, <3>1, <3>2 DEF Holders
  <2>4. CASE \E c \in Chips : ApproveKnown(h, c) \/ ApproveNew(h, c)
    <3>1. handler'[h].pc = "disarm"
      BY <2>2, <2>4 DEF ApproveKnown, ApproveNew
    <3> QED
      BY <1>5, <3>1
  <2>5. CASE \/ \E c \in Chips, a \in Pool : Replace(h, c, a)
             \/ \E c \in Chips, n \in NodeIds : Repair(h, c, n)
    <3>1. handler'[h].pc = "disarm"
      BY <2>2, <2>5 DEF Replace, Repair
    <3> QED
      BY <1>5, <3>1
  <2>6. CASE (\E n \in NodeIds : RemoveById(h, n)) \/ SetRules(h)
    <3>1. handler'[h].pc = "build"
      BY <2>2, <2>6 DEF RemoveById, SetRules
    <3> QED
      BY <1>5, <3>1
  <2>7. CASE (\E c \in Chips : Reject(h, c)) \/ (\E n \in NodeIds : Restore(h, n))
    BY <2>1, <2>7 DEF Reject, Restore
  <2> QED
    BY <1>6, <2>3, <2>4, <2>5, <2>6, <2>7 DEF Transaction
<1>7. CASE Delete(h)
  BY <1>3, <1>5, <1>7 DEF Delete, Goto
<1>8. CASE ~Transaction(h) /\ ~Delete(h)
  <2>1. Quiet
    BY <1>1, <1>8, QuietStep
  <2>2. CASE UNCHANGED handler
    BY <1>4, <1>5, <2>1, <2>2
  <2>3. CASE Continue(h)
    <3>1. CASE \E ok \in BOOLEAN : Unregister(h, ok) \/ Arm(h, ok)
      <4>1. /\ handler[h].pc \in Telling /\ handler'[h].addr = handler[h].addr
            /\ handler'[h].chip = handler[h].chip
        <5>1. /\ handler[h].pc \in {"unregister", "arm"}
              /\ \E pc \in {"arm", "delete"} : Goto(h, pc)
          BY <3>1 DEF Unregister, Arm
        <5> QED
          BY <1>9, <5>1, GotoFields
      <4> QED
        BY <1>4, <2>1, <4>1
    <3>2. CASE \E ok \in BOOLEAN : Disarm(h, ok) \/ Accept(h, ok) \/ Push(h, ok)
      <4>1. handler'[h].pc \in {"accept", "joined", "idle"}
        <5>1. Goto(h, "accept") \/ Goto(h, "joined") \/ Finish(h)
          BY <3>2 DEF Disarm, Accept, Push
        <5> QED
          BY <1>9, <5>1, GotoFields, FinishFields
      <4> QED
        BY <1>5, <4>1
    <3>3. CASE Joined(h) \/ Build(h)
      <4>1. handler'[h].pc \in {"build", "push", "idle"}
        <5>1. \/ Goto(h, "build") \/ Finish(h)
              \/ handler' = [handler EXCEPT ![h].pc = "push", ![h].rules = Current]
          BY <3>3 DEF Joined, Build
        <5>2. ASSUME handler' = [handler EXCEPT ![h].pc = "push", ![h].rules = Current]
              PROVE  handler'[h].pc = "push"
          BY <1>3, <5>2 DEF ReqRec
        <5> QED
          BY <1>9, <5>1, <5>2, GotoFields, FinishFields
      <4> QED
        BY <1>5, <4>1
    <3> QED
      BY <1>8, <2>3, <3>1, <3>2, <3>3 DEF Continue
  <2>4. CASE \E all \in BOOLEAN : Restart(all)
    <3>1. handler'[h].pc = "idle"
      BY <2>4 DEF Restart, NoReq
    <3> QED
      BY <1>5, <3>1
  <2>5. CASE Drain
    BY <2>2, <2>5 DEF Drain, DrainJoin, DrainData, DrainConfirm, DrainArm, MarkActive, drainOnly
  <2>6. CASE \/ \E n \in NodeIds : Purge(n)
             \/ Radio \/ \E ok \in BOOLEAN : Serve(ok)
    BY <2>2, <2>6 DEF Purge, Radio, Deliver, Serve, goVars
  <2>7. CASE \E c \in Chips : Chip(c)
    BY <2>2, <2>7 DEF Chip, Join, Clear, Report, WindowEnd, PowerCycle, chipOnly, goVars
  <2>8. CASE UNCHANGED vars
    BY <2>2, <2>8 DEF vars, goVars
  <2> QED
    BY <1>1, <1>8, <2>3, <2>4, <2>5, <2>6, <2>7, <2>8 DEF Next
<1> QED
  BY <1>6, <1>7, <1>8

\* When requests do not overlap, a removal deletes the node whose chip it told, whatever
\* the drain, the purge and the chips do while it waits.
THEOREM RemovesTheTold == Spec => []RemovesWhatItTold
<1>1. Init => RemovesWhatItTold /\ RowInv
  BY DEF Init, RemovesWhatItTold, NoReq, RowInv, OneOwner, RowShape, FreshIds, NoRow
<1>2. TypeOK /\ RowInv /\ RemovesWhatItTold /\ [Next]_vars => RemovesWhatItTold' /\ RowInv'
  BY RemovesStep, RowStep
<1> QED
  BY <1>1, <1>2, TypeCorrect, PTL DEF Spec

-----------------------------------------------------------------------------
(* The rules in the M4F *)

Busy(h) == handler[h].pc \in {"build", "push"}

\* Between two pushes the M4F names each node by the address it has; during one, no
\* address it names has gone to another node; the set that is pushed is the current one.
Named   == \A m, n \in NodeIds : engine[n] # 0 /\ m # n => row[m].addr # engine[n]
Settled == serving /\ (\A h \in Handlers : ~Busy(h)) =>
               \A n \in NodeIds : engine[n] # 0 => row[n].addr = engine[n]
PushesCurrent == \A h \in Handlers : handler[h].pc = "push" => handler[h].rules = Current

RulesInv ==
    Cardinality(Handlers) = 1 /\ faults = 0 => Named /\ Settled /\ PushesCurrent

\* A quiet step of somebody else.
LEMMA RulesQuiet ==
    ASSUME Named, Settled, PushesCurrent, Quiet, UNCHANGED handler,
           UNCHANGED engine \/ engine' = NoRules, UNCHANGED serving
    PROVE  Named' /\ Settled' /\ PushesCurrent'
<1>1. \A n \in NodeIds : row'[n].addr = row[n].addr /\ engine'[n] \in {0, engine[n]}
  BY DEF Quiet, NoRules
<1>2. Named'
  BY <1>1 DEF Named
<1>3. Settled'
  BY <1>1 DEF Settled, Busy
<1>4. PushesCurrent'
  BY QuietViews DEF PushesCurrent
<1> QED
  BY <1>2, <1>3, <1>4

\* The rules agree with the rows after a push of the current set.
LEMMA RulesPushed ==
    ASSUME OneOwner, engine' = Current, UNCHANGED dbVars
    PROVE  Named' /\ Settled'
<1>1. \A n \in NodeIds : engine'[n] = row'[n].addr /\ row'[n] = row[n]
  BY DEF Current, dbVars
<1>2. Named'
  BY <1>1 DEF Named, OneOwner
<1>3. Settled'
  BY <1>1 DEF Settled
<1> QED
  BY <1>2, <1>3

\* A transaction of the only request.
LEMMA RulesTransaction ==
    ASSUME TypeOK, RowInv, NEW h \in Handlers, Handlers = {h}, Transaction(h),
           Named, Settled, PushesCurrent
    PROVE  Named' /\ Settled' /\ PushesCurrent'
<1>1. /\ handler \in [Handlers -> ReqRec] /\ row \in [NodeIds -> RowRec]
      /\ HandlerOK
  BY TypeParts DEF TypeOK
<1>2. UNCHANGED engine /\ serving /\ serving' = serving /\ handler[h].pc = "idle"
  <2>1. Begin(h)
    BY Zenon DEF Transaction, ApproveKnown, ApproveNew, Reject, Replace, Repair, Remove,
                 RemoveById, Restore, SetRules
  <2>2. UNCHANGED engine /\ serving' = serving
    BY DEF Transaction, ApproveKnown, ApproveNew, Reject, Replace, Repair, Remove, RemoveById,
           Restore, SetRules, dbOnly
  <2>3. handler[h].pc = "idle"
    BY <2>1 DEF Begin, NoReq
  <2>4. serving
    BY <2>1 DEF Begin
  <2> QED
    BY <2>2, <2>3, <2>4
<1>3. \A n \in NodeIds : engine[n] # 0 => row[n].addr = engine[n]
  BY <1>2 DEF Settled, Busy
<1>4. ASSUME NEW pc, NEW c, NEW a, NEW b, At(h, pc, c, a, b) PROVE handler'[h].pc = pc
  BY <1>1, <1>4 DEF At
<1>5. ASSUME \A n \in NodeIds : row'[n].addr = row[n].addr, handler'[h].pc # "push"
      PROVE  Named' /\ Settled' /\ PushesCurrent'
  BY <1>2, <1>3, <1>5 DEF Named, Settled, PushesCurrent
<1>6. ASSUME NEW n \in NodeIds, row[n].addr = 0, NEW c \in Chips, FreeAddrs # {},
             row' = [row EXCEPT ![n] = Bound(allocAddr, c)], handler'[h].pc = "disarm"
      PROVE  Named' /\ Settled' /\ PushesCurrent'
  <2>1. allocAddr \in FreeAddrs /\ allocAddr \in Pool
    BY <1>6, AllocFree
  <2>2. \A m \in NodeIds : row'[m].addr = IF m = n THEN allocAddr ELSE row[m].addr
    BY <1>1, <1>6, <2>1, BoundRow
  <2>3. Named'
    BY <1>2, <1>3, <2>1, <2>2, FreeIsFree DEF Named
  <2>4. Settled'
    BY <1>2, <1>3, <1>6, <2>2 DEF Settled
  <2> QED
    BY <1>6, <2>3, <2>4 DEF PushesCurrent
<1>7. ASSUME NEW c \in Chips, ApproveKnown(h, c) PROVE Named' /\ Settled' /\ PushesCurrent'
  <2>1. row' = row /\ handler'[h].pc = "disarm"
    BY <1>4, <1>7 DEF ApproveKnown, dbVars
  <2> QED
    BY <1>5, <2>1
<1>8. ASSUME NEW c \in Chips, ApproveNew(h, c) PROVE Named' /\ Settled' /\ PushesCurrent'
  <2>1. /\ row' = [row EXCEPT ![nextId] = Bound(allocAddr, c)] /\ nextId \in NodeIds
        /\ FreeAddrs # {}
    BY <1>8 DEF ApproveNew
  <2>2. handler'[h].pc = "disarm"
    BY <1>4, <1>8 DEF ApproveNew
  <2>3. row[nextId].addr = 0
    BY <2>1, RegistryAssumption DEF RowInv, FreshIds, NoRow, NodeIds
  <2> QED
    BY <1>6, <2>1, <2>2, <2>3
<1>9. ASSUME NEW c \in Chips, Reject(h, c) PROVE Named' /\ Settled' /\ PushesCurrent'
  <2>1. row' = row /\ handler' = handler
    BY <1>9 DEF Reject, dbVars
  <2> QED
    BY <1>2, <1>5, <2>1
<1>10. ASSUME NEW c \in Chips, NEW a \in Pool, Replace(h, c, a)
       PROVE  Named' /\ Settled' /\ PushesCurrent'
  <2>1. row' = [n \in NodeIds |-> IF n \in Holders(a) THEN Bound(a, c) ELSE row[n]]
    BY <1>10 DEF Replace
  <2>2. \A n \in NodeIds : row'[n].addr = row[n].addr
    BY <2>1, BoundRow DEF Holders
  <2>3. handler'[h].pc = "disarm"
    BY <1>4, <1>10 DEF Replace
  <2> QED
    BY <1>5, <2>2, <2>3
<1>11. ASSUME NEW c \in Chips, NEW n \in NodeIds, Repair(h, c, n)
       PROVE  Named' /\ Settled' /\ PushesCurrent'
  <2>1. /\ row' = [row EXCEPT ![n] = Bound(allocAddr, c)] /\ FreeAddrs # {}
        /\ row[n].status = "detached"
    BY <1>11 DEF Repair
  <2>2. handler'[h].pc = "disarm"
    BY <1>4, <1>11 DEF Repair
  <2>3. row[n].addr = 0
    BY <2>1 DEF RowInv, RowShape
  <2> QED
    BY <1>6, <2>1, <2>2, <2>3
<1>12. ASSUME NEW a \in Pool, Remove(h, a) PROVE Named' /\ Settled' /\ PushesCurrent'
  <2>1. row' = row /\ handler'[h].pc = "unregister"
    BY <1>4, <1>12 DEF Remove, dbVars
  <2> QED
    BY <1>5, <2>1
<1>13. ASSUME NEW n \in NodeIds, RemoveById(h, n)
       PROVE  Named' /\ Settled' /\ PushesCurrent'
  <2>1. handler'[h].pc = "build"
    BY <1>4, <1>13 DEF RemoveById
  <2>2. row' = [row EXCEPT ![n] = Trashed(row[n])] /\ row[n] \in RowRec /\ row[n].st # "none"
    BY <1>1, <1>13 DEF RemoveById, DeleteNodeByID, Live
  <2>3. \A m \in NodeIds : row'[m].addr \in {0, row[m].addr}
    BY <1>1, <2>2, RowUpdates
  <2>4. Named'
    BY <1>2, <2>3 DEF Named
  <2> QED
    BY <2>1, <2>4 DEF Settled, Busy, PushesCurrent
<1>14. ASSUME NEW n \in NodeIds, Restore(h, n)
       PROVE  Named' /\ Settled' /\ PushesCurrent'
  <2> DEFINE r == [row[n] EXCEPT !.st = "live", !.status = "detached"]
  <2>1. row' = [row EXCEPT ![n] = r] /\ handler' = handler
    BY <1>1, <1>14 DEF Restore
  <2>2. r.addr = row[n].addr
    <3>1. row[n] \in RowRec /\ row[n].st # "none"
      BY <1>1, <1>14 DEF Restore
    <3> QED
      BY <3>1, RowFields
  <2> HIDE DEF r
  <2> QED
    BY <1>1, <1>2, <1>5, <2>1, <2>2
<1>15. ASSUME SetRules(h) PROVE Named' /\ Settled' /\ PushesCurrent'
  <2>1. row' = row /\ handler'[h].pc = "build"
    BY <1>4, <1>15 DEF SetRules, dbVars
  <2> QED
    BY <1>5, <2>1
<1> QED
  BY <1>7, <1>8, <1>9, <1>10, <1>11, <1>12, <1>13, <1>14, <1>15 DEF Transaction

\* The next step of the only request.
LEMMA RulesContinue ==
    ASSUME TypeOK, RowInv, NEW h \in Handlers, Handlers = {h}, Continue(h), [Next]_vars,
           ~Transaction(h), faults = 0, faults' = 0, Named, Settled, PushesCurrent
    PROVE  Named' /\ Settled' /\ PushesCurrent'
<1>1. /\ handler \in [Handlers -> ReqRec] /\ row \in [NodeIds -> RowRec]
      /\ HandlerOK
  BY TypeParts DEF TypeOK
<1>2. CASE Delete(h)
  <2>1. handler'[h].pc = "build" /\ UNCHANGED engine
    BY <1>1, <1>2, GotoFields DEF Delete
  <2>2. \A m \in NodeIds : row'[m].addr \in {0, row[m].addr}
    <3>1. ASSUME NEW n \in Holders(handler[h].addr), DeleteNodeByID(n)
          PROVE  \A m \in NodeIds : row'[m].addr \in {0, row[m].addr}
      BY <1>1, <3>1, RowUpdates DEF DeleteNodeByID, Holders
    <3> QED
      BY <1>2, <3>1 DEF Delete
  <2>3. Named'
    BY <2>1, <2>2 DEF Named
  <2> QED
    BY <2>1, <2>3 DEF Settled, Busy, PushesCurrent
<1>3. ASSUME Build(h) PROVE Named' /\ Settled' /\ PushesCurrent'
  <2> DEFINE r == [handler[h] EXCEPT !.pc = "push", !.rules = Current]
  <2>1. handler' = [handler EXCEPT ![h] = r] /\ UNCHANGED engine /\ UNCHANGED row
    BY <1>1, <1>3 DEF Build, sendOnly, dbVars
  <2>2. r.pc = "push" /\ r.rules = Current
    BY <1>1 DEF ReqRec
  <2> HIDE DEF r
  <2>3. handler'[h].pc = "push" /\ handler'[h].rules = Current
    BY <1>1, <2>1, <2>2
  <2>4. Current' = Current
    BY <2>1 DEF Current
  <2>5. Named'
    BY <2>1 DEF Named
  <2> QED
    BY <2>3, <2>4, <2>5 DEF Settled, Busy, PushesCurrent
<1>4. ASSUME NEW ok \in BOOLEAN, Push(h, ok) PROVE Named' /\ Settled' /\ PushesCurrent'
  <2>1. ok
    BY <1>4 DEF Push
  <2>2. engine' = Current /\ UNCHANGED dbVars
    BY <1>4, <2>1 DEF Push, PushesCurrent
  <2>3. handler'[h].pc = "idle"
    BY <1>1, <1>4, FinishFields DEF Push
  <2> QED
    BY <2>2, <2>3, RulesPushed DEF RowInv, PushesCurrent
<1>5. ASSUME ~Delete(h), ~Build(h), \A ok \in BOOLEAN : ~Push(h, ok)
      PROVE  Named' /\ Settled' /\ PushesCurrent'
  <2>1. Quiet
    BY <1>5, QuietStep
  <2>2. /\ \E pc \in {"accept", "joined", "arm", "delete", "build"} : Goto(h, pc) \/ Finish(h)
        /\ UNCHANGED engine /\ UNCHANGED serving
        /\ ~Busy(h)
    BY <1>5 DEF Continue, Disarm, Accept, Unregister, Arm, Joined, sendOnly, Busy
  <2>3. handler'[h].pc # "push"
    BY <1>1, <2>2, GotoFields, FinishFields
  <2>4. \A n \in NodeIds : row'[n].addr = row[n].addr
    BY <2>1 DEF Quiet
  <2>5. Named'
    BY <2>2, <2>4 DEF Named
  <2>6. Settled'
    BY <2>2, <2>4 DEF Settled
  <2> QED
    BY <2>3, <2>5, <2>6 DEF PushesCurrent
<1> QED
  BY <1>2, <1>3, <1>4, <1>5

\* RulesInv is inductive, given who has which address.
LEMMA RulesStep ==
    ASSUME TypeOK, RowInv, RulesInv, [Next]_vars
    PROVE  RulesInv'
<1> SUFFICES ASSUME Cardinality(Handlers) = 1, faults' = 0
             PROVE  Named' /\ Settled' /\ PushesCurrent'
  BY DEF RulesInv
<1>1. PICK h \in Handlers : Handlers = {h}
  BY OneHandler
<1>2. faults = 0
  <2>1. faults \in Nat
    BY RegistryAssumption DEF TypeOK
  <2>2. faults' = faults \/ faults' = faults + 1
    <3>1. ASSUME NEW cmd, NEW c, NEW a, NEW ok, SendDown(cmd, c, a, ok)
          PROVE  faults' = faults \/ faults' = faults + 1
      BY <3>1 DEF SendDown
    <3>2. CASE Transaction(h)
      BY <3>2 DEF Transaction, ApproveKnown, ApproveNew, Reject, Replace, Repair, Remove,
                  RemoveById, Restore, SetRules, dbOnly, boundVars
    <3>3. CASE Continue(h)
      BY <3>1, <3>3 DEF Continue, Disarm, Accept, Unregister, Arm, Push, Joined, Delete, Build,
                        boundVars
    <3>4. CASE Drain
      BY <3>1, <3>4 DEF Drain, DrainJoin, DrainData, DrainConfirm, DrainArm, MarkActive
    <3>5. CASE (\E n \in NodeIds : Purge(n)) \/ Radio
      BY <3>5 DEF Purge, Radio, Deliver, boundVars
    <3>6. CASE \E c \in Chips : Chip(c)
      BY <3>6 DEF Chip, Join, Clear, Report, WindowEnd, PowerCycle, chipOnly, boundVars
    <3>7. CASE (\E all \in BOOLEAN : Restart(all)) \/ \E ok \in BOOLEAN : Serve(ok)
      BY <3>7 DEF Restart, Serve
    <3>8. CASE UNCHANGED vars
      BY <3>8 DEF vars, boundVars
    <3> QED
      BY <1>1, <3>2, <3>3, <3>4, <3>5, <3>6, <3>7, <3>8 DEF Next
  <2> QED
    BY <2>1, <2>2
<1>3. Named /\ Settled /\ PushesCurrent
  BY <1>2 DEF RulesInv
<1>4. CASE Transaction(h)
  BY <1>1, <1>3, <1>4, RulesTransaction
<1>5. CASE Continue(h) /\ ~Transaction(h)
  BY <1>1, <1>2, <1>3, <1>5, RulesContinue
<1>6. ASSUME ~Transaction(h), ~Delete(h), UNCHANGED <<handler, serving, engine>>
      PROVE  Named' /\ Settled' /\ PushesCurrent'
  BY <1>1, <1>3, <1>6, QuietStep, RulesQuiet
<1>7. ASSUME ~Transaction(h), ~Continue(h) PROVE Named' /\ Settled' /\ PushesCurrent'
  <2>0. ~Delete(h)
    BY <1>7 DEF Continue
  <2>1. CASE Drain
    BY <1>6, <1>7, <2>0, <2>1 DEF Drain, DrainJoin, DrainData, DrainConfirm, DrainArm,
                                  MarkActive, drainOnly
  <2>2. CASE (\E n \in NodeIds : Purge(n)) \/ Radio
    BY <1>6, <1>7, <2>0, <2>2 DEF Purge, Radio, Deliver, goVars
  <2>3. CASE \E c \in Chips : Chip(c)
    BY <1>6, <1>7, <2>0, <2>3 DEF Chip, Join, Clear, Report, WindowEnd, PowerCycle, chipOnly,
                                  goVars
  <2>4. ASSUME NEW all \in BOOLEAN, Restart(all)
        PROVE  Named' /\ Settled' /\ PushesCurrent'
    <3>1. ~serving' /\ handler'[h].pc = "idle" /\ row' = row
          /\ (engine' = engine \/ engine' = NoRules)
      BY <2>4 DEF Restart, NoReq, dbVars
    <3>2. Named'
      BY <1>3, <3>1 DEF Named, NoRules
    <3> QED
      BY <1>1, <3>1, <3>2 DEF Settled, PushesCurrent
  <2>5. ASSUME NEW ok \in BOOLEAN, Serve(ok) PROVE Named' /\ Settled' /\ PushesCurrent'
    <3>1. ok
      BY <1>2, <2>5 DEF Serve
    <3>2. engine' = Current /\ UNCHANGED dbVars /\ UNCHANGED handler
      BY <2>5, <3>1 DEF Serve
    <3>3. Current' = Current
      BY <3>2 DEF Current, dbVars
    <3> QED
      BY <1>3, <3>2, <3>3, RulesPushed DEF RowInv, PushesCurrent
  <2>6. CASE UNCHANGED vars
    BY <1>6, <1>7, <2>0, <2>6 DEF vars, goVars
  <2> QED
    BY <1>1, <1>7, <2>1, <2>2, <2>3, <2>4, <2>5, <2>6 DEF Next
<1> QED
  BY <1>4, <1>5, <1>7

\* When requests do not overlap and every push arrives, no rule in the M4F names an
\* address that went to another node, for any number of nodes, removals and restarts.
THEOREM RulesNameOwners == Spec => []RuleNamesOwner
<1>1. Init => RulesInv /\ RowInv
  BY DEF Init, RulesInv, Named, Settled, PushesCurrent, NoReq, NoRules, RowInv, OneOwner,
         RowShape, FreshIds, NoRow
<1>2. TypeOK /\ RowInv /\ RulesInv /\ [Next]_vars => RulesInv' /\ RowInv'
  BY RulesStep, RowStep
<1>3. RulesInv => RuleNamesOwner
  BY DEF RulesInv, Named, RuleNamesOwner
<1> QED
  BY <1>1, <1>2, <1>3, TypeCorrect, PTL DEF Spec

==============================================================================
