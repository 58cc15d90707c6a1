----------------------------- MODULE RuleUpload ------------------------------
(***************************************************************************)
(* The upload of a rule set to the M4F (rules.go PushRules, httpapi.go      *)
(* handleSetRules) and the engine that runs it (engine.c): two buffers, of  *)
(* which COMMIT makes the filled one active.                               *)
(*                                                                         *)
(* A pusher is one HTTP request (or the push at start-up): it stores its    *)
(* set in the database, reads the database back, and sends BEGIN, one ITEM  *)
(* per rule and COMMIT, each over the reliable link (RpmsgLink), where a    *)
(* control message can be executed more than once, its answer lost, and a   *)
(* retransmission written after the next message.  Nothing serialises two   *)
(* requests.  The engine task evaluates at a lower priority than the COMMS  *)
(* task that applies the messages, so it can be preempted between any two   *)
(* rules.                                                                  *)
(***************************************************************************)
EXTENDS Naturals, Sequences, FiniteSets

CONSTANTS
    Pushers,       \* HTTP requests that push a rule set
    Rules,         \* rules, as opaque images
    NoRule,        \* the content of a slot nobody has written
    SetOf,         \* the set each request stores: a function to Seq(Rules)
    MAX_RULES,     \* slots of one buffer (100)
    RX_RING,       \* frames the M4F ring holds (3)
    MAX_RETRIES,   \* retransmissions of one message (3)
    MaxParallel,   \* bound: requests in progress at the same time
    MaxLost,       \* bound: answers that do not arrive, writes that fail
    MaxCrashes,    \* bound: crashes of the Linux process
    MaxEvals       \* bound: evaluations started

ASSUME UploadAssumption ==
    /\ NoRule \notin Rules /\ Pushers # {}
    /\ SetOf \in [Pushers -> Seq(Rules)]
    /\ MAX_RULES \in Nat /\ \A p \in Pushers : Len(SetOf[p]) <= MAX_RULES
    /\ RX_RING \in Nat /\ MAX_RETRIES \in Nat /\ MaxParallel \in Nat
    /\ MaxLost \in Nat /\ MaxCrashes \in Nat /\ MaxEvals \in Nat

VARIABLES
    store,     \* the set in the database
    latest,    \* history: the request that started last
    push,      \* per request: where it stands, the set it sends, step, retries
    late,      \* frames marked for retransmission and not yet written
    wire,      \* the M4F's receive ring
    answers,   \* ACK and ERROR on their way to Linux
    rules,     \* g_rules
    count,     \* g_count
    active,    \* g_active
    building,  \* g_building
    shadow,    \* g_shadow
    expected,  \* g_shadow_expected
    filled,    \* g_shadow_filled
    eval,      \* the evaluation in progress
    swapped,   \* history: requests whose COMMIT was executed
    lost, crashes, evals

linuxVars  == <<store, latest, push, late>>
shadowVars == <<rules, building, shadow, expected, filled>>
engineVars == <<shadowVars, count, active>>
vars == <<linuxVars, wire, answers, engineVars, eval, swapped, lost, crashes, evals>>

Buffers == {0, 1}
Offered == {<<>>} \cup {SetOf[p] : p \in Pushers}
Steps   == 0..(MAX_RULES + 1)

\* Step 0 of a push is BEGIN, step k the k-th ITEM, the last one COMMIT.
Frames  == [p : Pushers, step : Steps, set : Offered]
Last(f) == Len(f.set) + 1

\* The rules buffer b holds at its first n indices, and the set the engine runs.
Image(b, n) == [i \in 1..n |-> rules[b][i]]
ActiveSet   == Image(active, count[active])

NoPush == [pc |-> "idle", set |-> <<>>, step |-> 0, retry |-> 0]
NoEval == [pc |-> "idle", buf |-> 0, n |-> 0, got |-> <<>>, base |-> <<>>, reused |-> FALSE]

InProgress == {p \in Pushers : push[p].pc \in {"stored", "send", "await"}}
FrameOf(p) == [p |-> p, step |-> push[p].step, set |-> push[p].set]

Init ==
    /\ store = <<>> /\ latest = CHOOSE p \in Pushers : TRUE
    /\ push = [p \in Pushers |-> NoPush]
    /\ late = {} /\ wire = <<>> /\ answers = <<>>
    /\ rules = [b \in Buffers |-> [i \in 1..MAX_RULES |-> NoRule]]
    /\ count = [b \in Buffers |-> 0]
    /\ active = 0 /\ building = FALSE /\ shadow = 1 /\ expected = 0 /\ filled = 0
    /\ eval = NoEval
    /\ swapped = {} /\ lost = 0 /\ crashes = 0 /\ evals = 0

\* Mutants of the helpers below, one plausible slip each; no action uses them.
Write_Unbounded(f) == wire' = Append(wire, f)
BeginBuffer_Fixed == 1
CommitMatches_NoCrc(f) == Len(f.set) = expected /\ filled = expected
AnswerFor_AnyStep(p) ==
    push[p].pc = "await" /\ answers # <<>> /\ Head(answers).p = p

-----------------------------------------------------------------------------
(* Linux: a request *)

Start(p) ==
    /\ push[p] = NoPush
    /\ Cardinality(InProgress) < MaxParallel
    /\ latest' = p

\* repushRules after a change of the nodes, and the push at start-up: only RulesForPush.
Repush(p) ==
    /\ Start(p)
    /\ push' = [push EXCEPT ![p].pc = "send", ![p].set = store]
    /\ UNCHANGED <<store, late, wire, answers, engineVars, eval, swapped, lost, crashes,
                   evals>>

\* handleSetRules: SetRulesJSON stores the set of the request; RulesForPush reads what
\* the database holds when it runs.
Store(p) ==
    /\ Start(p)
    /\ store' = SetOf[p]
    /\ push' = [push EXCEPT ![p].pc = "stored"]
    /\ UNCHANGED <<late, wire, answers, engineVars, eval, swapped, lost, crashes, evals>>

Load(p) ==
    /\ push[p].pc = "stored"
    /\ push' = [push EXCEPT ![p].pc = "send", ![p].set = store]
    /\ UNCHANGED <<store, latest, late, wire, answers, engineVars, eval, swapped, lost,
                   crashes, evals>>

\* The ring drops what does not fit; the writer does not learn of it.
Write(f) == wire' = IF Len(wire) < RX_RING THEN Append(wire, f) ELSE wire

Lose(yes) ==
    /\ yes => lost < MaxLost
    /\ lost' = IF yes THEN lost + 1 ELSE lost

\* sendReliableTyped for the next message of the push; a failing write ends it.
SendStep(p, fails) ==
    /\ push[p].pc = "send"
    /\ Lose(fails)
    /\ IF fails THEN /\ push' = [push EXCEPT ![p].pc = "failed"]
                     /\ UNCHANGED wire
       ELSE /\ push' = [push EXCEPT ![p].pc = "await", ![p].retry = 0]
            /\ Write(FrameOf(p))
    /\ UNCHANGED <<store, latest, late, answers, engineVars, eval, swapped, crashes, evals>>

RetryDue(p) == push[p].pc = "await"

\* One pass of processRetries over the requests S whose message is overdue.  It writes
\* after releasing the lock, by when the message may have been answered.
Retry(S) ==
    LET again == {p \in S : push[p].retry < MAX_RETRIES} IN
    /\ late = {}
    /\ S # {} /\ \A p \in S : RetryDue(p)
    /\ push' = [p \in Pushers |->
                  IF p \in again THEN [push[p] EXCEPT !.retry = @ + 1]
                  ELSE IF p \in S THEN [push[p] EXCEPT !.pc = "failed"]
                  ELSE push[p]]
    /\ late' = {FrameOf(p) : p \in again}
    /\ UNCHANGED <<store, latest, wire, answers, engineVars, eval, swapped, lost, crashes,
                   evals>>

Resend(f) ==
    /\ f \in late
    /\ late' = late \ {f}
    /\ Write(f)
    /\ UNCHANGED <<store, latest, push, answers, engineVars, eval, swapped, lost, crashes,
                   evals>>

AnswerFor(p) ==
    /\ push[p].pc = "await" /\ answers # <<>>
    /\ Head(answers).p = p /\ Head(answers).step = push[p].step

\* ACK leads to the next message or, for COMMIT, to success; ERROR ends the push.
\* An answer nobody waits for is dropped.
RecvAnswer ==
    LET a == Head(answers) IN
    /\ answers # <<>>
    /\ answers' = Tail(answers)
    /\ push' = [p \in Pushers |->
         IF ~AnswerFor(p) THEN push[p]
         ELSE IF ~a.ok THEN [push[p] EXCEPT !.pc = "rejected"]
         ELSE IF push[p].step > Len(push[p].set) THEN [push[p] EXCEPT !.pc = "ok"]
         ELSE [push[p] EXCEPT !.pc = "send", !.step = @ + 1]]
    /\ UNCHANGED <<store, latest, late, wire, engineVars, eval, swapped, lost, crashes,
                   evals>>

\* The Linux process dies; what is in the ring stays.
Crash ==
    /\ crashes < MaxCrashes
    /\ crashes' = crashes + 1
    /\ push' = [p \in Pushers |->
                  IF p \in InProgress THEN [push[p] EXCEPT !.pc = "gone"] ELSE push[p]]
    /\ late' = {} /\ answers' = <<>>
    /\ UNCHANGED <<store, latest, wire, engineVars, eval, swapped, lost, evals>>

-----------------------------------------------------------------------------
(* M4F: the COMMS task applies the messages (engine_rpmsg_dispatch, engine.c) *)

Take(f) == wire # <<>> /\ f = Head(wire) /\ wire' = Tail(wire)

Answer(f, ok, gone) ==
    /\ Lose(gone)
    /\ answers' = IF gone THEN answers
                  ELSE Append(answers, [p |-> f.p, step |-> f.step, ok |-> ok])

BeginBuffer == 1 - active

\* engine_rules_begin
Begin(f, gone) ==
    /\ Take(f) /\ f.step = 0
    /\ shadow' = BeginBuffer
    /\ expected' = Len(f.set) /\ filled' = 0 /\ building' = TRUE
    /\ eval' = [eval EXCEPT !.reused = @ \/ (eval.pc # "idle" /\ active # eval.buf)]
    /\ Answer(f, TRUE, gone)
    /\ UNCHANGED <<linuxVars, rules, count, active, swapped, crashes, evals>>

\* engine_rules_item: every copy is counted, so a retransmitted ITEM counts twice.
Item(f, gone) ==
    LET accept == building /\ f.step <= expected IN
    /\ Take(f) /\ f.step \in 1..Len(f.set)
    /\ rules' = IF accept THEN [rules EXCEPT ![shadow][f.step] = f.set[f.step]] ELSE rules
    /\ filled' = IF accept THEN filled + 1 ELSE filled
    /\ Answer(f, accept, gone)
    /\ UNCHANGED <<linuxVars, count, active, building, shadow, expected, eval, swapped,
                   crashes, evals>>

\* The checks of engine_rules_commit: two counts, and the CRC over the shadow, which
\* is taken to tell any two images apart.
CommitMatches(f) ==
    /\ Len(f.set) = expected /\ filled = expected
    /\ Image(shadow, Len(f.set)) = f.set

Commit(f, gone) ==
    LET accept == building /\ CommitMatches(f) IN
    /\ Take(f) /\ f.step = Last(f)
    /\ building' = FALSE
    /\ count' = IF accept THEN [count EXCEPT ![shadow] = Len(f.set)] ELSE count
    /\ active' = IF accept THEN shadow ELSE active
    /\ swapped' = IF accept THEN swapped \cup {f.p} ELSE swapped
    /\ Answer(f, accept, gone)
    /\ UNCHANGED <<linuxVars, rules, shadow, expected, filled, eval, crashes, evals>>

-----------------------------------------------------------------------------
(* M4F: the engine task (engine_evaluate) *)

\* uint8_t a = g_active
EvalStart ==
    /\ eval.pc = "idle" /\ evals < MaxEvals
    /\ evals' = evals + 1
    /\ eval' = [NoEval EXCEPT !.pc = "count", !.buf = active, !.base = ActiveSet]
    /\ UNCHANGED <<linuxVars, wire, answers, engineVars, swapped, lost, crashes>>

\* uint16_t n = g_count[a]
EvalCount ==
    /\ eval.pc = "count"
    /\ eval' = [eval EXCEPT !.pc = "run", !.n = count[eval.buf]]
    /\ UNCHANGED <<linuxVars, wire, answers, engineVars, swapped, lost, crashes, evals>>

\* One turn of the loop, or its end.
EvalRule ==
    /\ eval.pc = "run"
    /\ eval' = IF Len(eval.got) < eval.n
               THEN [eval EXCEPT !.got = Append(@, rules[eval.buf][Len(eval.got) + 1])]
               ELSE NoEval
    /\ UNCHANGED <<linuxVars, wire, answers, engineVars, swapped, lost, crashes, evals>>

-----------------------------------------------------------------------------
Quiescent ==
    /\ InProgress = {} /\ late = {} /\ wire = <<>> /\ answers = <<>> /\ eval.pc = "idle"
    /\ UNCHANGED vars

Linux == \/ \E p \in Pushers : Store(p) \/ Repush(p) \/ Load(p)
         \/ \E S \in SUBSET Pushers : Retry(S)
         \/ \E p \in Pushers, fails \in BOOLEAN : SendStep(p, fails)
         \/ \E f \in late : Resend(f)
         \/ RecvAnswer \/ Crash
Comms == \E f \in {wire[i] : i \in 1..Len(wire)}, gone \in BOOLEAN :
            Begin(f, gone) \/ Item(f, gone) \/ Commit(f, gone)
Engine == EvalStart \/ EvalCount \/ EvalRule

Next == Linux \/ Comms \/ Engine \/ Quiescent
Spec == Init /\ [][Next]_vars

-----------------------------------------------------------------------------
(* Properties *)

PushRec == [pc : {"idle", "stored", "send", "await", "ok", "failed", "rejected", "gone"},
            set : Offered, step : Steps, retry : 0..MAX_RETRIES]
Slots == Rules \cup {NoRule}
EvalRec == [pc : {"idle", "count", "run"}, buf : Buffers, n : 0..MAX_RULES,
            got : Seq(Slots), base : Seq(Slots), reused : BOOLEAN]

\* No index leaves its buffer; the set a frame carries is one a request stored.
TypeOK ==
    /\ store \in Offered
    /\ latest \in Pushers
    /\ push \in [Pushers -> PushRec]
    /\ \A p \in Pushers : /\ push[p].step <= Len(push[p].set) + 1
                          /\ push[p].pc = "stored" => push[p].step = 0
    /\ late \subseteq Frames
    /\ wire \in Seq(Frames) /\ Len(wire) <= RX_RING
    /\ answers \in Seq([p : Pushers, step : Steps, ok : BOOLEAN])
    /\ rules \in [Buffers -> [1..MAX_RULES -> Slots]]
    /\ count \in [Buffers -> 0..MAX_RULES]
    /\ active \in Buffers /\ shadow \in Buffers /\ building \in BOOLEAN
    /\ expected \in 0..MAX_RULES /\ filled \in Nat
    /\ eval \in EvalRec /\ Len(eval.got) <= eval.n
    /\ eval.pc = "run" \/ eval.got = <<>>
    /\ swapped \subseteq Pushers
    /\ lost \in 0..MaxLost /\ crashes \in 0..MaxCrashes /\ evals \in 0..MaxEvals

\* The engine only ever runs a complete set that some request stored, whatever is
\* lost, repeated or interleaved.
ActiveComplete == ActiveSet \in Offered

\* A message never touches the active buffer: the running set changes in one step,
\* to the whole set of the push whose COMMIT is executed.
SwapsWholeSet ==
    [][ActiveSet' # ActiveSet =>
         \E f \in {wire[i] : i \in 1..Len(wire)} :
            f.step = Last(f) /\ ActiveSet' = f.set /\ f.p \in swapped']_vars

\* PushRules reports success only for a set that became active.
OkMeansSwapped == \A p \in Pushers : push[p].pc = "ok" => p \in swapped

\* An evaluation works on the set that was active when it began, whatever is uploaded
\* and committed meanwhile, until an upload begins after such a commit.
EvalConsistent ==
    eval.pc = "run" /\ ~eval.reused =>
        /\ eval.n = Len(eval.base)
        /\ \A i \in 1..Len(eval.got) : eval.got[i] = eval.base[i]

\* As long as requests do not overlap: when the last one succeeded, the engine runs what
\* the database holds, whatever the requests before it left in the ring or half uploaded.
\* (Nothing serialises requests.  Of two that overlap, both can succeed and the set that
\* was read first can be the one that is uploaded last.)
EngineMatchesStore ==
    MaxParallel = 1 /\ InProgress = {} /\ push[latest].pc = "ok" => ActiveSet = store
=============================================================================
