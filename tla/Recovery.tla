------------------------------- MODULE Recovery -------------------------------
(***************************************************************************)
(* Recovery from a dead M4F (breaker.go, main.go, protocol.go, the units    *)
(* and scripts of Gateway/Setup).  The only cure on AM62 is a reboot of the *)
(* whole gateway; a counter of deaths in a file lets the service reboot a   *)
(* few times at once and then wait longer and longer.                      *)
(*                                                                         *)
(* What spans a reboot is the file system: a write reaches the page cache   *)
(* and, some time later, at the latest with Sync or with the unmounting of  *)
(* a clean shutdown, the disk.  A hard reset (M4F fault, hardware watchdog,  *)
(* power loss) loses the cache.                                            *)
(*                                                                         *)
(* Time: a timer may expire at any moment.  The two lengths that decisions  *)
(* read are kept as facts: the M4F has been connected for bkStabilityT      *)
(* (long), and the step of the backoff table a wait was taken from.        *)
(***************************************************************************)
EXTENDS Naturals

CONSTANTS
    FREE_REBOOTS,  \* bkFreeReboots (3)
    STAGES,        \* entries of bkBackoffs (3)
    MaxBoots,      \* bound: boots of the gateway
    MaxCrashes,    \* bound: crashes of the service, or kills by its watchdog
    MaxResets,     \* bound: hard resets
    MaxWriteFails  \* bound: writes of the counter that fail

ASSUME RecoveryAssumption ==
    /\ FREE_REBOOTS \in Nat /\ STAGES \in Nat \ {0} /\ MaxBoots \in Nat
    /\ MaxCrashes \in Nat /\ MaxResets \in Nat /\ MaxWriteFails \in Nat

VARIABLES
    m4f,       \* "ok", "hung" (silent), or "gone" (its device is gone)
    svc,       \* the service: see Service
    peerDead,  \* peerDeadCh is closed
    long,      \* the M4F has been connected for bkStabilityT
    watch,     \* watchM4FStability: "none", "armed", "passed"
    rec,       \* handlePeerDead: where it stands, the count and the stage decided on
    cache,     \* the files under /var/lib/bramka as programs see them
    disk,      \* the same files as a hard reset leaves them
    marker,    \* /run/bramka/degraded
    request,   \* /run/bramka/reboot-request
    phase,     \* the gateway: "up", "stopping", "stopped"
    accounted, \* the boot accounting unit has run
    boots, crashes, resets, fails,
    verdict,   \* the cause accounting found for this boot
    ended,     \* history: how the previous run ended
    wrote,     \* history: the breadcrumb was written in this run, in one not accounted for
    free,      \* history: reboots without a wait since the M4F was last stable
    waited     \* history: stage of the last wait since then, 0 if none

procVars == <<svc, peerDead, long, watch, rec>>
fsVars   == <<cache, disk>>
runVars  == <<marker, request>>
bootVars == <<phase, accounted, verdict, ended, boots>>
faults   == <<crashes, resets, fails>>
ghosts   == <<wrote, free, waited>>
vars == <<m4f, procVars, fsVars, runVars, bootVars, faults, ghosts>>

\* "idle": runServe returned after HELLO failed, the process lives on.
Service == {"off", "hello", "idle", "connected"}
NoRec   == [pc |-> "wait", deaths |-> 0, stage |-> 0]
Empty   == [deaths |-> 0, reason |-> FALSE, clean |-> FALSE]

Init ==
    /\ m4f \in {"ok", "hung", "gone"}
    /\ svc = "off" /\ peerDead = FALSE /\ long = FALSE /\ watch = "none" /\ rec = NoRec
    /\ cache = Empty /\ disk = Empty
    /\ marker = FALSE /\ request = FALSE
    /\ phase = "up" /\ accounted = FALSE /\ verdict = "none" /\ ended = "hard" /\ boots = 1
    /\ crashes = 0 /\ resets = 0 /\ fails = 0
    /\ wrote = [now |-> FALSE, before |-> FALSE] /\ free = 0 /\ waited = 0

LowerOf(a, b) == IF a < b THEN a ELSE b

\* Mutants of the definitions below, one plausible slip each; no action uses them.
StageOf_NoCap(deaths) == IF deaths <= FREE_REBOOTS THEN 0 ELSE deaths - FREE_REBOOTS
StageOf_Wraps(deaths) ==
    IF deaths <= FREE_REBOOTS THEN 0 ELSE ((deaths - FREE_REBOOTS) % STAGES) + 1
Counted_SinceConnect == (IF svc = "connected" THEN 0 ELSE cache.deaths) + 1
Detects_HeartbeatAlways == svc # "off"
Consumed_Nothing == cache
Synced_ReasonOnly == [disk EXCEPT !.reason = cache.reason]
StopMarker_WithReason == [cache EXCEPT !.clean = cache.reason]
Forgiven_IfThrottled ==
    IF cache.deaths > FREE_REBOOTS THEN [cache EXCEPT !.deaths = 0] ELSE cache
Wake_WhenBack ==
    /\ rec.pc = "sleep" /\ m4f = "ok"
    /\ rec' = [rec EXCEPT !.pc = "reason"]
    /\ UNCHANGED <<m4f, svc, peerDead, long, watch, fsVars, runVars, bootVars, faults,
                   ghosts>>

-----------------------------------------------------------------------------
(* The M4F *)

\* On its own it never comes back; a hard fault of the M4F is a HardReset.
Die ==
    /\ phase = "up" /\ m4f # "gone"
    /\ m4f' \in (IF m4f = "ok" THEN {"hung", "gone"} ELSE {"gone"})
    /\ UNCHANGED <<procVars, fsVars, runVars, bootVars, faults, ghosts>>

-----------------------------------------------------------------------------
(* The service *)

\* systemd starts it, at boot and RestartSec after a failure; OpenTransport waits for the
\* device and exits when there is none, to be started again.
StartService ==
    /\ phase = "up" /\ svc = "off" /\ m4f # "gone"
    /\ svc' = "hello"
    /\ UNCHANGED <<m4f, peerDead, long, watch, rec, fsVars, runVars, bootVars, faults,
                   ghosts>>

\* A panic, a kill, a missed WATCHDOG=1: nothing of the process survives but its files.
ServiceDown ==
    /\ svc' = "off" /\ peerDead' = FALSE /\ long' = FALSE /\ watch' = "none" /\ rec' = NoRec

CrashService ==
    /\ phase = "up" /\ svc # "off" /\ crashes < MaxCrashes
    /\ crashes' = crashes + 1
    /\ ServiceDown
    /\ UNCHANGED <<m4f, fsVars, runVars, bootVars, resets, fails, ghosts>>

\* helloWithRetry succeeds: the M4F is CONNECTED and the stability watcher starts.
HelloDone ==
    /\ svc = "hello" /\ m4f = "ok"
    /\ svc' = "connected" /\ watch' = "armed"
    /\ UNCHANGED <<m4f, peerDead, long, rec, fsVars, runVars, bootVars, faults, ghosts>>

\* ... or fails after the last attempt, and runServe returns.
HelloFails ==
    /\ svc = "hello" /\ m4f # "ok"
    /\ svc' = "idle"
    /\ UNCHANGED <<m4f, peerDead, long, watch, rec, fsVars, runVars, bootVars, faults,
                   ghosts>>

\* The heartbeat runs only while CONNECTED; the device watcher always.
Detects == (svc = "connected" /\ m4f = "hung") \/ (svc # "off" /\ m4f = "gone")

SignalPeerDead ==
    /\ ~peerDead /\ Detects
    /\ peerDead' = TRUE
    /\ UNCHANGED <<m4f, svc, long, watch, rec, fsVars, runVars, bootVars, faults, ghosts>>

\* bkStabilityT has passed since the connection: what came before is forgiven.
GetsStable ==
    /\ svc = "connected" /\ ~long /\ rec.pc = "wait"
    /\ long' = TRUE /\ free' = 0 /\ waited' = 0
    /\ UNCHANGED <<m4f, svc, peerDead, watch, rec, fsVars, runVars, bootVars, faults,
                   wrote>>

-----------------------------------------------------------------------------
(* watchM4FStability *)

\* The timer, and the second look at PeerDeadCh.
WatchFires ==
    /\ watch = "armed" /\ long
    /\ watch' = IF peerDead THEN "none" ELSE "passed"
    /\ UNCHANGED <<m4f, svc, peerDead, long, rec, fsVars, runVars, bootVars, faults,
                   ghosts>>

Forgiven == [cache EXCEPT !.deaths = 0]

WatchClears ==
    /\ watch = "passed"
    /\ watch' = "none"
    /\ cache' = Forgiven
    /\ marker' = FALSE
    /\ UNCHANGED <<m4f, svc, peerDead, long, rec, disk, request, bootVars, faults, ghosts>>

-----------------------------------------------------------------------------
(* handlePeerDead *)

Counted == (IF long THEN 0 ELSE cache.deaths) + 1

\* Which entry of the backoff table a count leads to; 0 is an immediate reboot.
StageOf(deaths) ==
    IF deaths <= FREE_REBOOTS THEN 0 ELSE LowerOf(deaths - FREE_REBOOTS, STAGES)

\* decideRecovery.  A write that fails is only logged; it leaves the old count, or, the
\* file being truncated first, no count at all.
Decide(works) ==
    LET d == Counted s == StageOf(d) IN
    /\ rec.pc = "wait" /\ peerDead
    /\ \/ works /\ cache' = [cache EXCEPT !.deaths = d] /\ fails' = fails
       \/ /\ ~works /\ fails < MaxWriteFails
          /\ \E left \in {0, cache.deaths} : cache' = [cache EXCEPT !.deaths = left]
          /\ fails' = fails + 1
    /\ rec' = [pc |-> IF s = 0 THEN "reason" ELSE "alarm", deaths |-> d, stage |-> s]
    /\ waited' = IF s = 0 THEN waited ELSE s
    /\ UNCHANGED <<m4f, svc, peerDead, long, watch, disk, runVars, bootVars, crashes,
                   resets, wrote, free>>

Alarm ==
    /\ rec.pc = "alarm"
    /\ marker' = TRUE
    /\ rec' = [rec EXCEPT !.pc = "sleep"]
    /\ UNCHANGED <<m4f, svc, peerDead, long, watch, fsVars, request, bootVars, faults,
                   ghosts>>

\* The backoff has passed: an unconditional retry.
Wake ==
    /\ rec.pc = "sleep"
    /\ rec' = [rec EXCEPT !.pc = "reason"]
    /\ UNCHANGED <<m4f, svc, peerDead, long, watch, fsVars, runVars, bootVars, faults,
                   ghosts>>

\* recoverByReboot: breadcrumb, Sync, request.
WriteReason ==
    /\ rec.pc = "reason"
    /\ cache' = [cache EXCEPT !.reason = TRUE]
    /\ wrote' = [wrote EXCEPT !.now = TRUE]
    /\ rec' = [rec EXCEPT !.pc = "sync"]
    /\ UNCHANGED <<m4f, svc, peerDead, long, watch, disk, runVars, bootVars, faults, free,
                   waited>>

Synced == cache

Sync ==
    /\ rec.pc = "sync"
    /\ disk' = Synced
    /\ rec' = [rec EXCEPT !.pc = "request"]
    /\ UNCHANGED <<m4f, svc, peerDead, long, watch, cache, runVars, bootVars, faults,
                   ghosts>>

Request ==
    /\ rec.pc = "request"
    /\ request' = TRUE
    /\ rec' = [rec EXCEPT !.pc = "blocked"]
    /\ free' = IF rec.stage = 0 THEN free + 1 ELSE free
    /\ UNCHANGED <<m4f, svc, peerDead, long, watch, fsVars, marker, bootVars, faults,
                   wrote, waited>>

-----------------------------------------------------------------------------
(* The operating system *)

\* The kernel writes back one file.
Flush(f) ==
    /\ cache[f] # disk[f]
    /\ disk' = [disk EXCEPT ![f] = cache[f]]
    /\ UNCHANGED <<m4f, procVars, cache, runVars, bootVars, faults, ghosts>>

Consumed == [cache EXCEPT !.reason = FALSE, !.clean = FALSE]

\* bramka-boot-accounting, once per boot, not ordered with the service.
Account ==
    /\ phase = "up" /\ ~accounted
    /\ accounted' = TRUE
    /\ verdict' = CASE cache.reason -> "go"
                    [] ~cache.reason /\ cache.clean -> "clean"
                    [] OTHER -> "unexpected"
    /\ cache' = Consumed
    /\ UNCHANGED <<m4f, procVars, disk, runVars, phase, ended, boots, faults, ghosts>>

\* An operator reboots.
Shutdown ==
    /\ phase = "up"
    /\ phase' = "stopping" /\ request' = FALSE
    /\ UNCHANGED <<m4f, procVars, fsVars, marker, accounted, verdict, ended, boots,
                   faults, ghosts>>

\* bramka-reboot.path consumes the request and reboots.
PathUnit == request /\ Shutdown

StopMarker == IF accounted THEN [cache EXCEPT !.clean = TRUE] ELSE cache

\* The units stop; the accounting unit, if it was active, leaves its marker.
StopUnits ==
    /\ phase = "stopping"
    /\ phase' = "stopped"
    /\ ServiceDown
    /\ cache' = StopMarker
    /\ UNCHANGED <<m4f, disk, runVars, accounted, verdict, ended, boots, faults, ghosts>>

\* /run is empty after any boot; the M4F may be as dead as before.
Boot(left, how) ==
    /\ boots < MaxBoots
    /\ boots' = boots + 1
    /\ phase' = "up" /\ accounted' = FALSE /\ verdict' = "none" /\ ended' = how
    /\ m4f' \in {"ok", "hung", "gone"}
    /\ cache' = left /\ disk' = left
    /\ marker' = FALSE /\ request' = FALSE
    /\ wrote' = [now |-> FALSE, before |-> wrote.now \/ (~accounted /\ wrote.before)]
    /\ ServiceDown

Reboot ==
    /\ phase = "stopped"
    /\ Boot(cache, IF accounted THEN "clean" ELSE "early")
    /\ UNCHANGED <<faults, free, waited>>

\* A counter not yet written back is lost, or its file is left empty.
HardReset ==
    /\ resets < MaxResets
    /\ resets' = resets + 1
    /\ \E d \in {disk.deaths} \cup (IF cache.deaths # disk.deaths THEN {0} ELSE {}) :
          Boot([disk EXCEPT !.deaths = d], "hard")
    /\ UNCHANGED <<crashes, fails, free, waited>>

-----------------------------------------------------------------------------
Breaker == \/ (\E works \in BOOLEAN : Decide(works))
           \/ Alarm \/ Wake \/ WriteReason \/ Sync \/ Request
Running == \/ StartService \/ HelloDone \/ HelloFails \/ SignalPeerDead \/ GetsStable
           \/ WatchFires \/ WatchClears \/ Breaker
System  == \/ (\E f \in DOMAIN Empty : Flush(f))
           \/ Account \/ Shutdown \/ PathUnit \/ StopUnits \/ Reboot
\* The model, not the gateway, ends after MaxBoots.
End == phase = "stopped" /\ boots = MaxBoots /\ UNCHANGED vars

Next == Die \/ Running \/ CrashService \/ System \/ HardReset \/ End
Spec == Init /\ [][Next]_vars

\* Ready goroutines and timers run, systemd does what its units say.
Fairness ==
    /\ WF_vars(StartService) /\ WF_vars(HelloDone) /\ WF_vars(HelloFails)
    /\ WF_vars(SignalPeerDead) /\ WF_vars(WatchFires) /\ WF_vars(WatchClears)
    /\ WF_vars(Breaker) /\ WF_vars(PathUnit) /\ WF_vars(StopUnits)
FairSpec == Spec /\ Fairness

-----------------------------------------------------------------------------
(* Properties *)

Files == [deaths : Nat, reason : BOOLEAN, clean : BOOLEAN]
RecRec == [pc : {"wait", "alarm", "sleep", "reason", "sync", "request", "blocked"},
           deaths : Nat, stage : 0..STAGES]

\* Every stage of a wait is an entry of the backoff table.
TypeOK ==
    /\ m4f \in {"ok", "hung", "gone"} /\ svc \in Service
    /\ peerDead \in BOOLEAN /\ long \in BOOLEAN
    /\ watch \in {"none", "armed", "passed"} /\ rec \in RecRec
    /\ cache \in Files /\ disk \in Files /\ marker \in BOOLEAN /\ request \in BOOLEAN
    /\ phase \in {"up", "stopping", "stopped"} /\ accounted \in BOOLEAN
    /\ verdict \in {"none", "go", "clean", "unexpected"}
    /\ ended \in {"clean", "early", "hard"}
    /\ boots \in Nat /\ crashes \in 0..MaxCrashes /\ resets \in 0..MaxResets
    /\ fails \in 0..MaxWriteFails
    /\ wrote \in [now : BOOLEAN, before : BOOLEAN] /\ free \in Nat /\ waited \in 0..STAGES

\* breaker.go, "KEY INVARIANT": a reboot is asked for, and the degraded mode entered, only
\* for an M4F that is dead, across crashes of the service and reboots by hand.
HealthyNeverRebooted == request \/ marker \/ rec.pc # "wait" => m4f # "ok"

\* As long as the counter is written and no reset interferes, a storm costs at most one
\* reboot more than the free ones before the service waits, however the deaths, the
\* restarts of the service and the stability watcher interleave.  (The one more: the
\* watcher can clear a death that was just counted.  A counter that cannot be written
\* leaves the reboots without any limit.)
StormBounded == resets = 0 /\ fails = 0 => free <= FREE_REBOOTS + 1

\* The waits of a storm never get shorter; only a stable M4F starts over, or a counter
\* that was not written or was lost.
BackoffGrows == [][resets' = 0 /\ fails' = 0 /\ waited' < waited => ~long /\ long']_vars

\* When a reboot is asked for, the death it answers is counted on disk, so that even a
\* reset instead of the clean reboot finds it, unless the M4F had been stable.
CountSurvives == fails = 0 /\ rec.pc = "blocked" => disk.deaths = rec.deaths \/ long

\* Accounting blames a hard reset only if the previous run did not end in a clean
\* shutdown that the accounting unit saw.
UnexpectedIsHard == verdict = "unexpected" => ended # "clean"

\* Accounting blames the service only if it wrote the breadcrumb since the last boot
\* that was accounted for: what was read is consumed "so [it does not] leak into next
\* boot".  (A hard reset soon after a boot brings a consumed breadcrumb back.)
VerdictIsFresh == resets = 0 /\ verdict = "go" => wrote.before \/ wrote.now

\* A death that was noticed is answered: the service goes down with the gateway.
DeathIsAnswered == peerDead ~> svc = "off"

\* An M4F that stays connected gets its free reboots back.
StableForgives == long /\ watch # "none" ~> cache.deaths = 0 \/ peerDead \/ svc = "off"
=============================================================================
