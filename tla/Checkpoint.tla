------------------------------ MODULE Checkpoint ------------------------------
(***************************************************************************)
(* The runtime checkpoint of one delegate: what the daemon inside the      *)
(* sandbox (agentkeys-daemon, checkpoint.rs) saves and restores, and the   *)
(* import guard of the bridge it restores through (agentkeys-dsh,          *)
(* bridge-mgmt.ts).  Left out: the home that the broker hands over itself  *)
(* when an operator updates a sandbox (update.rs), and an import that is   *)
(* still being written when the daemon's own request for it times out.     *)
(*                                                                         *)
(* Two objects outlive a sandbox in the memory worker: the runtime home    *)
(* and the engine workspace.  What an object holds is the set of units of  *)
(* work that went into it, so "restored", "rolled back" and "overwritten"  *)
(* are inclusions between sets.  A daemon restart keeps the sandbox's      *)
(* files; a respawn loses all of them.                                     *)
(***************************************************************************)
EXTENDS Naturals, FiniteSets

CONSTANTS
  MaxWork,   \* units of work done in the two live directories
  MaxTime,   \* bound on the clock that stamps snapshots
  MaxBytes,  \* max_bytes, in units of work: what a save still takes
  MaxFaults, \* calls and file operations that fail, refusals, saves without a session
  MaxLives   \* daemon restarts and sandbox respawns together

ASSUME CheckpointAssumption ==
  MaxWork \in Nat /\ MaxTime \in Nat \ {0}
  /\ MaxBytes \in Nat /\ MaxFaults \in Nat /\ MaxLives \in Nat

VARIABLES
  clock,      \* seconds, the snapshot_at of an export made now
  work,       \* units of work done so far
  live,       \* what the sandbox's home and workspace hold
  stored,     \* the two objects in the memory worker
  pc,         \* where the daemon's loop is
  got,        \* the snapshot the daemon fetched or exported last
  restore,    \* RestoreState of each object
  ticking,    \* phase 2 of run_loop: restores retried, then saves
  last,       \* content of the last save that was acknowledged
  marker,     \* AGENTKEYS_OV_RESTORE_MARKER exists
  hold,       \* <marker>.pending exists
  holding,    \* engine_hold of the daemon is Some
  overrun,    \* engine_hold_max passed in this sandbox
  waived,     \* history: this sandbox's hold was late, not declared, or given up
  engine,     \* the engine's start script let it run
  lastImport, \* lastImportSnapshotAt of the bridge, 0 when undefined
  imports,    \* imports the bridge admitted and has not written yet
  refused,    \* history: restores this sandbox was definitively refused
  lives,
  faults

sandboxVars == <<marker, hold, holding, overrun, waived, engine>>
bridgeVars == <<lastImport, imports>>
daemonVars == <<pc, got, restore, ticking, last, refused>>
checkpointVars == <<clock, work, live, stored, daemonVars, sandboxVars, bridgeVars, lives, faults>>

Objects == {"home", "workspace"}
Units == 1..MaxWork
Snapshot == [at : 1..MaxTime, units : SUBSET Units]
Nothing == [at |-> 0, units |-> {}]
NeverSaved == {0}
SaveStep == [home |-> "save home", workspace |-> "save workspace"]
PutStep == [home |-> "put home", workspace |-> "put workspace"]

CheckpointTypeOK ==
  /\ clock \in 1..MaxTime /\ work \in 0..MaxWork /\ lives \in 0..MaxLives /\ faults \in 0..MaxFaults
  /\ live \in [Objects -> SUBSET (1..work)]
  /\ stored \in [Objects -> Snapshot \cup {Nothing}]
  /\ \A o \in Objects : stored[o].units \subseteq 1..work
  /\ pc \in {"boot", "credential", "off",
              "home", "import", "importing", "workspace", "unpack", "swapped", "settled"}
              \cup {SaveStep[o] : o \in Objects} \cup {PutStep[o] : o \in Objects}
  /\ got \in Snapshot \cup {Nothing}
  /\ restore \in [Objects -> {"pending", "concluded", "held"}] /\ restore["home"] # "held"
  /\ ticking \in BOOLEAN /\ refused \subseteq Objects
  /\ last \in [Objects -> (SUBSET Units) \cup {NeverSaved}]
  /\ marker \in BOOLEAN /\ hold \in BOOLEAN /\ holding \in BOOLEAN
  /\ overrun \in BOOLEAN /\ waived \in BOOLEAN /\ engine \in BOOLEAN
  /\ lastImport \in 0..MaxTime
  /\ imports \subseteq [life : 0..MaxLives, snapshot : Snapshot]

CheckpointInit ==
  /\ clock = 1 /\ work = 0 /\ lives = 0 /\ faults = 0
  /\ live = [o \in Objects |-> {}]
  /\ stored = [o \in Objects |-> Nothing]
  /\ pc = "boot" /\ got = Nothing
  /\ restore = [o \in Objects |-> "pending"]
  /\ ticking = FALSE /\ refused = {}
  /\ last = [o \in Objects |-> NeverSaved]
  /\ marker = FALSE /\ hold = FALSE /\ holding = FALSE
  /\ overrun = FALSE /\ waived = FALSE /\ engine = FALSE
  /\ lastImport = 0 /\ imports = {}

-----------------------------------------------------------------------------
(* The sandbox around the daemon. *)

Fault == faults < MaxFaults /\ faults' = faults + 1

Tick ==
  /\ clock < MaxTime
  /\ clock' = clock + 1
  /\ UNCHANGED <<work, live, stored, daemonVars, sandboxVars, bridgeVars, lives, faults>>

\* A turn writes the home; the engine, once it runs, writes its workspace.
Work(o) ==
  /\ work < MaxWork
  /\ o = "workspace" => engine
  /\ work' = work + 1
  /\ live' = [live EXCEPT ![o] = @ \cup {work + 1}]
  /\ UNCHANGED <<clock, stored, daemonVars, sandboxVars, bridgeVars, lives, faults>>

\* The start script waits for the marker: its own bound for a hold to appear,
\* longer while the engine is held, and no longer than the bound the daemon
\* also uses.
EngineStarts ==
  /\ ~engine
  /\ marker \/ ~hold \/ overrun
  /\ engine' = TRUE
  /\ waived' = (waived \/ (pc = "boot" /\ ~hold))
  /\ UNCHANGED <<clock, work, live, stored, daemonVars, marker, hold, holding, overrun, bridgeVars, lives, faults>>

HoldOverruns ==
  /\ hold /\ ~overrun
  /\ overrun' = TRUE
  /\ UNCHANGED <<clock, work, live, stored, daemonVars, marker, hold, holding, waived, engine, bridgeVars, lives, faults>>

\* A daemon starts with both restores pending and no session.
Booted ==
  /\ pc' = "boot" /\ got' = Nothing /\ ticking' = FALSE /\ holding' = FALSE
  /\ restore' = [o \in Objects |-> "pending"]
  /\ last' = [o \in Objects |-> NeverSaved]

DaemonRestart ==
  /\ lives < MaxLives
  /\ lives' = lives + 1
  /\ Booted
  /\ UNCHANGED <<clock, work, live, stored, refused, marker, hold, overrun, waived, engine, bridgeVars, faults>>

\* The broker replaces the sandbox, or its lease ends and it is created anew.
Respawn ==
  /\ lives < MaxLives
  /\ lives' = lives + 1
  /\ live' = [o \in Objects |-> {}]
  /\ Booted
  /\ marker' = FALSE /\ hold' = FALSE
  /\ overrun' = FALSE /\ waived' = FALSE /\ engine' = FALSE /\ refused' = {}
  /\ lastImport' = 0 /\ imports' = {}
  /\ UNCHANGED <<clock, work, stored, faults>>

-----------------------------------------------------------------------------
(* The chat loop starts, and with it the checkpoint. *)

workspace_awaits_restore == ~marker /\ live["workspace"] = {}

\* The hold file goes, or cannot be removed.
release_engine ==
  \/ hold' = FALSE /\ UNCHANGED faults
  \/ Fault /\ UNCHANGED hold

\* The hold goes up before the credential is asked for, or is not declared
\* (a bound of zero, a file that cannot be written); where no restore is
\* awaited a stale one is cleared.
hold_engine ==
  /\ pc = "boot"
  /\ pc' = "credential"
  /\ \/ workspace_awaits_restore /\ hold' = TRUE /\ holding' = TRUE /\ UNCHANGED <<waived, faults>>
     \/ workspace_awaits_restore /\ release_engine /\ holding' = FALSE /\ waived' = TRUE
     \/ ~workspace_awaits_restore /\ release_engine /\ holding' = FALSE /\ UNCHANGED waived
  /\ UNCHANGED <<clock, work, live, stored, got, restore, ticking, last, refused, marker, overrun, engine, bridgeVars, lives>>

build_credential ==
  /\ pc = "credential"
  /\ pc' = "home"
  /\ UNCHANGED <<clock, work, live, stored, got, restore, ticking, last, refused, sandboxVars, bridgeVars, lives, faults>>

\* No credential (or no http client): nothing will restore the workspace, the
\* engine is let go and this daemon's checkpoint never runs.
release_engine_now ==
  /\ pc = "credential"
  /\ pc' = "off"
  /\ release_engine
  /\ waived' = (waived \/ (hold /\ ~hold'))
  /\ UNCHANGED <<clock, work, live, stored, got, restore, ticking, last, refused, marker, holding, overrun, engine, bridgeVars, lives>>

-----------------------------------------------------------------------------
(* The bridge: session/import. *)

Stale(s) == lastImport # 0 /\ s.at <= lastImport

\* The import the daemon of this life waits for; any other is an orphan.
Mine(i) == i.life = lives

\* After the guard the bridge disposes of the live agent and waits for its log
\* to go quiet; the bytes land later.
Admit(s) == imports' = imports \cup {[life |-> lives, snapshot |-> s]}

\* The files of a snapshot are written over the live ones: the work they have
\* in common stays, other live work is rolled back or in a file of its own.
Overlaid(s, low) == {h \in SUBSET (live["home"] \cup s.units) : low \subseteq h}

\* The bytes land, and the guard remembers the snapshot that landed last.
ImportLands(i) ==
  /\ \E h \in Overlaid(i.snapshot, i.snapshot.units) : live' = [live EXCEPT !["home"] = h]
  /\ lastImport' = i.snapshot.at
  /\ imports' = imports \ {i}

\* The daemon hears of its import, or the answer is lost on the way.
import_ends(i) ==
  /\ i \in imports
  /\ ImportLands(i)
  /\ IF Mine(i)
     THEN /\ pc' = "workspace"
          /\ \/ restore' = [restore EXCEPT !["home"] = "concluded"] /\ UNCHANGED faults
             \/ Fault /\ UNCHANGED restore
     ELSE UNCHANGED <<pc, restore, faults>>
  /\ UNCHANGED <<clock, work, stored, got, ticking, last, refused, sandboxVars, lives>>
-----------------------------------------------------------------------------
(* attempt_pending, the home first. *)

\* Mutant of Retries: only the boot window retries.
RetriesInWindow(o) == restore[o] = "pending" /\ ~ticking

Retries(o) == restore[o] = "pending"

Settle(o, state) == restore' = [restore EXCEPT ![o] = state]

\* No session, an expired one, a transport error, a 5xx, a throttle.
HomeTransient ==
  /\ Fault
  /\ pc = "import" \/ (pc = "home" /\ Retries("home"))
  /\ pc' = "workspace"
  /\ UNCHANGED <<clock, work, live, stored, got, restore, ticking, last, refused, sandboxVars, bridgeVars, lives>>

\* A 4xx, or an envelope this daemon cannot read: definitive.
HomeRefused ==
  /\ Fault
  /\ pc = "import" \/ (pc = "home" /\ Retries("home"))
  /\ Settle("home", "concluded")
  /\ refused' = refused \cup {"home"}
  /\ pc' = "workspace"
  /\ UNCHANGED <<clock, work, live, stored, got, ticking, last, sandboxVars, bridgeVars, lives>>

\* The 404 of memory_get.
NothingStored(o) == stored[o] = Nothing

\* memory_get: an object, or 404 and nothing to restore.
HomeGet ==
  /\ pc = "home" /\ Retries("home")
  /\ got' = stored["home"]
  /\ IF NothingStored("home")
     THEN Settle("home", "concluded") /\ pc' = "workspace"
     ELSE pc' = "import" /\ UNCHANGED restore
  /\ UNCHANGED <<clock, work, live, stored, ticking, last, refused, sandboxVars, bridgeVars, lives, faults>>

HomeSettled ==
  /\ pc = "home" /\ ~Retries("home")
  /\ pc' = "workspace"
  /\ UNCHANGED <<clock, work, live, stored, got, restore, ticking, last, refused, sandboxVars, bridgeVars, lives, faults>>

HomeImport ==
  /\ pc = "import"
  /\ IF Stale(got)
     THEN Settle("home", "concluded") /\ pc' = "workspace" /\ UNCHANGED imports
     ELSE Admit(got) /\ pc' = "importing" /\ UNCHANGED restore
  /\ UNCHANGED <<clock, work, live, stored, got, ticking, last, refused, sandboxVars, lastImport, lives, faults>>

\* Mutant of AfterHalfImport: a failed import is taken for a refusal.
AfterHalfImportConcluded == "concluded"

\* import_refusal on a 5xx: part of the snapshot landed, so nothing concludes.
AfterHalfImport == "pending"

HomeHalfImported ==
  /\ Fault
  /\ pc = "importing"
  /\ \E i \in imports :
       /\ Mine(i)
       /\ \E h \in Overlaid(got, got.units \cap live["home"]) : live' = [live EXCEPT !["home"] = h]
       /\ imports' = imports \ {i}
  /\ Settle("home", AfterHalfImport)
  /\ pc' = "workspace"
  /\ UNCHANGED <<clock, work, stored, got, ticking, last, refused, sandboxVars, lastImport, lives>>

(* The engine workspace. *)

ConcludeWorkspace == Settle("workspace", "concluded") /\ pc' = "settled"

\* A conclusion touches the marker the engine and a restarted daemon look for,
\* or cannot write it.
touch_marker ==
  \/ marker' = TRUE /\ UNCHANGED faults
  \/ Fault /\ UNCHANGED marker

WorkspaceTransient ==
  /\ Fault
  /\ pc = "unpack" \/ (pc = "workspace" /\ Retries("workspace") /\ ~marker)
  /\ pc' = "settled"
  /\ UNCHANGED <<clock, work, live, stored, got, restore, ticking, last, refused, sandboxVars, bridgeVars, lives>>

WorkspaceRefused ==
  /\ Fault
  /\ pc = "workspace" /\ Retries("workspace") /\ ~marker
  /\ ConcludeWorkspace /\ marker' \in {TRUE, marker}
  /\ refused' = refused \cup {"workspace"}
  /\ UNCHANGED <<clock, work, live, stored, got, ticking, last, hold, holding, overrun, waived, engine, bridgeVars, lives>>

workspace_settled_locally ==
  /\ pc = "workspace" /\ Retries("workspace") /\ marker
  /\ ConcludeWorkspace /\ touch_marker
  /\ UNCHANGED <<clock, work, live, stored, got, ticking, last, refused, hold, holding, overrun, waived, engine, bridgeVars, lives>>

\* A populated workspace beside a stored one is held: not restored, not saved.
Populated == "held"

workspace_restore ==
  /\ pc = "workspace" /\ Retries("workspace") /\ ~marker
  /\ got' = stored["workspace"]
  /\ IF NothingStored("workspace")
     THEN ConcludeWorkspace /\ touch_marker
     ELSE /\ UNCHANGED <<marker, faults>>
          /\ IF live["workspace"] # {}
             THEN Settle("workspace", Populated) /\ pc' = "settled"
             ELSE pc' = "unpack" /\ UNCHANGED restore
  /\ UNCHANGED <<clock, work, live, stored, ticking, last, refused, hold, holding, overrun, waived, engine, bridgeVars, lives>>

\* Extract aside, then one rename that a populated workspace makes fail.
unpack_workspace ==
  /\ pc = "unpack"
  /\ IF live["workspace"] # {}
     THEN Settle("workspace", Populated) /\ pc' = "settled" /\ UNCHANGED live
     ELSE /\ live' = [live EXCEPT !["workspace"] = got.units]
          /\ pc' = "swapped" /\ UNCHANGED restore
  /\ UNCHANGED <<clock, work, stored, got, ticking, last, refused, sandboxVars, bridgeVars, lives, faults>>

WorkspaceRestored ==
  /\ pc = "swapped"
  /\ ConcludeWorkspace /\ touch_marker
  /\ UNCHANGED <<clock, work, live, stored, got, ticking, last, refused, hold, holding, overrun, waived, engine, bridgeVars, lives>>

WorkspaceSettled ==
  /\ pc = "workspace" /\ ~Retries("workspace")
  /\ pc' = "settled"
  /\ UNCHANGED <<clock, work, live, stored, got, restore, ticking, last, refused, sandboxVars, bridgeVars, lives, faults>>

\* Mutant of engine_stays_held: the first attempt releases the engine.
engine_held_once == FALSE

engine_stays_held == Retries("workspace") /\ ~overrun

\* keep_engine_hold, then another attempt inside the boot window, or the tick.
run_loop ==
  /\ pc = "settled"
  /\ IF holding /\ ~engine_stays_held
     THEN release_engine /\ holding' = FALSE
     ELSE UNCHANGED <<hold, holding, faults>>
  /\ \/ /\ ~ticking /\ \E o \in Objects : Retries(o)
        /\ pc' = "home" /\ UNCHANGED ticking
     \/ ticking' = TRUE /\ pc' = SaveStep["workspace"]
  /\ UNCHANGED <<clock, work, live, stored, got, restore, last, refused, marker, overrun, waived, engine, bridgeVars, lives>>

-----------------------------------------------------------------------------
(* Saves: workspace_save, then save_once for the home. *)

Saves(o) == restore[o] = "concluded"
AfterSave(o) == IF o = "workspace" THEN SaveStep["home"] ELSE "home"
Changed(o) == live[o] # last[o] /\ (o = "workspace" => live[o] # {})

\* The cap: the same content is refused at every tick.
TooLarge(o) == Cardinality(live[o]) > MaxBytes

\* Not concluded, unchanged or too large; or, of what would be saved, no session.
SaveSkipped(o) ==
  /\ pc = SaveStep[o]
  /\ IF Saves(o) /\ Changed(o) /\ ~TooLarge(o) THEN Fault ELSE UNCHANGED faults
  /\ pc' = AfterSave(o)
  /\ UNCHANGED <<clock, work, live, stored, got, restore, ticking, last, refused, sandboxVars, bridgeVars, lives>>

\* The first save waits FIRST_TICK_DELAY_SECS, or ENGINE_HOLD_RETRY_SECS while
\* the engine is held; the import a dead daemon left behind (settleQuiet waits
\* 8 seconds at most) has landed by then.
FirstTickDelay(o) == o = "home" => imports = {}

Export(o) ==
  /\ pc = SaveStep[o]
  /\ FirstTickDelay(o)
  /\ Saves(o) /\ Changed(o) /\ ~TooLarge(o)
  /\ got' = [at |-> clock, units |-> live[o]]
  /\ pc' = PutStep[o]
  /\ UNCHANGED <<clock, work, live, stored, restore, ticking, last, refused, sandboxVars, bridgeVars, lives, faults>>

memory_put(o) ==
  /\ pc = PutStep[o]
  /\ stored' = [stored EXCEPT ![o] = got]
  /\ last' = [last EXCEPT ![o] = got.units]
  /\ pc' = AfterSave(o)
  /\ UNCHANGED <<clock, work, live, got, restore, ticking, refused, sandboxVars, bridgeVars, lives, faults>>

\* Mutant of FingerprintAfterFailure: it is kept before the put is answered.
FingerprintAnyway(o) == got.units

\* The fingerprint is kept only for an acknowledged put.
FingerprintAfterFailure(o) == last[o]

\* Refused, lost, or landed with its answer lost.
PutFails(o) ==
  /\ Fault
  /\ pc = PutStep[o]
  /\ stored' \in {stored, [stored EXCEPT ![o] = got]}
  /\ last' = [last EXCEPT ![o] = FingerprintAfterFailure(o)]
  /\ pc' = AfterSave(o)
  /\ UNCHANGED <<clock, work, live, got, restore, ticking, refused, sandboxVars, bridgeVars, lives>>

-----------------------------------------------------------------------------
Daemon ==
  \/ hold_engine \/ build_credential \/ release_engine_now
  \/ HomeTransient \/ HomeRefused \/ HomeGet \/ HomeSettled \/ HomeImport \/ HomeHalfImported
  \/ WorkspaceTransient \/ WorkspaceRefused \/ workspace_settled_locally \/ workspace_restore
  \/ unpack_workspace \/ WorkspaceRestored \/ WorkspaceSettled \/ run_loop
  \/ \E o \in Objects : SaveSkipped(o) \/ Export(o) \/ memory_put(o) \/ PutFails(o)

CheckpointNext ==
  \/ Tick \/ EngineStarts \/ HoldOverruns \/ DaemonRestart \/ Respawn
  \/ \E o \in Objects : Work(o)
  \/ \E i \in imports : import_ends(i)
  \/ Daemon

CheckpointSpec == CheckpointInit /\ [][CheckpointNext]_checkpointVars

(***************************************************************************)
(* Fairness.  Once started, the loop never ends and every call in it has a *)
(* timeout, so the daemon keeps stepping, and the bridge finishes what it  *)
(* admitted; a daemon without a credential stops, and nothing has to start *)
(* another.  Calls fail at most MaxFaults times: a worker or a signer down *)
(* for ever would refute every claim, and what is checked is that no       *)
(* finite pattern of failures leaves the loop stuck.                       *)
(***************************************************************************)
CheckpointFairness == WF_checkpointVars(Daemon) /\ WF_checkpointVars(\E i \in imports : import_ends(i))

CheckpointFairSpec == CheckpointSpec /\ CheckpointFairness

-----------------------------------------------------------------------------
(* Properties. *)

(***************************************************************************)
(* A save never drops work that only the stored object still had ("Nothing *)
(* is saved over an object until its restore CONCLUDES"), over pending     *)
(* restores, half-landed imports, held workspaces, restarts and respawns,  *)
(* unless this sandbox's restore was definitively refused.                 *)
(***************************************************************************)
StoredIsNeverDropped ==
  [][\A o \in Objects :
       \/ stored[o].units \subseteq stored'[o].units
       \/ o \in refused]_checkpointVars

(***************************************************************************)
(* The hold does its job: a workspace restore is held back for the next    *)
(* respawn only if the engine outlasted the hold's bound, if this          *)
(* sandbox's hold came after the engine's own wait, was not declared or    *)
(* was given up with the credential, if an earlier daemon of the sandbox   *)
(* was definitively refused the object, or if the workspace already has    *)
(* all that is stored.                                                     *)
(***************************************************************************)
HeldOnlyBehindTheEngine ==
  restore["workspace"] = "held" =>
    \/ overrun \/ waived \/ "workspace" \in refused
    \/ stored["workspace"].units \subseteq live["workspace"]

(***************************************************************************)
(* A restore left pending by the boot window is settled by some later tick *)
(* (or by the daemon that follows a restart), unless the daemon could not  *)
(* start its loop at all.                                                  *)
(***************************************************************************)
RestoresSettle ==
  \A o \in Objects : restore[o] = "pending" ~> (restore[o] # "pending" \/ pc = "off")

(***************************************************************************)
(* Once the home's restore has concluded, work in it becomes durable,      *)
(* whatever puts fail, unless the home grows past the cap (every save of   *)
(* it is then refused, and only logged), is rolled back, or the daemon or  *)
(* the sandbox is replaced first.                                          *)
(***************************************************************************)
HomeBecomesDurable ==
  \A u \in Units :
    (restore["home"] = "concluded" /\ u \in live["home"])
      ~> (\/ u \in stored["home"].units \/ u \notin live["home"]
          \/ restore["home"] # "concluded" \/ TooLarge("home"))

(***************************************************************************)
(* Types, and a workspace held back only behind an engine that the hold    *)
(* could not keep waiting (checkpoint.rs:434 and 879).                     *)
(***************************************************************************)
CheckpointInv == CheckpointTypeOK /\ HeldOnlyBehindTheEngine
=============================================================================
