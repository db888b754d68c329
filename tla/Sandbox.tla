------------------------------ MODULE Sandbox ------------------------------
(***************************************************************************)
(* The life of a delegate's sandbox: the broker's durable spawn contexts,  *)
(* the nine flows that start, replace and stop a runtime (lease sweeper,   *)
(* wake, update, resolve, pairing poll, spawn and revoke finalization,     *)
(* rebind, rehydrate) and the Docker runtime they share, one container per *)
(* device key.                                                             *)
(*                                                                         *)
(* A flow is a process that awaits the chain, the engine or the gate       *)
(* between its steps, so flows interleave at every await; `proc` holds     *)
(* what a flow carries across them.  Only the engine calls of one device   *)
(* are serialised, by its lock.  Every awaited call may fail.  The ensures *)
(* and an update's replacement run on tasks of their own; a handler that   *)
(* awaits a gate call or a teardown's kill dies with its caller (HangUp).  *)
(*                                                                         *)
(* A crash loses the processes, the locks, the claims, the pending         *)
(* ceremonies and the controllers of the containers; spawn contexts, gate  *)
(* keys and containers survive.  Left out: the session snapshot an update  *)
(* carries over, images, networks and volumes.  The Docker runtime reports *)
(* no lease expiry, so the sweeper's rotation is unreachable here.  The    *)
(* claim a pairing poll presents is the business of Pairing; here any poll *)
(* may find one.  A reset of the operator, the only way a revoked key can  *)
(* be registered again, is left to SidecarRegistry.                        *)
(***************************************************************************)
EXTENDS Integers, FiniteSets

CONSTANTS
  Devices,    \* device key hashes of the delegates
  AlwaysOn,   \* the delegates whose app must not hibernate
  Scheduled,  \* the delegates whose app hibernates between schedule ticks
  Workers,    \* concurrent request handlers
  Sweeper,    \* the lease sweeper task
  None,       \* no process, no device
  Managed,    \* the runtime attaches a controller to every container
  MaxCrashes  \* bound: crashes of the broker

Procs == Workers \cup {Sweeper}

ASSUME SandboxAssumption ==
  /\ AlwaysOn \subseteq Devices
  /\ Scheduled \subseteq Devices \ AlwaysOn
  /\ None \notin Procs \cup Devices
  /\ Sweeper \notin Workers
  /\ Managed \in BOOLEAN
  /\ MaxCrashes \in Nat

VARIABLES
  chain,    \* external: device -> "live" or "revoked" in the registry
  ctx,      \* device -> a spawn context row exists
  pending,  \* device -> a spawn ceremony is pending in memory
  box,      \* device -> state of its container
  lease,    \* device -> the broker holds an active controller of it
  relay,    \* device -> the gate holds a live model key for it
  lock,     \* device -> process that holds its DelegateLocks entry
  claims,   \* devices with a wake's cold-create in flight
  queue,    \* rows the running sweep has yet to visit
  proc,     \* process -> the flow it runs
  crashes,
  unstopped \* history: devices with a teardown that logged a failed kill

disk == <<ctx, relay>>
memory == <<pending, lease, lock, claims, queue>>
history == <<crashes, unstopped>>
vars == <<chain, disk, memory, box, proc, history>>

Jobs == {"sweep", "wake", "update", "resolve", "spawn", "revoke", "rebind",
         "rehydrate", "pair"}

Idle == [pc |-> "idle", job |-> "none", dev |-> None, env |-> FALSE,
         eager |-> FALSE, seen |-> FALSE]

\* env: the environment a create needs is complete; eager: the gate key was
\* provisioned before the ensure; seen: the engine listed a container.
Flows == [pc : {"probe", "live", "ensure", "lock", "create", "start", "stop",
                "kill", "delete", "deprovision", "upsert", "provision"},
          job : Jobs, dev : Devices, env : BOOLEAN, eager : BOOLEAN,
          seen : BOOLEAN]

\* Past its DelegateLocks::lock, up to the end of the engine call.
Critical(p) == proc[p].pc \in {"create", "start", "kill"}

\* Every variable has its type, and a lock is held only by a flow that is in
\* an engine call for that device.
TypeOK ==
  /\ chain \in [Devices -> {"live", "revoked"}]
  /\ ctx \in [Devices -> BOOLEAN] /\ pending \in [Devices -> BOOLEAN]
  /\ box \in [Devices -> {"none", "created", "running", "exited"}]
  /\ lease \in [Devices -> BOOLEAN] /\ relay \in [Devices -> BOOLEAN]
  /\ lock \in [Devices -> Procs \cup {None}]
  /\ claims \subseteq Devices /\ queue \subseteq Devices
  /\ proc \in [Procs -> Flows \cup {Idle}]
  /\ crashes \in 0..MaxCrashes
  /\ unstopped \subseteq Devices
  /\ \A d \in Devices : lock[d] # None =>
       Critical(lock[d]) /\ proc[lock[d]].dev = d
-----------------------------------------------------------------------------
Init ==
  /\ chain = [d \in Devices |-> "live"]
  /\ ctx \in [Devices -> BOOLEAN]
  /\ pending = [d \in Devices |-> ~ctx[d]]
  /\ box = [d \in Devices |-> "none"]
  /\ lease = [d \in Devices |-> FALSE]
  /\ relay = [d \in Devices |-> FALSE]
  /\ lock = [d \in Devices |-> None]
  /\ claims = {}
  /\ queue = {}
  /\ proc = [p \in Procs |-> Idle]
  /\ crashes = 0
  /\ unstopped = {}

Running(d) == box[d] = "running" /\ (Managed => lease[d])
Orphaned(d) == box[d] = "running" /\ Managed /\ ~lease[d]

At(p, pc) == proc[p].pc = pc
Dev(p) == proc[p].dev
Job(p) == proc[p].job
Goto(p, pc) == proc' = [proc EXCEPT ![p].pc = pc]
Quit(p) == proc' = [proc EXCEPT ![p] = Idle]

\* A flow begins with a chain read; the pairing poll has none.
Flow(job, d) ==
  [pc |-> IF job = "pair" THEN "ensure" ELSE "probe", job |-> job, dev |-> d,
   env |-> FALSE, eager |-> FALSE, seen |-> FALSE]

Start(p, job, d) == proc' = [proc EXCEPT ![p] = Flow(job, d)]

Unlock(d) == [lock EXCEPT ![d] = None]
-----------------------------------------------------------------------------
(* The flows up to their engine calls.                                     *)

\* One pass over the rows the store lists at its start.
sweep_once ==
  /\ proc[Sweeper] = Idle /\ queue = {}
  /\ \E d \in Devices : ctx[d]
  /\ queue' = {d \in Devices : ctx[d]}
  /\ UNCHANGED <<chain, disk, pending, lease, lock, claims, box, proc, history>>

SweepRow(d) ==
  /\ proc[Sweeper] = Idle /\ d \in queue
  /\ queue' = queue \ {d}
  /\ Start(Sweeper, "sweep", d)
  /\ UNCHANGED <<chain, disk, pending, lease, lock, claims, box, history>>

Arrives(w, job, d) ==
  /\ proc[w] = Idle
  /\ Start(w, job, d)
  /\ UNCHANGED <<chain, disk, memory, box, history>>

\* A feed event, for an app that may hibernate.
sandbox_wake(w, d) == d \notin AlwaysOn /\ ctx[d] /\ Arrives(w, "wake", d)

\* The operator's click.
agent_update(w, d) == Arrives(w, "update", d)

\* A device that boots asks for its runtime.
agent_resolve(w, d) == Arrives(w, "resolve", d)

\* The receipt of a confirmed operation, first or replayed.
verified_finalization(w, d) ==
  \/ Arrives(w, "spawn", d)
  \/ chain[d] = "revoked" /\ Arrives(w, "revoke", d)

spawn_context_update(w, d) == Arrives(w, "rebind", d)

rehydrate(w, d) == Arrives(w, "rehydrate", d)

\* A paired delegate fetches its session and gets its runtime ensured.
pairing_poll(w, d) == Arrives(w, "pair", d)

\* getDevice answered: an action needs a live binding, a teardown a revoked one.
Authorizes(job, d) ==
  chain[d] = IF job = "revoke" THEN "revoked" ELSE "live"

AfterProbe(job) ==
  CASE job \in {"sweep", "wake", "update"} -> "live"
    [] job = "resolve" -> "ensure"
    [] job = "revoke" -> "delete"
    [] OTHER -> "upsert"

Probe(p) ==
  /\ At(p, "probe")
  /\ IF Authorizes(Job(p), Dev(p)) THEN Goto(p, AfterProbe(Job(p))) ELSE Quit(p)
  /\ UNCHANGED <<chain, disk, memory, box, history>>

\* Mutant of apply_availability: every app is taken for one that hibernates.
OnlyScheduled(d, due) == d \in Scheduled /\ due

\* A dead runtime is the sweeper's business unless its app may hibernate and
\* no tick of its schedule is due.
apply_availability(d, due) == d \in AlwaysOn \/ (d \in Scheduled /\ due)

\* No running container: the sweeper goes by the app's availability, a wake
\* claims the create or joins the one in flight, an update first checks that
\* the row is there.
ActsOnDead(p, due) ==
  CASE Job(p) = "sweep"  -> apply_availability(Dev(p), due)
    [] Job(p) = "wake"   -> Dev(p) \notin claims
    [] Job(p) = "update" -> ctx[Dev(p)]

\* live_for_device lists no running container; a wake takes a failed listing
\* for an empty one.
LiveNone(p) ==
  /\ At(p, "live")
  /\ Job(p) = "wake" \/ box[Dev(p)] # "running"
  /\ \E due \in BOOLEAN :
     IF ActsOnDead(p, due)
     THEN Goto(p, IF Job(p) = "update" THEN "stop" ELSE "ensure")
     ELSE Quit(p)
  /\ claims' = IF Job(p) = "wake" THEN claims \cup {Dev(p)} ELSE claims
  /\ UNCHANGED <<chain, disk, pending, lease, lock, queue, box, history>>

\* A running container: only an update goes on, unless it has jobs.
LiveSome(p) ==
  /\ At(p, "live")
  /\ Running(Dev(p))
  /\ \/ Job(p) = "update" /\ ctx[Dev(p)] /\ Goto(p, "stop")
     \/ Quit(p)
  /\ UNCHANGED <<chain, disk, memory, box, history>>

\* The pending ceremony writes the row, or only logs that it could not; a
\* replayed receipt falls back on the row.
finalize_spawn(p) ==
  LET d == Dev(p) IN
  /\ At(p, "upsert") /\ Job(p) = "spawn"
  /\ IF pending[d]
     THEN /\ proc' = [proc EXCEPT ![p].pc = "provision", ![p].eager = TRUE]
          /\ ctx' \in {ctx, [ctx EXCEPT ![d] = TRUE]}
          /\ pending' = [pending EXCEPT ![d] = FALSE]
     ELSE /\ IF ctx[d] THEN Goto(p, "ensure") ELSE Quit(p)
          /\ UNCHANGED <<ctx, pending>>
  /\ UNCHANGED <<chain, relay, lease, lock, claims, queue, box, history>>

\* The ceremony's gate key, awaited: a failure leaves the environment without
\* it, and the key is there if only the answer was lost.
provision_delegate_envs(p) ==
  /\ At(p, "provision")
  /\ relay' \in {relay, [relay EXCEPT ![Dev(p)] = TRUE]}
  /\ \E ok \in BOOLEAN :
       /\ ok => relay'[Dev(p)]
       /\ proc' = [proc EXCEPT ![p].pc = "lock", ![p].env = ok]
  /\ UNCHANGED <<chain, ctx, memory, box, history>>

\* A rebind reads the row it is going to write.
ReadContext(p) ==
  /\ At(p, "upsert") /\ Job(p) = "rebind" /\ ~proc[p].env
  /\ IF ctx[Dev(p)] THEN proc' = [proc EXCEPT ![p].env = TRUE] ELSE Quit(p)
  /\ UNCHANGED <<chain, disk, memory, box, history>>

\* A rebind and a rehydrate write the row, whether one is there or not.
upsert(p) ==
  /\ At(p, "upsert")
  /\ Job(p) = "rehydrate" \/ (Job(p) = "rebind" /\ proc[p].env)
  /\ ctx' = [ctx EXCEPT ![Dev(p)] = TRUE]
  /\ Quit(p)
  /\ UNCHANGED <<chain, relay, memory, box, history>>
-----------------------------------------------------------------------------
(* ensure_for_delegate.                                                    *)

\* The spawn context is read before the device lock is taken.
ensure_for_delegate(p) ==
  /\ At(p, "ensure")
  /\ proc' = [proc EXCEPT ![p].pc = "lock", ![p].env = ctx[Dev(p)]]
  /\ UNCHANGED <<chain, disk, memory, box, history>>

Claimed(p) == IF Job(p) = "wake" THEN {Dev(p)} ELSE {}

\* The ensure ends; a wake gives its claim back.
EnsureDone(p) ==
  /\ Quit(p)
  /\ claims' = claims \ Claimed(p)

\* Mutant of LockFree: two flows enter the engine for one device.
LockNever(d) == TRUE

LockFree(d) == lock[d] = None

\* A running container is never replaced.
Reusable(d) == box[d] = "running"

\* It is reused, or an error when it has no controller.
EnsureReuse(p) ==
  /\ At(p, "lock") /\ LockFree(Dev(p))
  /\ Reusable(Dev(p))
  /\ EnsureDone(p)
  /\ UNCHANGED <<chain, disk, pending, lease, lock, queue, box, history>>

EnsureLock(p) ==
  /\ At(p, "lock") /\ LockFree(Dev(p))
  /\ ~Reusable(Dev(p))
  /\ lock' = [lock EXCEPT ![Dev(p)] = p]
  /\ Goto(p, "create")
  /\ UNCHANGED <<chain, disk, pending, lease, claims, queue, box, history>>

\* Mutant of Complete: a create without the identity is let through.
CompleteAlways(p) == TRUE

\* An environment without identity or gate key is refused.
Complete(p) == proc[p].env

\* on_create of all but the ceremony.
Provisioned(p) == IF proc[p].eager THEN relay ELSE [relay EXCEPT ![Dev(p)] = TRUE]

\* on_create provisions a gate key, the environment is checked, the stopped
\* container is replaced.
EnsureCreate(p) ==
  LET d == Dev(p) IN
  /\ At(p, "create")
  /\ relay' = Provisioned(p)
  /\ IF Complete(p)
     THEN /\ box' = [box EXCEPT ![d] = "created"]
          /\ Goto(p, "start")
          /\ UNCHANGED <<lock, claims>>
     ELSE /\ EnsureDone(p)
          /\ lock' = Unlock(d)
          /\ UNCHANGED box
  /\ UNCHANGED <<chain, ctx, pending, lease, queue, history>>

EnsureStart(p) ==
  LET d == Dev(p) IN
  /\ At(p, "start")
  /\ box' = [box EXCEPT ![d] = "running"]
  /\ lease' = [lease EXCEPT ![d] = Managed]
  /\ EnsureDone(p)
  /\ lock' = Unlock(d)
  /\ UNCHANGED <<chain, disk, pending, queue, history>>

\* The engine or the image fails, before or after the gate key and the removal
\* of the stopped container.
CreateFails(p) ==
  LET d == Dev(p) IN
  /\ At(p, "create")
  /\ \/ UNCHANGED <<relay, box>>
     \/ /\ relay' = Provisioned(p)
        /\ box' \in {box, [box EXCEPT ![d] = "none"]}
  /\ EnsureDone(p)
  /\ lock' = Unlock(d)
  /\ UNCHANGED <<chain, ctx, pending, lease, queue, history>>

\* A managed container whose controller did not come up is removed, if that
\* does not fail too; another one stays behind, as does a container that runs
\* but cannot be inspected.
StartFails(p) ==
  LET d == Dev(p) IN
  /\ At(p, "start")
  /\ \/ /\ \E left \in {IF Managed THEN "none" ELSE "exited", "created", "running"} :
             box' = [box EXCEPT ![d] = left]
        /\ UNCHANGED lease
     \/ /\ box' = [box EXCEPT ![d] = "running"]
        /\ lease' = [lease EXCEPT ![d] = Managed]
  /\ EnsureDone(p)
  /\ lock' = Unlock(d)
  /\ UNCHANGED <<chain, disk, pending, queue, history>>
-----------------------------------------------------------------------------
(* kill_for_device, as an update and as the teardown of a revoked binding. *)

DeleteContext(p) ==
  /\ At(p, "delete")
  /\ ctx' = [ctx EXCEPT ![Dev(p)] = FALSE]
  /\ Goto(p, "deprovision")
  /\ UNCHANGED <<chain, relay, memory, box, history>>

Deprovision(p) ==
  /\ At(p, "deprovision")
  /\ relay' = [relay EXCEPT ![Dev(p)] = FALSE]
  /\ Goto(p, "stop")
  /\ UNCHANGED <<chain, ctx, memory, box, history>>

\* A failed cleanup step is reported and the next one runs.
CleanupFails(p) ==
  /\ \/ At(p, "delete") /\ Goto(p, "deprovision")
     \/ At(p, "deprovision") /\ Goto(p, "stop")
  /\ UNCHANGED <<chain, disk, memory, box, history>>

\* Mutant of Listed: stopped containers are not listed.
ListedRunning(d) == box[d] = "running"

\* containers_for_device lists the container in whatever state it is.
Listed(d) == box[d] # "none"

KillLock(p) ==
  /\ At(p, "stop") /\ LockFree(Dev(p))
  /\ lock' = [lock EXCEPT ![Dev(p)] = p]
  /\ proc' = [proc EXCEPT ![p].pc = "kill", ![p].seen = Listed(Dev(p))]
  /\ UNCHANGED <<chain, disk, pending, lease, claims, queue, box, history>>

\* The listed container is removed with its controller.
Kill(p) ==
  LET d == Dev(p) IN
  /\ At(p, "kill")
  /\ box' = IF proc[p].seen THEN [box EXCEPT ![d] = "none"] ELSE box
  /\ lease' = IF proc[p].seen THEN [lease EXCEPT ![d] = FALSE] ELSE lease
  /\ lock' = Unlock(d)
  /\ IF Job(p) = "update" THEN Goto(p, "ensure") ELSE Quit(p)
  /\ UNCHANGED <<chain, disk, pending, claims, queue, history>>

\* The kill ends early: nothing done, the controller closed, or the container
\* removed although the engine's answer says otherwise.
KillBroken(p) ==
  LET d == Dev(p) IN
  /\ At(p, "kill")
  /\ \/ UNCHANGED <<lease, box>>
     \/ /\ lease' = [lease EXCEPT ![d] = FALSE]
        /\ box' \in {box, [box EXCEPT ![d] = "none"]}
  /\ lock' = Unlock(d)
  /\ Quit(p)
  /\ UNCHANGED <<chain, disk, pending, claims, queue, crashes>>

\* The engine refuses; a teardown logs it.
KillFails(p) ==
  /\ KillBroken(p)
  /\ unstopped' = IF Job(p) = "revoke" THEN unstopped \cup {Dev(p)} ELSE unstopped
-----------------------------------------------------------------------------
(* The environment.                                                        *)

\* A chain read, an engine listing or the store fails: the flow gives up, and
\* so does one whose caller goes away meanwhile.
CallFails(p) ==
  /\ \/ At(p, "probe") \/ At(p, "live")
     \/ At(p, "upsert") /\ (Job(p) = "spawn" => ~pending[Dev(p)])
  /\ Quit(p)
  /\ UNCHANGED <<chain, disk, memory, box, history>>

\* The spawn context cannot be read: the ensure goes on without it.
ContextUnreadable(p) ==
  /\ At(p, "ensure")
  /\ proc' = [proc EXCEPT ![p].pc = "lock", ![p].env = FALSE]
  /\ UNCHANGED <<chain, disk, memory, box, history>>

\* The caller of a receipt goes away at the gate or in the kill.
HangUp(p) ==
  /\ Job(p) \in {"spawn", "revoke"}
  /\ UNCHANGED unstopped
  /\ \/ /\ At(p, "provision") \/ At(p, "deprovision") \/ At(p, "stop")
        /\ Quit(p)
        /\ UNCHANGED <<chain, disk, memory, box, crashes>>
     \/ KillBroken(p)

revokeAgentDevice(d) ==
  /\ chain[d] = "live"
  /\ chain' = [chain EXCEPT ![d] = "revoked"]
  /\ UNCHANGED <<disk, memory, box, proc, history>>

\* A container exits by itself, or once its controller's pipe is closed.
Exit(d) ==
  /\ box[d] = "running"
  /\ box' = [box EXCEPT ![d] = "exited"]
  /\ lease' = [lease EXCEPT ![d] = FALSE]
  /\ UNCHANGED <<chain, disk, pending, lock, claims, queue, proc, history>>

\* CREATE_CLAIM_TTL passes while the create still runs.
ClaimExpires(d) ==
  /\ d \in claims
  /\ claims' = claims \ {d}
  /\ UNCHANGED <<chain, disk, pending, lease, lock, queue, box, proc, history>>

Crash ==
  /\ crashes < MaxCrashes
  /\ crashes' = crashes + 1
  /\ proc' = [p \in Procs |-> Idle]
  /\ lock' = [d \in Devices |-> None]
  /\ lease' = [d \in Devices |-> FALSE]
  /\ pending' = [d \in Devices |-> FALSE]
  /\ claims' = {}
  /\ queue' = {}
  /\ UNCHANGED <<chain, disk, box, unstopped>>

Step(p) ==
  \/ Probe(p) \/ LiveNone(p) \/ LiveSome(p)
  \/ finalize_spawn(p) \/ provision_delegate_envs(p) \/ ReadContext(p) \/ upsert(p)
  \/ ensure_for_delegate(p) \/ EnsureReuse(p) \/ EnsureLock(p)
  \/ EnsureCreate(p) \/ EnsureStart(p)
  \/ DeleteContext(p) \/ Deprovision(p) \/ KillLock(p) \/ Kill(p)

Failure(p) ==
  \/ CallFails(p) \/ CreateFails(p) \/ StartFails(p) \/ CleanupFails(p)
  \/ KillFails(p) \/ ContextUnreadable(p) \/ HangUp(p)

Request(w, d) ==
  \/ sandbox_wake(w, d) \/ agent_update(w, d) \/ agent_resolve(w, d)
  \/ verified_finalization(w, d) \/ spawn_context_update(w, d) \/ rehydrate(w, d)
  \/ pairing_poll(w, d)

Next ==
  \/ sweep_once
  \/ \E d \in Devices : SweepRow(d)
  \/ \E w \in Workers, d \in Devices : Request(w, d)
  \/ \E p \in Procs : Step(p) \/ Failure(p)
  \/ \E d \in Devices : revokeAgentDevice(d) \/ Exit(d) \/ ClaimExpires(d)
  \/ Crash

Spec == Init /\ [][Next]_vars

\* The sweeper loops for ever and retries what failed, so a call it makes
\* again and again succeeds in the end, and so does the start of a container,
\* whoever tries it; a flow that may go on does, and the lock is handed out in
\* order.  A container without a controller reads end of file and exits.
Fairness ==
  /\ WF_vars(sweep_once)
  /\ \A p \in Procs : WF_vars(Step(p))
  /\ \A d \in Devices :
       /\ WF_vars(SweepRow(d))
       /\ WF_vars(Orphaned(d) /\ Exit(d))
       /\ \A pc \in {"probe", "live", "ensure", "lock"} :
            SF_vars(Dev(Sweeper) = d /\ At(Sweeper, pc) /\ Step(Sweeper))
       /\ SF_vars(Dev(Sweeper) = d /\ Complete(Sweeper) /\ EnsureCreate(Sweeper))
       /\ SF_vars(\E p \in Procs : Dev(p) = d /\ EnsureStart(p))

FairSpec == Spec /\ Fairness
-----------------------------------------------------------------------------
(* Properties.                                                             *)

\* The engine calls of one device never overlap: whatever holds the lock is
\* the only flow between listing the container and releasing it
\* (docker_runtime.rs:868 and 1017).
EngineCallsSerialised ==
  \A p, q \in Procs :
    Critical(p) /\ Critical(q) /\ Dev(p) = Dev(q) => p = q

\* When a teardown reports runtime_stopped, no container of the device is left
\* at that moment, not even one an ensure created meanwhile, and whether or not
\* the row and the gate key could be removed before (sandbox.rs:619).
TeardownLeavesNothing ==
  [][\A p \in Procs : Kill(p) /\ Job(p) = "revoke" => box'[Dev(p)] = "none"]_vars

\* A flow that can no longer act on a revoked device: a teardown, one still to
\* read the chain, a pairing poll that has not found a row to build on.
Harmless(p) ==
  \/ Job(p) = "revoke" \/ At(p, "probe")
  \/ Job(p) = "pair" /\ (At(p, "ensure") \/ ~proc[p].env)

Gone(d) ==
  /\ chain[d] = "revoked" /\ ~ctx[d] /\ box[d] = "none"
  /\ \A p \in Procs : Dev(p) = d => Harmless(p)

\* Once a revoked device has neither row nor container and no flow that read
\* the chain or the row before is under way, neither ever comes back, whatever
\* receipts are replayed, rows swept, devices polled or contexts rehydrated
\* (lease_sweeper.rs:15, anchor.rs:481, docker_runtime.rs:901).
GoneStaysGone == [][\A d \in Devices : Gone(d) => Gone(d)']_vars

\* After a teardown that could not stop the runtime, the "revoked binding
\* blocks authorization and respawn" (sandbox.rs:659): no container is created
\* for the device.
RevokedBlocksRespawn ==
  \A d \in unstopped : \A p \in Procs : At(p, "start") => Dev(p) # d

\* An app that must not hibernate, while its binding and its row stand, runs
\* again and again, whatever crashes, exits, kills and failures hit it
\* (lease_sweeper.rs:5).
AlwaysOnRelaunched ==
  \A d \in AlwaysOn :
    []<>(chain[d] = "revoked" \/ ~ctx[d] \/ Running(d))

\* Types, and one engine call at a time per device, whichever of the sweeper,
\* the handlers and the teardown make them (sandbox_backend.rs:12).
SandboxInv == TypeOK /\ EngineCallsSerialised
=============================================================================
