--------------------------- MODULE SandboxProofs ---------------------------
(***************************************************************************)
(* Theorems about the flows that start, replace and stop the runtime of a  *)
(* delegate, for any number of devices, handlers and crashes.              *)
(*                                                                         *)
(* The lock of a device and the flow in its engine call name each other:   *)
(* LockPairs.  With it a teardown can rely on what it listed (Unseen), as  *)
(* nobody else moves the container while it holds the lock.  Each flow has *)
(* its own path (Stages), so of the flows that could act on a revoked      *)
(* device only those past their chain read, and a pairing poll that found  *)
(* the row, matter; what has lost both stays without (GoneStays).          *)
(*                                                                         *)
(* The last part is about the checkpoint that the daemon inside such a     *)
(* sandbox saves and restores.  The two specifications share no variable.  *)
(***************************************************************************)
EXTENDS Sandbox, Checkpoint, TLAPS

CriticalPcs == {"create", "start", "kill"}

\* The flow in an engine call holds the lock of its device, and the holder of
\* a lock is such a flow.
LockPairs ==
  /\ \A p \in Procs : Critical(p) => lock[Dev(p)] = p
  /\ \A d \in Devices : lock[d] # None => Critical(lock[d]) /\ proc[lock[d]].dev = d

\* A kill that listed nothing finds nothing.
Unseen == \A p \in Procs : At(p, "kill") /\ ~proc[p].seen => box[Dev(p)] = "none"

\* The types of all but the processes and the locks.
Rest ==
  /\ chain \in [Devices -> {"live", "revoked"}]
  /\ ctx \in [Devices -> BOOLEAN] /\ pending \in [Devices -> BOOLEAN]
  /\ box \in [Devices -> {"none", "created", "running", "exited"}]
  /\ lease \in [Devices -> BOOLEAN] /\ relay \in [Devices -> BOOLEAN]
  /\ claims \subseteq Devices /\ queue \subseteq Devices
  /\ crashes \in 0..MaxCrashes
  /\ unstopped \subseteq Devices

IInv ==
  /\ Rest
  /\ lock \in [Devices -> Procs \cup {None}]
  /\ proc \in [Procs -> Flows \cup {Idle}]
  /\ LockPairs /\ Unseen

LEMMA InvTypes == IInv <=> TypeOK /\ LockPairs /\ Unseen
BY DEF IInv, Rest, TypeOK, LockPairs

LEMMA IdleFields == Idle.pc = "idle" /\ Idle.dev = None /\ Idle.job = "none"
BY DEF Idle

LEMMA InitInv == Init => IInv
<1> SUFFICES ASSUME Init PROVE IInv
  OBVIOUS
<1>1. Rest
  BY SandboxAssumption DEF Init, Rest
<1>2. /\ lock \in [Devices -> Procs \cup {None}]
      /\ proc \in [Procs -> Flows \cup {Idle}]
  BY DEF Init
<1>3. \A p \in Procs : proc[p].pc = "idle"
  BY IdleFields DEF Init
<1>4. LockPairs
  BY <1>3 DEF Init, LockPairs, Critical
<1>5. Unseen
  BY <1>3 DEF Init, Unseen, At
<1> QED BY <1>1, <1>2, <1>4, <1>5 DEF IInv
-----------------------------------------------------------------------------
(* How a process moves.                                                    *)

Others(p) ==
  /\ proc' \in [Procs -> Flows \cup {Idle}]
  /\ \A q \in Procs : q # p => proc'[q] = proc[q]

\* On to another point of the same flow.
Moves(p, step) ==
  /\ Others(p)
  /\ proc'[p].pc = step /\ proc'[p].dev = Dev(p) /\ proc'[p].job = Job(p)

Ends(p) == Others(p) /\ proc'[p] = Idle

LEMMA Busy ==
  ASSUME IInv, NEW p \in Procs, proc[p].pc # "idle"
  PROVE  proc[p] \in Flows /\ Dev(p) \in Devices /\ Job(p) \in Jobs /\ proc[p] # Idle
<1>1. proc[p] \in Flows \/ proc[p] = Idle
  BY DEF IInv
<1> QED BY <1>1, IdleFields DEF Flows, Dev, Job

LEMMA QuitEnds == ASSUME IInv, NEW p \in Procs, Quit(p) PROVE Ends(p)
BY DEF IInv, Quit, Ends, Others

Pcs == {"probe", "live", "ensure", "lock", "create", "start", "stop",
        "kill", "delete", "deprovision", "upsert", "provision"}

LEMMA GotoMoves ==
  ASSUME IInv, NEW p \in Procs, proc[p] \in Flows, NEW step \in Pcs, Goto(p, step)
  PROVE  Moves(p, step) /\ proc'[p].env = proc[p].env /\ proc'[p].seen = proc[p].seen
<1>1. [proc[p] EXCEPT !.pc = step] \in Flows
  BY DEF Flows, Pcs
<1>2. proc' = [proc EXCEPT ![p] = [proc[p] EXCEPT !.pc = step]]
  BY DEF IInv, Goto
<1>3. \A q \in Procs : proc'[q] = IF q = p THEN [proc[p] EXCEPT !.pc = step] ELSE proc[q]
  BY <1>2 DEF IInv
<1>4. Others(p)
  BY <1>1, <1>2, <1>3 DEF Others, IInv
<1> QED BY <1>3, <1>4 DEF Moves, Flows, Dev, Job

\* A step of p that moves or ends its flow.  The container of the device is
\* moved only in an engine call, which holds the lock.
LEMMA StepInv ==
  ASSUME IInv, NEW p \in Procs, NEW d \in Devices, proc[p] \in Flows, d = Dev(p),
         Rest', chain' = chain,
         Ends(p) \/ \E step \in Pcs : Moves(p, step),
         \/ ~Critical(p) /\ ~Critical(p)' /\ lock' = lock
         \/ ~Critical(p) /\ Critical(p)' /\ lock[d] = None /\ lock' = [lock EXCEPT ![d] = p]
         \/ Critical(p) /\ Critical(p)' /\ lock' = lock
         \/ Critical(p) /\ ~Critical(p)' /\ lock' = Unlock(d),
         \A e \in Devices : e # d => box'[e] = box[e],
         ~Critical(p) => box' = box,
         proc'[p].pc = "kill" /\ ~proc'[p].seen => box'[d] = "none"
  PROVE  IInv'
<1>0. /\ lock \in [Devices -> Procs \cup {None}] /\ proc \in [Procs -> Flows \cup {Idle}]
      /\ LockPairs /\ Unseen
  BY DEF IInv
<1>1. Others(p)
  BY DEF Ends, Moves
<1>2. /\ lock' \in [Devices -> Procs \cup {None}]
      /\ \A e \in Devices : e # d => lock'[e] = lock[e]
  BY <1>0 DEF Unlock
<1>3. \A q \in Procs : q # p => (Critical(q)' <=> Critical(q)) /\ Dev(q)' = Dev(q)
  BY <1>1 DEF Others, Critical, Dev
<1>4. Critical(p)' => Dev(p)' = d
  BY IdleFields DEF Ends, Moves, Critical, Dev
<1>5. Critical(p) => lock[d] = p
  BY <1>0 DEF LockPairs
<1>6. \A q \in Procs : Critical(q) => Dev(q) \in Devices
  BY Busy DEF Critical
<1>7. \A q \in Procs : q # p /\ Critical(q) /\ Dev(q) = d => lock[d] = q
  BY <1>0 DEF LockPairs
<1>8. p # None
  BY SandboxAssumption
<1>9. LockPairs'
  <2>1. \A q \in Procs : Critical(q)' => lock'[Dev(q)'] = q
    <3> SUFFICES ASSUME NEW q \in Procs, Critical(q)'
                 PROVE  lock'[Dev(q)'] = q
      OBVIOUS
    <3>1. CASE q = p
      BY <1>0, <1>4, <1>5, <3>1
    <3>2. CASE q # p
      <4>1. Critical(q) /\ Dev(q)' = Dev(q) /\ Dev(q) \in Devices /\ lock[Dev(q)] = q
        BY <1>0, <1>3, <1>6, <3>2 DEF LockPairs
      <4>2. CASE Dev(q) # d
        BY <1>2, <4>1, <4>2
      <4>3. CASE Dev(q) = d
        <5>1. lock[d] = q /\ q # None /\ ~Critical(p)
          BY <1>5, <3>2, <4>1, <4>3, SandboxAssumption
        <5> QED BY <4>1, <4>3, <5>1
      <4> QED BY <4>2, <4>3
    <3> QED BY <3>1, <3>2
  <2>2. ASSUME NEW e \in Devices, lock'[e] # None
        PROVE  proc'[lock'[e]].pc \in CriticalPcs /\ proc'[lock'[e]].dev = e
    <3>1. CASE lock'[e] = p
      <4>1. e = d
        BY <1>0, <1>2, <3>1, <1>8 DEF LockPairs, Critical, Dev
      <4>2. Critical(p)'
        BY <1>0, <1>8, <3>1, <4>1 DEF LockPairs, Unlock
      <4> QED BY <1>4, <3>1, <4>1, <4>2 DEF Dev, Critical, CriticalPcs
    <3>2. CASE lock'[e] # p
      <4>1. PICK q \in Procs : lock'[e] = q /\ lock[e] = q
        BY <1>0, <1>2, <1>8, <2>2, <3>2 DEF Unlock
      <4>2. Critical(q) /\ proc[q].dev = e
        BY <1>0, <2>2, <4>1 DEF LockPairs
      <4> QED BY <1>1, <3>2, <4>1, <4>2 DEF Others, Critical, CriticalPcs
    <3> QED BY <3>1, <3>2
  <2> QED BY <2>1, <2>2 DEF LockPairs, Critical, CriticalPcs
<1>11. Unseen'
  <2> SUFFICES ASSUME NEW q \in Procs, At(q, "kill")', ~proc'[q].seen
               PROVE  box'[Dev(q)'] = "none"
    BY DEF Unseen
  <2>1. CASE q = p
    BY <1>4, <2>1 DEF At, Critical
  <2>2. CASE q # p
    <3>1. /\ At(q, "kill") /\ ~proc[q].seen /\ Dev(q)' = Dev(q)
          /\ Critical(q) /\ Dev(q) \in Devices
      BY <1>1, <1>3, <1>6, <2>2 DEF Others, At, Critical
    <3>2. box[Dev(q)] = "none"
      BY <1>0, <3>1 DEF Unseen
    <3>3. Dev(q) = d => ~Critical(p)
      BY <1>5, <1>7, <2>2, <3>1
    <3> QED BY <3>1, <3>2, <3>3
  <2> QED BY <2>1, <2>2
<1> QED BY <1>1, <1>2, <1>9, <1>11 DEF IInv, Others

\* A step outside the engine calls.
LEMMA QuietInv ==
  ASSUME IInv, NEW p \in Procs, proc[p].pc \in Pcs \ CriticalPcs,
         Rest', UNCHANGED <<chain, lock, box>>,
         Ends(p) \/ \E step \in Pcs \ CriticalPcs : Moves(p, step)
  PROVE  IInv'
<1>1. PICK d \in Devices : d = Dev(p) /\ proc[p] \in Flows
  BY Busy DEF Pcs
<1>2. ~Critical(p) /\ ~Critical(p)'
  BY IdleFields DEF Critical, CriticalPcs, Ends, Moves
<1>3. proc'[p].pc # "kill"
  BY <1>2 DEF Critical
<1>4. Ends(p) \/ \E step \in Pcs : Moves(p, step)
  OBVIOUS
<1> QED BY <1>1, <1>2, <1>3, <1>4, StepInv

\* A flow begins.
LEMMA StartInv ==
  ASSUME IInv, NEW p \in Procs, NEW d \in Devices, NEW job \in Jobs,
         proc[p] = Idle, Start(p, job, d), queue' \subseteq Devices,
         UNCHANGED <<chain, disk, pending, lease, lock, claims, box, history>>
  PROVE  IInv'
<1>0. /\ Rest /\ lock \in [Devices -> Procs \cup {None}]
      /\ proc \in [Procs -> Flows \cup {Idle}] /\ LockPairs /\ Unseen
  BY DEF IInv
<1>1. Flow(job, d) \in Flows
  BY DEF Flow, Flows
<1>2. proc' = [proc EXCEPT ![p] = Flow(job, d)]
  BY DEF Start
<1>3. /\ \A q \in Procs : proc'[q] = IF q = p THEN Flow(job, d) ELSE proc[q]
      /\ proc' \in [Procs -> Flows \cup {Idle}]
  BY <1>0, <1>1, <1>2
<1>4. Flow(job, d).pc \in {"probe", "ensure"} /\ Flow(job, d).dev = d
  BY DEF Flow
<1>5. Rest'
  BY <1>0, <1>2 DEF Rest, disk, history
<1>6. ~Critical(p) /\ ~Critical(p)'
  BY <1>3, <1>4, IdleFields DEF Critical
<1>7. LockPairs'
  <2>1. ASSUME NEW q \in Procs, Critical(q)'
        PROVE  lock'[Dev(q)'] = q
    BY <1>0, <1>3, <1>6, <2>1 DEF LockPairs, Critical, Dev
  <2>2. ASSUME NEW e \in Devices, lock[e] # None
        PROVE  proc'[lock[e]].pc \in CriticalPcs /\ proc'[lock[e]].dev = e
    BY <1>0, <1>3, <1>6, <2>2 DEF LockPairs, Critical, CriticalPcs
  <2> QED BY <2>1, <2>2 DEF LockPairs, Critical, CriticalPcs
<1>9. Unseen'
  BY <1>0, <1>3, <1>4 DEF Unseen, At, Dev
<1> QED BY <1>0, <1>3, <1>5, <1>7, <1>9 DEF IInv

LEMMA BeginInv ==
  ASSUME IInv,
         \/ \E d \in Devices : SweepRow(d)
         \/ \E w \in Workers, d \in Devices : Request(w, d)
  PROVE  IInv'
<1>0. queue \subseteq Devices
  BY DEF IInv, Rest
<1>1. ASSUME NEW d \in Devices, SweepRow(d)
      PROVE  IInv'
  BY <1>0, <1>1, StartInv DEF SweepRow, Procs, Jobs
<1>2. ASSUME NEW w \in Workers, NEW d \in Devices, NEW job \in Jobs, Arrives(w, job, d)
      PROVE  IInv'
  BY <1>0, <1>2, StartInv DEF Arrives, Procs, memory
<1>3. ASSUME NEW w \in Workers, NEW d \in Devices, Request(w, d)
      PROVE  \E job \in Jobs : Arrives(w, job, d)
  BY <1>3 DEF Request, sandbox_wake, agent_update, agent_resolve,
              verified_finalization, spawn_context_update, rehydrate, pairing_poll, Jobs
<1> QED BY <1>1, <1>2, <1>3
-----------------------------------------------------------------------------
(* Steps outside the engine calls.                                         *)

LEMMA ProbeInv == ASSUME IInv, NEW p \in Procs, Probe(p) PROVE IInv'
<1>1. /\ proc[p].pc = "probe" /\ Rest
      /\ UNCHANGED <<chain, disk, memory, box, history>>
  BY DEF IInv, Probe, At
<1>2. Rest' /\ UNCHANGED <<chain, lock, box>>
  BY <1>1 DEF Rest, disk, memory, history
<1>3. proc[p] \in Flows /\ Job(p) \in Jobs /\ proc[p].pc \in Pcs \ CriticalPcs
  BY <1>1, Busy DEF Pcs, CriticalPcs
<1>4. AfterProbe(Job(p)) \in Pcs \ CriticalPcs
  BY DEF AfterProbe, Pcs, CriticalPcs
<1>5. CASE Authorizes(Job(p), Dev(p))
  <2>1. Moves(p, AfterProbe(Job(p)))
    BY <1>3, <1>4, <1>5, GotoMoves DEF Probe
  <2> HIDE DEF AfterProbe
  <2> QED BY <1>2, <1>3, <1>4, <2>1, QuietInv
<1>6. CASE ~Authorizes(Job(p), Dev(p))
  <2>1. Ends(p)
    BY <1>6, QuitEnds DEF Probe
  <2> QED BY <1>2, <1>3, <2>1, QuietInv
<1> QED BY <1>5, <1>6

LEMMA LiveInv ==
  ASSUME IInv, NEW p \in Procs, LiveNone(p) \/ LiveSome(p) \/ CallFails(p)
  PROVE  IInv'
<1>1. /\ proc[p].pc \in {"probe", "live", "upsert"} /\ Rest
      /\ UNCHANGED <<chain, disk, pending, lease, lock, queue, box, history>>
  BY DEF IInv, LiveNone, LiveSome, CallFails, At, memory
<1>2. proc[p] \in Flows /\ Dev(p) \in Devices /\ proc[p].pc \in Pcs \ CriticalPcs
  BY <1>1, Busy DEF Pcs, CriticalPcs
<1>3. claims' \subseteq Devices
  BY <1>1, <1>2 DEF LiveNone, LiveSome, CallFails, Rest, memory
<1>4. Rest' /\ UNCHANGED <<chain, lock, box>>
  BY <1>1, <1>3 DEF Rest, disk, history
<1>5. Quit(p) \/ \E step \in {"stop", "ensure"} : Goto(p, step)
  BY DEF LiveNone, LiveSome, CallFails
<1>6. {"stop", "ensure"} \subseteq Pcs \ CriticalPcs
  BY DEF Pcs, CriticalPcs
<1>7. Ends(p) \/ \E step \in Pcs \ CriticalPcs : Moves(p, step)
  BY <1>2, <1>5, <1>6, GotoMoves, QuitEnds
<1> QED BY <1>2, <1>4, <1>7, QuietInv DEF At

\* The flow goes on with a new pc and a new flag.
LEMMA EagerMoves ==
  ASSUME IInv, NEW p \in Procs, proc[p] \in Flows, NEW step \in Pcs,
         proc' = [proc EXCEPT ![p].pc = step, ![p].eager = TRUE]
  PROVE  Moves(p, step) /\ proc'[p].env = proc[p].env
<1> DEFINE f == [proc[p] EXCEPT !.pc = step, !.eager = TRUE]
<1>1. f \in Flows /\ f.pc = step /\ f.dev = Dev(p) /\ f.job = Job(p) /\ f.env = proc[p].env
  BY DEF Flows, Dev, Job, Pcs
<1>2. proc' = [proc EXCEPT ![p] = f]
  OBVIOUS
<1> HIDE DEF f
<1> QED BY <1>1, <1>2 DEF IInv, Moves, Others

LEMMA EnvMoves ==
  ASSUME IInv, NEW p \in Procs, proc[p] \in Flows, NEW step \in Pcs, NEW env \in BOOLEAN,
         proc' = [proc EXCEPT ![p].pc = step, ![p].env = env]
  PROVE  Moves(p, step) /\ proc'[p].env = env
<1> DEFINE f == [proc[p] EXCEPT !.pc = step, !.env = env]
<1>1. f \in Flows /\ f.pc = step /\ f.dev = Dev(p) /\ f.job = Job(p) /\ f.env = env
  BY DEF Flows, Dev, Job, Pcs
<1>2. proc' = [proc EXCEPT ![p] = f]
  OBVIOUS
<1> HIDE DEF f
<1> QED BY <1>1, <1>2 DEF IInv, Moves, Others

LEMMA ReadMoves ==
  ASSUME IInv, NEW p \in Procs, proc[p] \in Flows, At(p, "upsert"),
         proc' = [proc EXCEPT ![p].env = TRUE]
  PROVE  Moves(p, "upsert")
<1> DEFINE f == [proc[p] EXCEPT !.env = TRUE]
<1>1. f \in Flows /\ f.pc = "upsert" /\ f.dev = Dev(p) /\ f.job = Job(p)
  BY DEF Flows, Dev, Job, At
<1>2. proc' = [proc EXCEPT ![p] = f]
  OBVIOUS
<1> HIDE DEF f
<1> QED BY <1>1, <1>2 DEF IInv, Moves, Others

LEMMA ContextMoves ==
  ASSUME IInv, NEW p \in Procs,
         \/ finalize_spawn(p) \/ provision_delegate_envs(p) \/ ReadContext(p) \/ upsert(p)
         \/ ensure_for_delegate(p) \/ ContextUnreadable(p)
         \/ DeleteContext(p) \/ Deprovision(p) \/ CleanupFails(p)
  PROVE  /\ proc[p].pc \in {"upsert", "provision", "ensure", "delete", "deprovision"}
         /\ UNCHANGED <<chain, lease, lock, claims, queue, box, history>>
         /\ ctx' = ctx \/ \E v \in BOOLEAN : ctx' = [ctx EXCEPT ![Dev(p)] = v]
         /\ pending' = pending \/ pending' = [pending EXCEPT ![Dev(p)] = FALSE]
         /\ relay' = relay \/ \E v \in BOOLEAN : relay' = [relay EXCEPT ![Dev(p)] = v]
         /\ Ends(p) \/ \E step \in Pcs \ CriticalPcs : Moves(p, step)
<1>0. {"ensure", "stop", "lock", "provision", "deprovision", "upsert"}
        \subseteq Pcs \ CriticalPcs
  BY DEF Pcs, CriticalPcs
<1>1. proc[p].pc \in {"upsert", "provision", "ensure", "delete", "deprovision"}
  BY DEF finalize_spawn, provision_delegate_envs, ReadContext, upsert,
         ensure_for_delegate, ContextUnreadable, DeleteContext, Deprovision, CleanupFails, At
<1>2. proc[p] \in Flows /\ Dev(p) \in Devices
  BY <1>1, Busy
<1>3. ctx[Dev(p)] \in BOOLEAN
  BY <1>2 DEF IInv, Rest
<1>4. CASE finalize_spawn(p)
  <2>1. \/ Quit(p) \/ Goto(p, "ensure")
        \/ proc' = [proc EXCEPT ![p].pc = "provision", ![p].eager = TRUE]
    BY <1>4 DEF finalize_spawn
  <2>2. Ends(p) \/ \E step \in Pcs \ CriticalPcs : Moves(p, step)
    BY <1>0, <1>2, <2>1, GotoMoves, QuitEnds, EagerMoves
  <2> QED BY <1>1, <1>4, <2>2 DEF finalize_spawn, memory, disk
<1>5. CASE provision_delegate_envs(p)
  <2>1. PICK env \in BOOLEAN : proc' = [proc EXCEPT ![p].pc = "lock", ![p].env = env]
    BY <1>5 DEF provision_delegate_envs
  <2>2. \E step \in Pcs \ CriticalPcs : Moves(p, step)
    BY <1>0, <1>2, <2>1, EnvMoves
  <2> QED BY <1>1, <1>5, <2>2 DEF provision_delegate_envs, memory
<1>6. CASE ReadContext(p) \/ upsert(p)
  <2>1. Quit(p) \/ (At(p, "upsert") /\ proc' = [proc EXCEPT ![p].env = TRUE])
    BY <1>6 DEF ReadContext, upsert
  <2>2. Ends(p) \/ \E step \in Pcs \ CriticalPcs : Moves(p, step)
    BY <1>0, <1>2, <2>1, QuitEnds, ReadMoves
  <2> QED BY <1>1, <1>6, <2>2 DEF ReadContext, upsert, memory, disk
<1>7. CASE ensure_for_delegate(p) \/ ContextUnreadable(p)
  <2>1. PICK env \in BOOLEAN : proc' = [proc EXCEPT ![p].pc = "lock", ![p].env = env]
    BY <1>3, <1>7 DEF ensure_for_delegate, ContextUnreadable
  <2>2. \E step \in Pcs \ CriticalPcs : Moves(p, step)
    BY <1>0, <1>2, <2>1, EnvMoves
  <2> QED BY <1>1, <1>7, <2>2 DEF ensure_for_delegate, ContextUnreadable, memory, disk
<1>8. CASE DeleteContext(p) \/ Deprovision(p) \/ CleanupFails(p)
  <2>1. \E step \in {"stop", "deprovision"} : Goto(p, step)
    BY <1>8 DEF DeleteContext, Deprovision, CleanupFails
  <2>2. \E step \in Pcs \ CriticalPcs : Moves(p, step)
    BY <1>0, <1>2, <2>1, GotoMoves
  <2> QED BY <1>1, <1>8, <2>2 DEF DeleteContext, Deprovision, CleanupFails, memory, disk
<1> QED BY <1>4, <1>5, <1>6, <1>7, <1>8

LEMMA ContextInv ==
  ASSUME IInv, NEW p \in Procs,
         \/ finalize_spawn(p) \/ provision_delegate_envs(p) \/ ReadContext(p) \/ upsert(p)
         \/ ensure_for_delegate(p) \/ ContextUnreadable(p)
         \/ DeleteContext(p) \/ Deprovision(p) \/ CleanupFails(p)
  PROVE  IInv'
<1>1. /\ proc[p].pc \in {"upsert", "provision", "ensure", "delete", "deprovision"}
      /\ UNCHANGED <<chain, lease, lock, claims, queue, box, history>>
      /\ ctx' = ctx \/ \E v \in BOOLEAN : ctx' = [ctx EXCEPT ![Dev(p)] = v]
      /\ pending' = pending \/ pending' = [pending EXCEPT ![Dev(p)] = FALSE]
      /\ relay' = relay \/ \E v \in BOOLEAN : relay' = [relay EXCEPT ![Dev(p)] = v]
      /\ Ends(p) \/ \E step \in Pcs \ CriticalPcs : Moves(p, step)
  BY ContextMoves
<1>2. Rest
  BY DEF IInv
<1>3. /\ ctx' \in [Devices -> BOOLEAN] /\ pending' \in [Devices -> BOOLEAN]
      /\ relay' \in [Devices -> BOOLEAN]
  BY <1>1, <1>2 DEF Rest
<1>4. Rest' /\ UNCHANGED <<chain, lock, box>>
  BY <1>1, <1>2, <1>3 DEF Rest, history
<1>5. proc[p].pc \in Pcs \ CriticalPcs
  BY <1>1 DEF Pcs, CriticalPcs
<1> QED BY <1>1, <1>4, <1>5, QuietInv

LEMMA ReuseInv == ASSUME IInv, NEW p \in Procs, EnsureReuse(p) PROVE IInv'
<1>1. /\ proc[p].pc = "lock" /\ Rest /\ Quit(p) /\ claims' \subseteq claims
      /\ UNCHANGED <<chain, disk, pending, lease, lock, queue, box, history>>
  BY DEF IInv, EnsureReuse, EnsureDone, At
<1>2. Rest' /\ UNCHANGED <<chain, lock, box>>
  BY <1>1 DEF Rest, disk, history
<1>3. Ends(p) /\ proc[p].pc \in Pcs \ CriticalPcs
  BY <1>1, QuitEnds DEF Pcs, CriticalPcs
<1> QED BY <1>2, <1>3, QuietInv
-----------------------------------------------------------------------------
(* Engine calls.                                                           *)

LEMMA LockInv ==
  ASSUME IInv, NEW p \in Procs, EnsureLock(p) \/ KillLock(p)
  PROVE  IInv'
<1>1. /\ proc[p].pc \in {"lock", "stop"} /\ Rest /\ lock[Dev(p)] = None
      /\ lock' = [lock EXCEPT ![Dev(p)] = p]
      /\ UNCHANGED <<chain, disk, pending, lease, claims, queue, box, history>>
  BY DEF IInv, EnsureLock, KillLock, At, LockFree
<1>2. Rest' /\ UNCHANGED <<chain, box>>
  BY <1>1 DEF Rest, disk, history
<1>3. proc[p] \in Flows /\ ~Critical(p) /\ ~At(p, "probe")
  BY <1>1, Busy DEF Critical, At
<1>4. PICK d \in Devices : d = Dev(p)
  BY <1>1, Busy
<1>5. CASE EnsureLock(p)
  <2>1. Moves(p, "create")
    BY <1>3, <1>5, GotoMoves DEF EnsureLock, Pcs
  <2>2. Critical(p)' /\ proc'[p].pc # "kill" /\ "create" \in Pcs
    BY <2>1 DEF Moves, Critical, Pcs
  <2> QED BY <1>1, <1>2, <1>3, <1>4, <2>1, <2>2, StepInv
<1>6. CASE KillLock(p)
  <2> DEFINE f == [proc[p] EXCEPT !.pc = "kill", !.seen = Listed(d)]
  <2>1. Listed(d) \in BOOLEAN
    BY DEF Listed
  <2>2. /\ f \in Flows /\ f.pc = "kill" /\ f.dev = d /\ f.job = Job(p)
        /\ ~f.seen => box[d] = "none"
    BY <1>3, <1>4, <2>1 DEF Flows, Dev, Job, Listed
  <2>3. proc' = [proc EXCEPT ![p] = f]
    BY <1>4, <1>6 DEF KillLock
  <2> HIDE DEF f
  <2>4. Moves(p, "kill") /\ proc'[p] = f
    BY <1>4, <2>2, <2>3 DEF IInv, Moves, Others
  <2>5. Critical(p)' /\ "kill" \in Pcs
    BY <2>4 DEF Moves, Critical, Pcs
  <2> QED BY <1>1, <1>2, <1>3, <1>4, <2>2, <2>4, <2>5, StepInv
<1> QED BY <1>5, <1>6

\* An engine call ends, with whatever it did to the container of its device.
LEMMA ReleaseInv ==
  ASSUME IInv, NEW p \in Procs, Critical(p), NEW d \in Devices, d = Dev(p),
         Rest', chain' = chain, lock' = Unlock(d),
         Ends(p) \/ Moves(p, "ensure"),
         \A e \in Devices : e # d => box'[e] = box[e]
  PROVE  IInv'
<1>1. proc[p] \in Flows /\ ~At(p, "probe")
  BY Busy DEF Critical, At
<1>2. ~Critical(p)' /\ proc'[p].pc # "kill" /\ "ensure" \in Pcs
  BY IdleFields DEF Ends, Moves, Critical, Pcs
<1>3. Ends(p) \/ \E step \in Pcs : Moves(p, step)
  BY <1>2
<1> QED BY <1>1, <1>2, <1>3, StepInv

LEMMA CreateInv ==
  ASSUME IInv, NEW p \in Procs, EnsureCreate(p) \/ CreateFails(p)
  PROVE  IInv'
<1>1. /\ proc[p].pc = "create" /\ Rest
      /\ UNCHANGED <<chain, ctx, pending, lease, queue, history>>
  BY DEF IInv, EnsureCreate, CreateFails, At
<1>2. PICK d \in Devices : d = Dev(p)
  BY <1>1, Busy
<1>3. proc[p] \in Flows /\ Critical(p) /\ ~At(p, "probe")
  BY <1>1, Busy DEF Critical, At
<1>4. /\ relay' \in [Devices -> BOOLEAN]
      /\ box' \in [Devices -> {"none", "created", "running", "exited"}]
      /\ \A e \in Devices : e # d => box'[e] = box[e]
  <2>1. /\ relay \in [Devices -> BOOLEAN]
        /\ box \in [Devices -> {"none", "created", "running", "exited"}]
    BY <1>1 DEF Rest
  <2>2. /\ relay' \in {relay, [relay EXCEPT ![d] = TRUE]}
        /\ \/ box' = box
           \/ \E x \in {"none", "created"} : box' = [box EXCEPT ![d] = x]
    BY <1>2 DEF EnsureCreate, CreateFails, Provisioned
  <2>3. relay' \in [Devices -> BOOLEAN]
    BY <2>1, <2>2
  <2> QED BY <2>1, <2>2, <2>3
<1>5. claims' \subseteq claims
  BY DEF EnsureCreate, CreateFails, EnsureDone
<1>6. Rest' /\ chain' = chain
  BY <1>1, <1>4, <1>5 DEF Rest, history
<1>7. CASE lock' = Unlock(d) /\ Quit(p)
  BY <1>2, <1>3, <1>4, <1>6, <1>7, QuitEnds, ReleaseInv
<1>8. CASE lock' = lock /\ Goto(p, "start")
  <2>1. Moves(p, "start") /\ "start" \in Pcs
    BY <1>3, <1>8, GotoMoves DEF Pcs
  <2>2. Critical(p)' /\ proc'[p].pc # "kill"
    BY <2>1 DEF Moves, Critical
  <2> QED BY <1>2, <1>3, <1>4, <1>6, <1>8, <2>1, <2>2, StepInv
<1> QED BY <1>2, <1>7, <1>8 DEF EnsureCreate, CreateFails, EnsureDone

LEMMA StartEndsInv ==
  ASSUME IInv, NEW p \in Procs, EnsureStart(p) \/ StartFails(p)
  PROVE  IInv'
<1>1. /\ proc[p].pc = "start" /\ Rest /\ Quit(p) /\ claims' \subseteq claims
      /\ lock' = Unlock(Dev(p))
      /\ UNCHANGED <<chain, disk, pending, queue, history>>
  BY DEF IInv, EnsureStart, StartFails, EnsureDone, At
<1>2. PICK d \in Devices : d = Dev(p)
  BY <1>1, Busy
<1>3. Critical(p)
  BY <1>1 DEF Critical
<1>4. lease' \in [Devices -> BOOLEAN]
  BY <1>1, <1>2, SandboxAssumption DEF EnsureStart, StartFails, Rest
<1>5. \E left \in {"none", "created", "running", "exited"} :
        box' = [box EXCEPT ![d] = left]
  BY <1>2 DEF EnsureStart, StartFails
<1>6. /\ box' \in [Devices -> {"none", "created", "running", "exited"}]
      /\ \A e \in Devices : e # d => box'[e] = box[e]
  BY <1>1, <1>5 DEF Rest
<1>7. Rest' /\ chain' = chain
  BY <1>1, <1>4, <1>6 DEF Rest, disk, history
<1> QED BY <1>1, <1>2, <1>3, <1>6, <1>7, QuitEnds, ReleaseInv

LEMMA KillInv ==
  ASSUME IInv, NEW p \in Procs, Kill(p) \/ KillFails(p) \/ (KillBroken(p) /\ UNCHANGED unstopped)
  PROVE  IInv'
<1>1. /\ proc[p].pc = "kill" /\ Rest /\ lock' = Unlock(Dev(p))
      /\ UNCHANGED <<chain, disk, pending, claims, queue, crashes>>
  BY DEF IInv, Kill, KillFails, KillBroken, At, history
<1>2. PICK d \in Devices : d = Dev(p)
  BY <1>1, Busy
<1>3. proc[p] \in Flows /\ Critical(p)
  BY <1>1, Busy DEF Critical
<1>4. /\ lease' \in [Devices -> BOOLEAN] /\ unstopped' \subseteq Devices
      /\ box' \in [Devices -> {"none", "created", "running", "exited"}]
      /\ \A e \in Devices : e # d => box'[e] = box[e]
  <2>1. /\ lease' = lease \/ lease' = [lease EXCEPT ![d] = FALSE]
        /\ box' = box \/ box' = [box EXCEPT ![d] = "none"]
        /\ unstopped' \in {unstopped, unstopped \cup {d}}
    BY <1>2 DEF Kill, KillFails, KillBroken, history
  <2> QED BY <1>1, <2>1 DEF Rest
<1>5. Rest' /\ chain' = chain
  BY <1>1, <1>4 DEF Rest, disk
<1>6. Quit(p) \/ Goto(p, "ensure")
  BY DEF Kill, KillFails, KillBroken
<1>7. Ends(p) \/ Moves(p, "ensure")
  BY <1>3, <1>6, QuitEnds, GotoMoves DEF Pcs
<1> QED BY <1>1, <1>2, <1>3, <1>4, <1>5, <1>7, ReleaseInv

LEMMA HangUpInv == ASSUME IInv, NEW p \in Procs, HangUp(p) PROVE IInv'
<1>1. CASE KillBroken(p)
  BY <1>1, KillInv DEF HangUp
<1>2. CASE ~KillBroken(p)
  <2>1. /\ proc[p].pc \in {"provision", "deprovision", "stop"} /\ Rest /\ Quit(p)
        /\ UNCHANGED <<chain, disk, memory, box, history>>
    BY <1>2 DEF HangUp, IInv, At, history
  <2>2. Rest' /\ UNCHANGED <<chain, lock, box>>
    BY <2>1 DEF Rest, disk, memory, history
  <2>3. Ends(p) /\ proc[p].pc \in Pcs \ CriticalPcs
    BY <2>1, QuitEnds DEF Pcs, CriticalPcs
  <2> QED BY <2>2, <2>3, QuietInv
<1> QED BY <1>1, <1>2
-----------------------------------------------------------------------------
(* The environment.                                                        *)

\* Steps that leave the processes and the locks alone.
LEMMA OutsideInv ==
  ASSUME IInv,
         \/ sweep_once
         \/ \E d \in Devices : revokeAgentDevice(d) \/ Exit(d) \/ ClaimExpires(d)
         \/ UNCHANGED vars
  PROVE  IInv'
<1>0. /\ Rest /\ lock \in [Devices -> Procs \cup {None}]
      /\ proc \in [Procs -> Flows \cup {Idle}] /\ LockPairs /\ Unseen
  BY DEF IInv
<1>1. UNCHANGED <<proc, lock>>
  BY DEF sweep_once, revokeAgentDevice, Exit, ClaimExpires, vars, memory, history
<1>2. Rest'
  BY <1>0 DEF Rest, sweep_once, revokeAgentDevice, Exit, ClaimExpires, vars, memory,
              history, disk
<1>3. \A d \in Devices : box[d] = "none" => box'[d] = "none"
  BY <1>0 DEF Rest, sweep_once, revokeAgentDevice, Exit, ClaimExpires, vars
<1>4. LockPairs'
  BY <1>0, <1>1 DEF LockPairs, Critical, Dev
<1>6. Unseen'
  <2> SUFFICES ASSUME NEW q \in Procs, At(q, "kill"), ~proc[q].seen
               PROVE  box'[Dev(q)] = "none"
    BY <1>1 DEF Unseen, Dev, At
  <2>1. Dev(q) \in Devices
    BY Busy DEF At
  <2> QED BY <1>0, <1>3, <2>1 DEF Unseen
<1> QED BY <1>0, <1>1, <1>2, <1>4, <1>6 DEF IInv

LEMMA CrashInv == ASSUME IInv, Crash PROVE IInv'
<1>1. Rest'
  BY SandboxAssumption DEF IInv, Rest, Crash, disk
<1>2. /\ lock' \in [Devices -> Procs \cup {None}]
      /\ proc' \in [Procs -> Flows \cup {Idle}]
      /\ \A d \in Devices : lock'[d] = None
      /\ \A p \in Procs : proc'[p] = Idle
  BY DEF Crash, IInv, Rest
<1>3. \A p \in Procs : proc'[p].pc = "idle"
  BY <1>2, IdleFields
<1>4. LockPairs' /\ Unseen'
  BY <1>2, <1>3 DEF LockPairs, Unseen, Critical, At
<1> QED BY <1>1, <1>2, <1>4 DEF IInv

LEMMA NextInv == IInv /\ [Next]_vars => IInv'
<1> SUFFICES ASSUME IInv, [Next]_vars PROVE IInv'
  OBVIOUS
<1>1. ASSUME NEW p \in Procs, Step(p) PROVE IInv'
  BY <1>1, ProbeInv, LiveInv, ContextInv, ReuseInv, LockInv, CreateInv, StartEndsInv,
     KillInv DEF Step
<1>2. ASSUME NEW p \in Procs, Failure(p) PROVE IInv'
  BY <1>2, LiveInv, ContextInv, CreateInv, StartEndsInv, KillInv, HangUpInv DEF Failure
<1> QED BY <1>1, <1>2, BeginInv, OutsideInv, CrashInv DEF Next

LEMMA Inductive == Spec => []IInv
BY InitInv, NextInv, PTL DEF Spec
-----------------------------------------------------------------------------
(* What is gone stays gone.                                                *)

RevokePcs == {"probe", "delete", "deprovision", "stop", "kill"}

PairPcs == {"ensure", "lock", "create", "start"}

\* The points a flow passes: a teardown never ensures, a pairing poll does
\* nothing else, and a container is started only from a complete environment.
Staged(f) ==
  /\ f.job = "revoke" => f.pc \in RevokePcs
  /\ f.job = "pair" => f.pc \in PairPcs
  /\ f.pc = "start" => f.env

Stages == \A p \in Procs : Staged(proc[p])

LEMMA IdleStaged == Staged(Idle)
BY DEF Staged, Idle

\* Only the flow of p moves, and it stays on its path.
LEMMA MoveStages ==
  ASSUME IInv, Stages, NEW p \in Procs, NEW step, Moves(p, step),
         Job(p) = "revoke" => step \in RevokePcs,
         Job(p) = "pair" => step \in PairPcs,
         step # "start"
  PROVE  Stages'
<1>1. Staged(proc'[p])
  BY DEF Moves, Staged
<1> QED BY <1>1 DEF Stages, Moves, Others

LEMMA EndStages == ASSUME IInv, Stages, NEW p \in Procs, Ends(p) PROVE Stages'
BY IdleStaged DEF Stages, Ends, Others

LEMMA StartStages ==
  ASSUME IInv, Stages, NEW p \in Procs, NEW d \in Devices, NEW job \in Jobs, Start(p, job, d)
  PROVE  Stages'
<1>1. Staged(Flow(job, d))
  BY DEF Staged, Flow, RevokePcs, PairPcs
<1>2. proc \in [Procs -> Flows \cup {Idle}] /\ proc' = [proc EXCEPT ![p] = Flow(job, d)]
  BY DEF IInv, Start
<1> HIDE DEF Staged
<1> QED BY <1>1, <1>2 DEF Stages

LEMMA StepStages == ASSUME IInv, Stages, NEW p \in Procs, Step(p) PROVE Stages'
<1>0. proc[p].pc # "idle"
  BY DEF Step, Probe, LiveNone, LiveSome, finalize_spawn, provision_delegate_envs,
     ReadContext, upsert, ensure_for_delegate, EnsureReuse, EnsureLock, EnsureCreate,
     EnsureStart, DeleteContext, Deprovision, KillLock, Kill, At
<1>1. proc[p] \in Flows /\ Dev(p) \in Devices /\ Job(p) \in Jobs /\ Staged(proc[p])
  BY <1>0, Busy DEF Stages
<1>2. CASE Quit(p)
  BY <1>2, QuitEnds, EndStages
<1>3. CASE Probe(p) /\ ~Quit(p)
  <2>1. Goto(p, AfterProbe(Job(p))) /\ At(p, "probe")
    BY <1>3 DEF Probe
  <2>2. Job(p) # "pair"
    BY <1>1, <2>1 DEF Staged, PairPcs, Job, At
  <2>3. /\ AfterProbe(Job(p)) \in Pcs \ {"start"}
        /\ Job(p) = "revoke" => AfterProbe(Job(p)) \in RevokePcs
    BY DEF AfterProbe, Pcs, RevokePcs
  <2> HIDE DEF AfterProbe
  <2> QED BY <1>1, <2>1, <2>2, <2>3, GotoMoves, MoveStages
<1>4. CASE (LiveNone(p) \/ LiveSome(p)) /\ ~Quit(p)
  <2>1. PICK step \in {"stop", "ensure"} : Goto(p, step)
    BY <1>4 DEF LiveNone, LiveSome
  <2>2. Job(p) # "pair" /\ Job(p) # "revoke"
    BY <1>1, <1>4 DEF Staged, PairPcs, RevokePcs, Job, At, LiveNone, LiveSome
  <2> QED BY <1>1, <2>1, <2>2, GotoMoves, MoveStages DEF Pcs
<1>5. CASE (finalize_spawn(p) \/ provision_delegate_envs(p)) /\ ~Quit(p)
  <2>1. Job(p) # "pair" /\ Job(p) # "revoke"
    BY <1>1, <1>5 DEF Staged, PairPcs, RevokePcs, Job, At, finalize_spawn,
       provision_delegate_envs
  <2>2. \/ Goto(p, "ensure")
        \/ proc' = [proc EXCEPT ![p].pc = "provision", ![p].eager = TRUE]
        \/ \E env \in BOOLEAN : proc' = [proc EXCEPT ![p].pc = "lock", ![p].env = env]
    BY <1>5 DEF finalize_spawn, provision_delegate_envs
  <2>3. \E step \in Pcs \ {"start"} : Moves(p, step)
    <3>1. {"ensure", "provision", "lock"} \subseteq Pcs \ {"start"}
      BY DEF Pcs
    <3> QED BY <1>1, <2>2, <3>1, GotoMoves, EagerMoves, EnvMoves
  <2> QED BY <2>1, <2>3, MoveStages
<1>6. CASE ReadContext(p) /\ ~Quit(p)
  <2>1. Job(p) # "pair" /\ Job(p) # "revoke"
    BY <1>6 DEF ReadContext
  <2>2. Moves(p, "upsert")
    BY <1>1, <1>6, ReadMoves DEF ReadContext
  <2> QED BY <2>1, <2>2, MoveStages
<1>7. CASE ensure_for_delegate(p)
  <2>1. Job(p) # "revoke" /\ "lock" \in Pcs /\ ctx[Dev(p)] \in BOOLEAN
    BY <1>1, <1>7 DEF Staged, RevokePcs, Job, At, ensure_for_delegate, Pcs, IInv, Rest
  <2>2. Moves(p, "lock")
    BY <1>1, <1>7, <2>1, EnvMoves DEF ensure_for_delegate
  <2> QED BY <2>1, <2>2, MoveStages DEF PairPcs
<1>8. CASE EnsureLock(p)
  <2>1. Job(p) # "revoke"
    BY <1>1, <1>8 DEF Staged, RevokePcs, Job, At, EnsureLock
  <2>2. Moves(p, "create")
    BY <1>1, <1>8, GotoMoves DEF EnsureLock, Pcs
  <2> QED BY <2>1, <2>2, MoveStages DEF PairPcs
<1>9. CASE EnsureCreate(p) /\ ~Quit(p)
  <2>1. Job(p) # "revoke" /\ Goto(p, "start") /\ proc[p].env
    BY <1>1, <1>9 DEF Staged, RevokePcs, Job, At, EnsureCreate, EnsureDone, Complete
  <2>2. Moves(p, "start") /\ proc'[p].env = proc[p].env
    BY <1>1, <2>1, GotoMoves DEF Pcs
  <2>3. Staged(proc'[p])
    BY <2>1, <2>2 DEF Staged, Moves, PairPcs
  <2> QED BY <2>2, <2>3 DEF Stages, Moves, Others
<1>10. CASE DeleteContext(p) \/ Deprovision(p)
  <2>1. PICK step \in {"deprovision", "stop"} : Goto(p, step)
    BY <1>10 DEF DeleteContext, Deprovision
  <2>2. Job(p) # "pair"
    BY <1>1, <1>10 DEF Staged, PairPcs, Job, At, DeleteContext, Deprovision
  <2> QED BY <1>1, <2>1, <2>2, GotoMoves, MoveStages DEF Pcs, RevokePcs
<1>11. CASE KillLock(p)
  <2>1. Job(p) # "pair"
    BY <1>1, <1>11 DEF Staged, PairPcs, Job, At, KillLock
  <2> DEFINE f == [proc[p] EXCEPT !.pc = "kill", !.seen = Listed(Dev(p))]
  <2>2. proc' = [proc EXCEPT ![p] = f] /\ f.pc = "kill" /\ f.job = Job(p)
    BY <1>1, <1>11 DEF KillLock, Flows, Job
  <2>3. Staged(f)
    BY <2>1, <2>2 DEF Staged, RevokePcs
  <2> HIDE DEF f
  <2> QED BY <2>2, <2>3 DEF Stages, IInv
<1>12. CASE Kill(p) /\ ~Quit(p)
  <2>1. Job(p) = "update" /\ Goto(p, "ensure")
    BY <1>12 DEF Kill
  <2> QED BY <1>1, <2>1, GotoMoves, MoveStages DEF Pcs
<1>13. upsert(p) \/ EnsureReuse(p) \/ EnsureStart(p) => Quit(p)
  BY DEF upsert, EnsureReuse, EnsureStart, EnsureDone
<1> QED BY <1>2, <1>3, <1>4, <1>5, <1>6, <1>7, <1>8, <1>9, <1>10, <1>11, <1>12, <1>13
        DEF Step

LEMMA FailureStages == ASSUME IInv, Stages, NEW p \in Procs, Failure(p) PROVE Stages'
<1>1. CASE ContextUnreadable(p)
  <2>1. proc[p] \in Flows /\ Job(p) # "revoke" /\ "lock" \in Pcs
    BY <1>1, Busy DEF ContextUnreadable, At, Stages, Staged, RevokePcs, Job, Pcs
  <2>2. Moves(p, "lock")
    BY <1>1, <2>1, EnvMoves DEF ContextUnreadable
  <2> QED BY <2>1, <2>2, MoveStages DEF PairPcs
<1>2. CASE CleanupFails(p)
  <2>1. PICK step \in {"deprovision", "stop"} : Goto(p, step)
    BY <1>2 DEF CleanupFails
  <2>2. proc[p] \in Flows /\ Job(p) # "pair"
    BY <1>2, Busy DEF CleanupFails, At, Stages, Staged, PairPcs, Job
  <2> QED BY <2>1, <2>2, GotoMoves, MoveStages DEF Pcs, RevokePcs
<1>3. CASE Quit(p)
  BY <1>3, QuitEnds, EndStages
<1> QED BY <1>1, <1>2, <1>3 DEF Failure, CallFails, CreateFails, StartFails, KillFails,
           KillBroken, HangUp, EnsureDone

LEMMA StagesNext == IInv /\ Stages /\ [Next]_vars => Stages'
<1> SUFFICES ASSUME IInv, Stages, [Next]_vars PROVE Stages'
  OBVIOUS
<1>1. ASSUME NEW d \in Devices, SweepRow(d) PROVE Stages'
  BY <1>1, StartStages DEF SweepRow, Procs, Jobs
<1>2. ASSUME NEW w \in Workers, NEW d \in Devices, Request(w, d) PROVE Stages'
  <2>1. PICK job \in Jobs : Arrives(w, job, d)
    BY <1>2 DEF Request, sandbox_wake, agent_update, agent_resolve,
       verified_finalization, spawn_context_update, rehydrate, pairing_poll, Jobs
  <2> QED BY <2>1, StartStages DEF Arrives, Procs
<1>3. CASE Crash
  BY <1>3, IdleStaged DEF Crash, Stages
<1>4. CASE UNCHANGED proc
  BY <1>4 DEF Stages
<1> QED BY <1>1, <1>2, <1>3, <1>4, StepStages, FailureStages
        DEF Next, sweep_once, revokeAgentDevice, Exit, ClaimExpires, vars

LEMMA Paths == Spec => []Stages
<1>1. Init => Stages
  BY IdleStaged DEF Init, Stages
<1> QED BY <1>1, StagesNext, Inductive, PTL DEF Spec

\* A flow that does not belong to the device leaves its row and its container
\* alone, and so does a harmless one.
LEMMA HarmlessStep ==
  ASSUME IInv, Stages, NEW d \in Devices, Gone(d), NEW p \in Procs, Step(p) \/ Failure(p)
  PROVE  /\ ~ctx'[d] /\ box'[d] = "none" /\ chain' = chain
         /\ Others(p) /\ (Dev(p)' = d => Harmless(p)')
<1>0. proc[p].pc # "idle"
  BY DEF Step, Failure, Probe, LiveNone, LiveSome, finalize_spawn, provision_delegate_envs,
     ReadContext, upsert, ensure_for_delegate, EnsureReuse, EnsureLock, EnsureCreate,
     EnsureStart, DeleteContext, Deprovision, KillLock, Kill, CallFails, CreateFails,
     StartFails, CleanupFails, KillFails, KillBroken, ContextUnreadable, HangUp, At
<1>1. /\ proc[p] \in Flows /\ Dev(p) \in Devices /\ Job(p) \in Jobs /\ Staged(proc[p])
      /\ Rest /\ chain[d] = "revoked" /\ ~ctx[d] /\ box[d] = "none"
      /\ Dev(p) = d => Harmless(p)
  BY <1>0, Busy DEF Stages, Gone, IInv
<1>2. ASSUME Ends(p) PROVE Others(p) /\ (Dev(p)' = d => Harmless(p)')
  BY <1>2, IdleFields, SandboxAssumption DEF Ends, Dev, Procs
<1>3. ASSUME NEW step, Moves(p, step), Dev(p) # d
      PROVE  Others(p) /\ (Dev(p)' = d => Harmless(p)')
  BY <1>3 DEF Moves, Dev
<1>4. ASSUME NEW step, Moves(p, step), Job(p) = "revoke"
      PROVE  Others(p) /\ (Dev(p)' = d => Harmless(p)')
  BY <1>4 DEF Moves, Harmless, Job
<1>5. ASSUME NEW step, Moves(p, step), Job(p) = "pair", step = "ensure" \/ ~proc'[p].env
      PROVE  Others(p) /\ (Dev(p)' = d => Harmless(p)')
  BY <1>5 DEF Moves, Harmless, Job, At
<1>6. CASE Probe(p) \/ CallFails(p)
  <2>1. ~ctx'[d] /\ box'[d] = "none" /\ chain' = chain
    BY <1>1, <1>6 DEF Probe, CallFails, disk
  <2>2. CASE Quit(p)
    BY <1>2, <2>1, <2>2, QuitEnds
  <2>3. CASE Job(p) = "revoke" /\ Goto(p, AfterProbe(Job(p)))
    <3>1. Moves(p, AfterProbe(Job(p)))
      BY <1>1, <2>3, GotoMoves DEF AfterProbe, Pcs
    <3> HIDE DEF AfterProbe
    <3> QED BY <1>4, <2>1, <2>3, <3>1
  <2>4. CASE Job(p) # "revoke" /\ Goto(p, AfterProbe(Job(p))) /\ Dev(p) # d
    <3>1. Moves(p, AfterProbe(Job(p)))
      BY <1>1, <2>4, GotoMoves DEF AfterProbe, Pcs
    <3> HIDE DEF AfterProbe
    <3> QED BY <1>3, <2>1, <2>4, <3>1
  <2> QED BY <1>1, <1>6, <2>2, <2>3, <2>4 DEF Probe, CallFails, Authorizes
<1>7. CASE LiveNone(p) \/ LiveSome(p)
  <2>1. ~ctx'[d] /\ box'[d] = "none" /\ chain' = chain
    BY <1>1, <1>7 DEF LiveNone, LiveSome, disk
  <2>2. Dev(p) # d
    BY <1>1, <1>7 DEF LiveNone, LiveSome, Harmless, Staged, RevokePcs, PairPcs, Job, At
  <2>3. Quit(p) \/ \E step \in {"stop", "ensure"} : Goto(p, step)
    BY <1>7 DEF LiveNone, LiveSome
  <2>4. {"stop", "ensure"} \subseteq Pcs
    BY DEF Pcs
  <2> QED BY <1>1, <1>2, <1>3, <2>1, <2>2, <2>3, <2>4, QuitEnds, GotoMoves
<1>8. CASE \/ finalize_spawn(p) \/ provision_delegate_envs(p) \/ ReadContext(p) \/ upsert(p)
  <2>1. Dev(p) # d
    BY <1>1, <1>8 DEF finalize_spawn, provision_delegate_envs, ReadContext, upsert,
       Harmless, Staged, RevokePcs, PairPcs, Job, At
  <2>2. /\ UNCHANGED <<chain, box>>
        /\ ctx' = ctx \/ \E v \in BOOLEAN : ctx' = [ctx EXCEPT ![Dev(p)] = v]
        /\ Ends(p) \/ \E step \in Pcs : Moves(p, step)
    BY <1>8, ContextMoves
  <2>3. ~ctx'[d]
    BY <1>1, <2>1, <2>2 DEF Rest
  <2> QED BY <1>1, <1>2, <1>3, <2>1, <2>2, <2>3
<1>9. CASE ensure_for_delegate(p) \/ ContextUnreadable(p)
  <2>1. ~ctx'[d] /\ box'[d] = "none" /\ chain' = chain
    BY <1>1, <1>9 DEF ensure_for_delegate, ContextUnreadable, disk
  <2>2. PICK env \in BOOLEAN : /\ proc' = [proc EXCEPT ![p].pc = "lock", ![p].env = env]
                               /\ Dev(p) = d => ~env
    <3>1. CASE ensure_for_delegate(p)
      <4>1. proc' = [proc EXCEPT ![p].pc = "lock", ![p].env = ctx[Dev(p)]]
        BY <3>1 DEF ensure_for_delegate
      <4>2. ctx[Dev(p)] \in BOOLEAN /\ (Dev(p) = d => ~ctx[Dev(p)])
        BY <1>1 DEF Rest
      <4> QED BY <4>1, <4>2
    <3>2. CASE ContextUnreadable(p)
      <4>1. proc' = [proc EXCEPT ![p].pc = "lock", ![p].env = FALSE] /\ ~FALSE
        BY <3>2 DEF ContextUnreadable
      <4> QED BY <4>1, Zenon
    <3> QED BY <1>9, <3>1, <3>2
  <2>3. Moves(p, "lock") /\ proc'[p].env = env
    BY <1>1, <2>2, EnvMoves DEF Pcs
  <2>4. Dev(p) = d => Job(p) = "pair"
    BY <1>1, <1>9 DEF ensure_for_delegate, ContextUnreadable, Harmless, Staged, RevokePcs,
       Job, At
  <2> QED BY <1>3, <1>5, <2>1, <2>2, <2>3, <2>4
<1>10. CASE EnsureReuse(p) \/ EnsureLock(p)
  <2>1. ~ctx'[d] /\ box'[d] = "none" /\ chain' = chain
    BY <1>1, <1>10 DEF EnsureReuse, EnsureLock, disk
  <2>2. CASE Quit(p)
    BY <1>2, <2>1, <2>2, QuitEnds
  <2>3. CASE Goto(p, "create")
    <3>1. Moves(p, "create") /\ proc'[p].env = proc[p].env
      BY <1>1, <2>3, GotoMoves DEF Pcs
    <3>2. Dev(p) = d => Job(p) = "pair" /\ ~proc[p].env
      BY <1>1, <1>10 DEF EnsureReuse, EnsureLock, Harmless, Staged, RevokePcs, Job, At
    <3> QED BY <1>3, <1>5, <2>1, <3>1, <3>2
  <2> QED BY <1>10, <2>2, <2>3 DEF EnsureReuse, EnsureDone, EnsureLock
<1>11. CASE EnsureCreate(p) \/ CreateFails(p) \/ EnsureStart(p) \/ StartFails(p)
  <2>1. Dev(p) = d => Job(p) = "pair" /\ ~proc[p].env /\ proc[p].pc = "create"
    BY <1>1, <1>11 DEF EnsureCreate, CreateFails, EnsureStart, StartFails, Harmless, Staged,
       RevokePcs, Job, At
  <2>2. \/ box' = box
        \/ \E x : box' = [box EXCEPT ![Dev(p)] = x] /\ (Dev(p) = d => x = "none")
    BY <1>11, <2>1 DEF EnsureCreate, CreateFails, EnsureStart, StartFails, Complete, At
  <2>3. ~ctx'[d] /\ box'[d] = "none" /\ chain' = chain
    <3>1. ctx' = ctx /\ chain' = chain
      BY <1>11 DEF EnsureCreate, CreateFails, EnsureStart, StartFails, disk
    <3> QED BY <1>1, <2>2, <3>1 DEF Rest
  <2>4. Quit(p) \/ (Goto(p, "start") /\ Dev(p) # d)
    BY <1>11, <2>1 DEF EnsureCreate, CreateFails, EnsureStart, StartFails, EnsureDone, Complete
  <2>5. "start" \in Pcs
    BY DEF Pcs
  <2> QED BY <1>1, <1>2, <1>3, <2>3, <2>4, <2>5, QuitEnds, GotoMoves
<1>12. CASE DeleteContext(p) \/ Deprovision(p) \/ CleanupFails(p)
  <2>1. /\ UNCHANGED <<chain, box>>
        /\ Ends(p) \/ \E step \in Pcs : Moves(p, step)
    BY <1>12, ContextMoves
  <2>2. ~ctx'[d]
    BY <1>1, <1>12 DEF DeleteContext, Deprovision, CleanupFails, Rest, disk
  <2>3. Dev(p) = d => Job(p) = "revoke"
    BY <1>1, <1>12 DEF DeleteContext, Deprovision, CleanupFails, Harmless, Staged, PairPcs,
       Job, At
  <2> QED BY <1>1, <1>2, <1>3, <1>4, <2>1, <2>2, <2>3
<1>13. CASE KillLock(p)
  <2>1. ~ctx'[d] /\ box'[d] = "none" /\ chain' = chain
    BY <1>1, <1>13 DEF KillLock, disk
  <2>2. Dev(p) = d => Job(p) = "revoke"
    BY <1>1, <1>13 DEF KillLock, Harmless, Staged, PairPcs, Job, At
  <2> DEFINE f == [proc[p] EXCEPT !.pc = "kill", !.seen = Listed(Dev(p))]
  <2>3. proc' = [proc EXCEPT ![p] = f] /\ f.pc = "kill" /\ f.job = Job(p) /\ f.dev = Dev(p)
    BY <1>1, <1>13 DEF KillLock, Flows, Job, Dev
  <2>4. f \in Flows
    BY <1>1 DEF Flows, Listed
  <2> HIDE DEF f
  <2>5. Moves(p, "kill")
    BY <2>3, <2>4 DEF Moves, Others, IInv
  <2> QED BY <1>3, <1>4, <2>1, <2>2, <2>5
<1>14. CASE Kill(p) \/ KillFails(p) \/ KillBroken(p)
  <2>1. ctx' = ctx /\ chain' = chain
    BY <1>14 DEF Kill, KillFails, KillBroken, disk
  <2>2. box' = box \/ box' = [box EXCEPT ![Dev(p)] = "none"]
    BY <1>14 DEF Kill, KillFails, KillBroken
  <2>3. ~ctx'[d] /\ box'[d] = "none" /\ chain' = chain
    BY <1>1, <2>1, <2>2 DEF Rest
  <2>4. Dev(p) = d => Job(p) = "revoke"
    BY <1>1, <1>14 DEF Kill, KillFails, KillBroken, Harmless, Staged, PairPcs, Job, At
  <2>5. Quit(p) \/ Goto(p, "ensure")
    BY <1>14 DEF Kill, KillFails, KillBroken
  <2>6. "ensure" \in Pcs
    BY DEF Pcs
  <2> QED BY <1>1, <1>2, <1>3, <1>4, <2>3, <2>4, <2>5, <2>6, QuitEnds, GotoMoves
<1>15. CASE HangUp(p)
  <2>1. CASE KillBroken(p)
    BY <1>14, <2>1
  <2>2. CASE ~KillBroken(p)
    <3>1. Quit(p) /\ UNCHANGED <<chain, disk, box>>
      BY <1>15, <2>2 DEF HangUp
    <3> QED BY <1>1, <1>2, <3>1, QuitEnds DEF disk
  <2> QED BY <2>1, <2>2
<1> QED BY <1>6, <1>7, <1>8, <1>9, <1>10, <1>11, <1>12, <1>13, <1>14, <1>15
        DEF Step, Failure

LEMMA GoneNext ==
  ASSUME IInv, Stages, NEW d \in Devices, Gone(d), [Next]_vars
  PROVE  Gone(d)'
<1>0. /\ Rest /\ proc \in [Procs -> Flows \cup {Idle}]
      /\ chain[d] = "revoked" /\ ~ctx[d] /\ box[d] = "none"
      /\ \A q \in Procs : Dev(q) = d => Harmless(q)
  BY DEF IInv, Gone
<1>1. ASSUME NEW p \in Procs, Step(p) \/ Failure(p) PROVE Gone(d)'
  <2>1. /\ ~ctx'[d] /\ box'[d] = "none" /\ chain' = chain
        /\ Others(p) /\ (Dev(p)' = d => Harmless(p)')
    BY <1>1, HarmlessStep
  <2>2. ASSUME NEW q \in Procs, Dev(q)' = d PROVE Harmless(q)'
    BY <1>0, <2>1, <2>2 DEF Others, Dev, Harmless, Job, At
  <2> QED BY <1>0, <2>1, <2>2 DEF Gone
<1>2. ASSUME NEW p \in Procs, NEW e \in Devices, NEW job \in Jobs, Start(p, job, e),
             UNCHANGED <<chain, disk, box>>
      PROVE  Gone(d)'
  <2>1. \A q \in Procs : proc'[q] = IF q = p THEN Flow(job, e) ELSE proc[q]
    BY <1>0, <1>2 DEF Start
  <2>2. /\ Flow(job, e).pc = "probe" \/ (Flow(job, e).job = "pair" /\ Flow(job, e).pc = "ensure")
    BY DEF Flow
  <2>3. ASSUME NEW q \in Procs, Dev(q)' = d PROVE Harmless(q)'
    BY <1>0, <2>1, <2>2, <2>3 DEF Dev, Harmless, Job, At
  <2> QED BY <1>0, <1>2, <2>3 DEF Gone, disk
<1>3. ASSUME NEW e \in Devices, SweepRow(e) PROVE Gone(d)'
  BY <1>2, <1>3 DEF SweepRow, Procs, Jobs
<1>4. ASSUME NEW w \in Workers, NEW e \in Devices, Request(w, e) PROVE Gone(d)'
  <2>1. PICK job \in Jobs : Arrives(w, job, e)
    BY <1>4 DEF Request, sandbox_wake, agent_update, agent_resolve,
       verified_finalization, spawn_context_update, rehydrate, pairing_poll, Jobs
  <2> QED BY <1>2, <2>1 DEF Arrives, Procs
<1>5. CASE Crash
  <2>1. \A q \in Procs : Dev(q)' # d
    BY <1>5, IdleFields, SandboxAssumption DEF Crash, Dev
  <2> QED BY <1>0, <1>5, <2>1 DEF Crash, Gone, disk
<1>6. ASSUME \/ sweep_once \/ UNCHANGED vars
             \/ \E e \in Devices : revokeAgentDevice(e) \/ Exit(e) \/ ClaimExpires(e)
      PROVE  Gone(d)'
  <2>1. UNCHANGED <<proc, ctx>>
    BY <1>6 DEF sweep_once, revokeAgentDevice, Exit, ClaimExpires, vars, disk
  <2>2. chain'[d] = "revoked" /\ box'[d] = "none"
    BY <1>0, <1>6 DEF sweep_once, revokeAgentDevice, Exit, ClaimExpires, vars, Rest
  <2> QED BY <1>0, <2>1, <2>2 DEF Gone, Dev, Harmless, Job, At
<1> QED BY <1>1, <1>3, <1>4, <1>5, <1>6 DEF Next
-----------------------------------------------------------------------------
(* Theorems.                                                               *)

\* Whatever sweeps, handlers, teardowns, failures and crashes interleave, at
\* most one flow is in an engine call for a device, and the lock names it:
\* the order DelegateLocks promises (sandbox_backend.rs:12).
THEOREM Serialised == Spec => []SandboxInv
<1>1. IInv => SandboxInv
  BY InvTypes DEF SandboxInv, EngineCallsSerialised, LockPairs
<1> QED BY <1>1, Inductive, PTL

\* The step at which a teardown reports its runtime stopped leaves no container
\* of its device: the one it listed is removed, and had it listed none, no other
\* flow could create one while it held the lock (sandbox.rs:619).
THEOREM TeardownRemoves == Spec => TeardownLeavesNothing
<1> DEFINE A == \A p \in Procs : Kill(p) /\ Job(p) = "revoke" => box'[Dev(p)] = "none"
<1>1. ASSUME IInv, NEW p \in Procs, Kill(p) PROVE box'[Dev(p)] = "none"
  <2>1. Dev(p) \in Devices
    BY <1>1, Busy DEF Kill, At
  <2> QED BY <1>1, <2>1 DEF Kill, IInv, Rest, Unseen
<1>2. IInv /\ [Next]_vars => [A]_vars
  BY <1>1
<1> HIDE DEF A
<1>3. Spec => [][A]_vars
  BY <1>2, Inductive, PTL DEF Spec
<1> QED BY <1>3 DEF TeardownLeavesNothing, A

\* Once a revoked device has neither row nor container, and nothing is under
\* way that read the chain or the row before, neither comes back, for any
\* number of devices, handlers and crashes: every flow that could bring one
\* back reads the chain first, and the pairing poll, which does not, is refused
\* without the row (lease_sweeper.rs:15, anchor.rs:481, docker_runtime.rs:901).
THEOREM GoneStays == Spec => GoneStaysGone
<1> DEFINE A == \A d \in Devices : Gone(d) => Gone(d)'
<1>1. IInv /\ Stages /\ [Next]_vars => [A]_vars
  BY GoneNext
<1> HIDE DEF A
<1>2. Spec => [][A]_vars
  BY <1>1, Inductive, Paths, PTL DEF Spec
<1> QED BY <1>2 DEF GoneStaysGone, A
-----------------------------------------------------------------------------
(***************************************************************************)
(* The checkpoint of a delegate's runtime, inside its sandbox.  A save     *)
(* replaces a whole object, so the live directory must have all that is    *)
(* stored whenever a restore counts as concluded.  The bridge's guard      *)
(* (HomeKept) does that for the home, the marker and the hold on the       *)
(* engine (WorkspaceKept, EngineHeld) for the workspace, and PutKept       *)
(* carries it from the export to the put.                                  *)
(***************************************************************************)

\* The bounds and the counts.
Counters ==
  /\ clock \in 1..MaxTime /\ work \in 0..MaxWork
  /\ lives \in 0..MaxLives /\ faults \in 0..MaxFaults

\* What the directories, the objects, the daemon's hands and the bridge hold is
\* work that was done.
Contents ==
  /\ live \in [Objects -> SUBSET (1..work)]
  /\ stored \in [Objects -> Snapshot \cup {Nothing}]
  /\ \A o \in Objects : stored[o].units \subseteq 1..work
  /\ got.units \subseteq 1..work
  /\ \A i \in imports : i.snapshot.units \subseteq 1..work

\* The types of the daemon's own state.
Loop ==
  /\ pc \in {"boot", "credential", "off",
             "home", "import", "importing", "workspace", "unpack", "swapped", "settled",
             "save home", "save workspace", "put home", "put workspace"}
  /\ got \in Snapshot \cup {Nothing}
  /\ restore \in [Objects -> {"pending", "concluded", "held"}] /\ restore["home"] # "held"
  /\ ticking \in BOOLEAN /\ refused \subseteq Objects

Fingerprints == last \in [Objects -> (SUBSET Units) \cup {NeverSaved}]

\* The types of the sandbox and the bridge.
Surroundings ==
  /\ marker \in BOOLEAN /\ hold \in BOOLEAN /\ holding \in BOOLEAN
  /\ overrun \in BOOLEAN /\ waived \in BOOLEAN /\ engine \in BOOLEAN
  /\ lastImport \in 0..MaxTime
  /\ imports \subseteq [life : 0..MaxLives, snapshot : Snapshot]

\* The daemon imports what is stored, and waits for one import; every other one
\* was posted by a daemon that died.
ImportSteps ==
  /\ pc \in {"import", "importing"} =>
       got = stored["home"] /\ got # Nothing /\ restore["home"] = "pending"
  /\ \A i \in imports : i.life <= lives
  /\ pc = "importing" => \A i \in imports : Mine(i) => i.snapshot = got
  /\ pc # "importing" => \A i \in imports : ~Mine(i)

\* Unless it was refused the home: what may still land is what is stored, an
\* object the bridge finds stale has landed, and after the conclusion the live
\* home has all that is stored.
HomeKept ==
  "home" \notin refused =>
    /\ \A i \in imports : i.snapshot = stored["home"]
    /\ Stale(stored["home"]) => stored["home"].units \subseteq live["home"]
    /\ restore["home"] = "concluded" => stored["home"].units \subseteq live["home"]

\* The marker, and a conclusion, tell that the live workspace has all that is
\* stored, or that it was refused.
WorkspaceKept ==
  /\ marker \/ restore["workspace"] = "concluded" =>
       "workspace" \in refused \/ stored["workspace"].units \subseteq live["workspace"]
  /\ pc = "unpack" =>
       got = stored["workspace"] /\ restore["workspace"] = "pending" /\ ~marker
  /\ pc = "swapped" => stored["workspace"].units \subseteq live["workspace"]

\* Until its bound, and unless it was waived, the hold keeps the engine out of
\* a workspace that lacks something stored.
EngineHeld ==
  ~overrun /\ ~waived /\ ~marker /\ "workspace" \notin refused =>
    \/ live["workspace"] = {} /\ ~engine /\ (hold \/ pc = "boot")
    \/ stored["workspace"].units \subseteq live["workspace"]

\* An export on its way to the store has all that the store has, and the live
\* directory has all that the export has.
PutKept ==
  \A o \in Objects : pc = PutStep[o] =>
    /\ got # Nothing /\ restore[o] = "concluded" /\ (o = "home" => imports = {})
    /\ o \notin refused => stored[o].units \subseteq got.units /\ got.units \subseteq live[o]

Durable ==
  /\ Counters /\ Contents /\ Loop /\ Fingerprints /\ Surroundings
  /\ ImportSteps /\ HomeKept
  /\ HeldOnlyBehindTheEngine /\ WorkspaceKept /\ EngineHeld
  /\ PutKept

LEMMA StepNames ==
  /\ \A o \in Objects : SaveStep[o] \in {"save home", "save workspace"}
  /\ \A o \in Objects : PutStep[o] \in {"put home", "put workspace"}
  /\ \A o, b \in Objects : PutStep[o] = PutStep[b] => o = b
  /\ \A o \in Objects : AfterSave(o) \in {"home", "save home"}
  BY DEF Objects, SaveStep, PutStep, AfterSave

LEMMA DurableTypes == Durable => CheckpointInv
<1> SUFFICES ASSUME Durable PROVE CheckpointTypeOK /\ HeldOnlyBehindTheEngine
  BY DEF CheckpointInv
<1>1. "save home" = SaveStep["home"] /\ "save workspace" = SaveStep["workspace"]
      /\ "put home" = PutStep["home"] /\ "put workspace" = PutStep["workspace"]
  BY DEF SaveStep, PutStep
<1>2. "home" \in Objects /\ "workspace" \in Objects
  BY DEF Objects
<1>3. pc \in {"boot", "credential", "off",
              "home", "import", "importing", "workspace", "unpack", "swapped", "settled"}
              \cup {SaveStep[o] : o \in Objects} \cup {PutStep[o] : o \in Objects}
  BY <1>1, <1>2 DEF Durable, Loop
<1>4. CheckpointTypeOK
  BY <1>3 DEF Durable, Counters, Contents, Loop, Fingerprints, Surroundings,
      CheckpointTypeOK
<1> QED BY <1>4 DEF Durable

LEMMA DurableInit == CheckpointInit => Durable
<1> SUFFICES ASSUME CheckpointInit PROVE Durable
  OBVIOUS
<1>1. Counters
  BY CheckpointAssumption DEF CheckpointInit, Counters, CheckpointAssumption
<1>2. Contents /\ Loop /\ Fingerprints
  BY DEF CheckpointInit, Contents, Loop, Fingerprints, Nothing, Objects
<1>3. Surroundings
  <2>1. lastImport \in 0..MaxTime
    BY CheckpointAssumption DEF CheckpointInit, CheckpointAssumption
  <2> QED BY <2>1 DEF CheckpointInit, Surroundings
<1>4. ImportSteps /\ HomeKept /\ HeldOnlyBehindTheEngine /\ WorkspaceKept /\ EngineHeld
  BY DEF CheckpointInit, ImportSteps, HomeKept, HeldOnlyBehindTheEngine,
      WorkspaceKept, EngineHeld, Nothing, Objects, Stale, Mine
<1>5. PutKept
  BY StepNames DEF CheckpointInit, PutKept
<1> QED BY <1>1, <1>2, <1>3, <1>4, <1>5 DEF Durable

\* Time passes: only the clock moves.
LEMMA TickDurable ==
  ASSUME Durable, Tick
  PROVE  Durable'
<1> USE DEF Durable, Tick, sandboxVars, bridgeVars, daemonVars
<1>1. Counters'
  BY CheckpointAssumption DEF Counters
<1>2. Contents' /\ Loop' /\ Fingerprints' /\ Surroundings'
  BY DEF Contents, Loop, Surroundings, Fingerprints
<1>3. ImportSteps' /\ HomeKept'
  BY DEF ImportSteps, HomeKept, Stale, Mine
<1>4. HeldOnlyBehindTheEngine' /\ WorkspaceKept' /\ EngineHeld'
  BY DEF HeldOnlyBehindTheEngine, WorkspaceKept, EngineHeld
<1>5. PutKept'
  BY DEF PutKept
<1> QED BY <1>1, <1>2, <1>3, <1>4, <1>5

\* An engine that starts before the bound does so behind the marker or a hold
\* that was lifted; the workspace then lacks nothing.
LEMMA EngineStartsDurable ==
  ASSUME Durable, EngineStarts
  PROVE  Durable'
<1> USE DEF Durable, EngineStarts, sandboxVars, bridgeVars, daemonVars
<1>1. Counters'
  BY DEF Counters
<1>2. Contents' /\ Loop' /\ Fingerprints' /\ Surroundings'
  BY DEF Contents, Loop, Surroundings, Fingerprints
<1>3. ImportSteps' /\ HomeKept'
  BY DEF ImportSteps, HomeKept, Stale, Mine
<1>4. HeldOnlyBehindTheEngine' /\ WorkspaceKept' /\ EngineHeld'
  BY DEF HeldOnlyBehindTheEngine, WorkspaceKept, EngineHeld
<1>5. PutKept'
  BY DEF PutKept
<1> QED BY <1>1, <1>2, <1>3, <1>4, <1>5

\* From the bound on nothing is claimed of the engine.
LEMMA HoldOverrunsDurable ==
  ASSUME Durable, HoldOverruns
  PROVE  Durable'
<1> USE DEF Durable, HoldOverruns, sandboxVars, bridgeVars, daemonVars
<1>1. Counters'
  BY DEF Counters
<1>2. Contents' /\ Loop' /\ Fingerprints' /\ Surroundings'
  BY DEF Contents, Loop, Surroundings, Fingerprints
<1>3. ImportSteps' /\ HomeKept'
  BY DEF ImportSteps, HomeKept, Stale, Mine
<1>4. HeldOnlyBehindTheEngine' /\ WorkspaceKept' /\ EngineHeld'
  BY DEF HeldOnlyBehindTheEngine, WorkspaceKept, EngineHeld
<1>5. PutKept'
  BY DEF PutKept
<1> QED BY <1>1, <1>2, <1>3, <1>4, <1>5

\* The import a dead daemon was waiting for is an orphan now; the files and the
\* objects are as they were.
LEMMA DaemonRestartDurable ==
  ASSUME Durable, DaemonRestart
  PROVE  Durable'
<1> USE DEF Durable, DaemonRestart, Booted, sandboxVars, bridgeVars, daemonVars
<1>1. Counters'
  BY CheckpointAssumption DEF Counters
<1>b. Contents'
  BY DEF Contents, Nothing
<1>c. Loop' /\ Fingerprints'
  BY DEF Loop, Fingerprints, Objects
<1>2. Contents' /\ Loop' /\ Fingerprints' /\ Surroundings'
  BY <1>b, <1>c DEF Surroundings
<1>a. \A i \in imports : i.life \in Nat /\ i.life <= lives /\ lives \in Nat /\ lives' = lives + 1
  BY CheckpointAssumption DEF ImportSteps, Surroundings, Counters
<1>d. restore'["home"] = "pending"
  BY DEF Objects
<1>3. ImportSteps' /\ HomeKept'
  BY <1>a, <1>d DEF ImportSteps, HomeKept, Stale, Mine
<1>4. HeldOnlyBehindTheEngine' /\ WorkspaceKept' /\ EngineHeld'
  BY DEF HeldOnlyBehindTheEngine, WorkspaceKept, EngineHeld, Objects
<1>5. PutKept'
  BY StepNames DEF PutKept
<1> QED BY <1>1, <1>2, <1>3, <1>4, <1>5

\* A new sandbox has nothing, and neither has its bridge.
LEMMA RespawnDurable ==
  ASSUME Durable, Respawn
  PROVE  Durable'
<1> USE DEF Durable, Respawn, Booted, sandboxVars, bridgeVars, daemonVars
<1>1. Counters'
  BY CheckpointAssumption DEF Counters
<1>a. /\ marker' \in BOOLEAN /\ hold' \in BOOLEAN /\ holding' \in BOOLEAN
      /\ overrun' \in BOOLEAN /\ waived' \in BOOLEAN /\ engine' \in BOOLEAN
  OBVIOUS
<1>b. lastImport' \in 0..MaxTime
  BY CheckpointAssumption
<1>c. Contents' /\ Loop' /\ Fingerprints'
  BY DEF Contents, Loop, Fingerprints, Objects, Nothing
<1>2. Contents' /\ Loop' /\ Fingerprints' /\ Surroundings'
  BY <1>a, <1>b, <1>c DEF Surroundings
<1>3. ImportSteps' /\ HomeKept'
  BY DEF ImportSteps, HomeKept, Objects, Stale, Mine
<1>4. HeldOnlyBehindTheEngine' /\ WorkspaceKept' /\ EngineHeld'
  BY DEF HeldOnlyBehindTheEngine, WorkspaceKept, EngineHeld, Objects
<1>5. PutKept'
  BY StepNames DEF PutKept
<1> QED BY <1>1, <1>2, <1>3, <1>4, <1>5

\* Where a restore is awaited the hold goes up, or it is waived.
LEMMA HoldEngineDurable ==
  ASSUME Durable, hold_engine
  PROVE  Durable'
<1> USE DEF Durable, hold_engine, release_engine, Fault, workspace_awaits_restore,
    sandboxVars, bridgeVars, daemonVars
<1>1. Counters'
  BY CheckpointAssumption DEF Counters
<1>a. hold' \in BOOLEAN /\ holding' \in BOOLEAN /\ waived' \in BOOLEAN
  BY DEF Surroundings
<1>2. Contents' /\ Loop' /\ Fingerprints' /\ Surroundings'
  BY <1>a DEF Contents, Loop, Surroundings, Fingerprints
<1>3. ImportSteps' /\ HomeKept'
  BY DEF ImportSteps, HomeKept, Stale, Mine
<1>4. HeldOnlyBehindTheEngine' /\ WorkspaceKept' /\ EngineHeld'
  BY DEF HeldOnlyBehindTheEngine, WorkspaceKept, EngineHeld
<1>5. PutKept'
  BY StepNames DEF PutKept
<1> QED BY <1>1, <1>2, <1>3, <1>4, <1>5

LEMMA BuildCredentialDurable ==
  ASSUME Durable, build_credential
  PROVE  Durable'
<1> USE DEF Durable, build_credential, sandboxVars, bridgeVars, daemonVars
<1>1. Counters'
  BY DEF Counters
<1>2. Contents' /\ Loop' /\ Fingerprints' /\ Surroundings'
  BY DEF Contents, Loop, Surroundings, Fingerprints
<1>3. ImportSteps' /\ HomeKept'
  BY DEF ImportSteps, HomeKept, Stale, Mine
<1>4. HeldOnlyBehindTheEngine' /\ WorkspaceKept' /\ EngineHeld'
  BY DEF HeldOnlyBehindTheEngine, WorkspaceKept, EngineHeld
<1>5. PutKept'
  BY StepNames DEF PutKept
<1> QED BY <1>1, <1>2, <1>3, <1>4, <1>5

\* A hold that is given up with the credential is waived.
LEMMA ReleaseEngineNowDurable ==
  ASSUME Durable, release_engine_now
  PROVE  Durable'
<1> USE DEF Durable, release_engine_now, release_engine, Fault, sandboxVars, bridgeVars,
    daemonVars
<1>1. Counters'
  BY CheckpointAssumption DEF Counters
<1>a. hold' \in BOOLEAN /\ waived' \in BOOLEAN
  BY DEF Surroundings
<1>2. Contents' /\ Loop' /\ Fingerprints' /\ Surroundings'
  BY <1>a DEF Contents, Loop, Surroundings, Fingerprints
<1>3. ImportSteps' /\ HomeKept'
  BY DEF ImportSteps, HomeKept, Stale, Mine
<1>4. HeldOnlyBehindTheEngine' /\ WorkspaceKept' /\ EngineHeld'
  BY DEF HeldOnlyBehindTheEngine, WorkspaceKept, EngineHeld
<1>5. PutKept'
  BY StepNames DEF PutKept
<1> QED BY <1>1, <1>2, <1>3, <1>4, <1>5

\* Work only adds to a directory.
LEMMA WorkDurable ==
  ASSUME Durable, NEW o \in Objects, Work(o)
  PROVE  Durable'
<1> USE DEF Durable, Work, sandboxVars, bridgeVars, daemonVars
<1>1. Counters'
  BY CheckpointAssumption DEF Counters
<1>a. Contents'
  BY DEF Contents, Counters
<1>2. Contents' /\ Loop' /\ Fingerprints' /\ Surroundings'
  BY <1>a DEF Loop, Fingerprints, Surroundings
<1>3. ImportSteps' /\ HomeKept'
  BY DEF ImportSteps, Contents, HomeKept, Objects, Stale, Mine
<1>4. HeldOnlyBehindTheEngine' /\ WorkspaceKept' /\ EngineHeld'
  BY DEF HeldOnlyBehindTheEngine, Contents, WorkspaceKept, EngineHeld, Objects
<1>5. PutKept'
  BY DEF PutKept, Contents
<1> QED BY <1>1, <1>2, <1>3, <1>4, <1>5

\* Whoever posted it, what lands is what is stored.
LEMMA ImportEndsDurable ==
  ASSUME Durable, NEW i \in imports, import_ends(i)
  PROVE  Durable'
<1> USE DEF Durable, import_ends, ImportLands, Fault, sandboxVars, bridgeVars,
    daemonVars
<1>1. Counters'
  BY CheckpointAssumption DEF Counters
<1>a. /\ i.snapshot \in Snapshot /\ i.snapshot.at \in 0..MaxTime
      /\ i.snapshot.units \subseteq 1..work
  BY DEF Contents, Surroundings, Snapshot
<1>e. PICK h \in Overlaid(i.snapshot, i.snapshot.units) : live' = [live EXCEPT !["home"] = h]
  OBVIOUS
<1>f. h \subseteq 1..work /\ i.snapshot.units \subseteq h
  BY <1>a, <1>e DEF Overlaid, Contents, Objects
<1>g. live'["home"] = h /\ live'["workspace"] = live["workspace"]
  BY <1>e DEF Contents, Objects
<1>b. Contents'
  BY <1>e, <1>f DEF Contents
<1>c. Loop' /\ Fingerprints'
  BY DEF Loop, Fingerprints
<1>2. Contents' /\ Loop' /\ Fingerprints' /\ Surroundings'
  BY <1>a, <1>b, <1>c DEF Surroundings
<1>h. ASSUME "home" \notin refused PROVE stored["home"].units \subseteq live'["home"]
  BY <1>f, <1>g, <1>h DEF HomeKept
<1>3. ImportSteps' /\ HomeKept'
  <2>1. ImportSteps'
    <3>1. CASE Mine(i)
      <4>1. pc = "importing" /\ pc' = "workspace"
        BY <3>1 DEF ImportSteps
      <4>2. \A j \in imports : Mine(j) => j = i
        BY <3>1, <4>1 DEF ImportSteps, Mine, Surroundings
      <4> QED BY <4>1, <4>2 DEF ImportSteps, Mine
    <3>2. CASE ~Mine(i)
      BY <3>2 DEF ImportSteps, Mine
    <3> QED BY <3>1, <3>2
  <2>2. HomeKept'
    BY <1>h DEF HomeKept
  <2> QED BY <2>1, <2>2
<1>4. HeldOnlyBehindTheEngine' /\ WorkspaceKept' /\ EngineHeld'
  <2>1. /\ restore'["workspace"] = restore["workspace"]
        /\ pc' = pc \/ (pc = "importing" /\ pc' = "workspace")
    BY DEF Loop, ImportSteps, Objects
  <2> QED BY <1>g, <2>1 DEF HeldOnlyBehindTheEngine, WorkspaceKept, EngineHeld
<1>5. PutKept'
  BY StepNames, <1>e, <1>g DEF PutKept, Contents
<1> QED BY <1>1, <1>2, <1>3, <1>4, <1>5

LEMMA HomeTransientDurable ==
  ASSUME Durable, HomeTransient
  PROVE  Durable'
<1> USE DEF Durable, HomeTransient, Fault, Retries, sandboxVars, bridgeVars,
    daemonVars
<1>1. Counters'
  BY CheckpointAssumption DEF Counters
<1>2. Contents' /\ Loop' /\ Fingerprints' /\ Surroundings'
  BY DEF Contents, Loop, Surroundings, Fingerprints
<1>3. ImportSteps' /\ HomeKept'
  BY DEF ImportSteps, HomeKept, Stale, Mine
<1>4. HeldOnlyBehindTheEngine' /\ WorkspaceKept' /\ EngineHeld'
  BY DEF HeldOnlyBehindTheEngine, WorkspaceKept, EngineHeld
<1>5. PutKept'
  BY StepNames DEF PutKept
<1> QED BY <1>1, <1>2, <1>3, <1>4, <1>5

\* From a refusal on nothing is claimed of the home.
LEMMA HomeRefusedDurable ==
  ASSUME Durable, HomeRefused
  PROVE  Durable'
<1> USE DEF Durable, HomeRefused, Fault, Retries, Settle, sandboxVars, bridgeVars,
    daemonVars
<1>1. Counters'
  BY CheckpointAssumption DEF Counters
<1>2. Contents' /\ Loop' /\ Fingerprints' /\ Surroundings'
  BY DEF Contents, Loop, Surroundings, Fingerprints, Objects
<1>3. ImportSteps' /\ HomeKept'
  BY DEF ImportSteps, HomeKept, Mine
<1>4. HeldOnlyBehindTheEngine' /\ WorkspaceKept' /\ EngineHeld'
  BY DEF HeldOnlyBehindTheEngine, Loop, WorkspaceKept, EngineHeld, Objects
<1>5. PutKept'
  BY StepNames DEF PutKept
<1> QED BY <1>1, <1>2, <1>3, <1>4, <1>5

LEMMA HomeGetDurable ==
  ASSUME Durable, HomeGet
  PROVE  Durable'
<1> USE DEF Durable, HomeGet, Retries, Settle, NothingStored, sandboxVars,
    bridgeVars, daemonVars
<1>1. Counters'
  BY DEF Counters
<1>2. Contents' /\ Loop' /\ Fingerprints' /\ Surroundings'
  BY DEF Contents, Loop, Surroundings, Fingerprints, Objects
<1>3. ImportSteps' /\ HomeKept'
  <2>1. ImportSteps'
    BY DEF ImportSteps, Mine
  <2>2. HomeKept'
    BY DEF HomeKept, Loop, Objects, Nothing, Stale
  <2> QED BY <2>1, <2>2
<1>4. HeldOnlyBehindTheEngine' /\ WorkspaceKept' /\ EngineHeld'
  BY DEF HeldOnlyBehindTheEngine, Loop, WorkspaceKept, EngineHeld, Objects
<1>5. PutKept'
  BY StepNames DEF PutKept
<1> QED BY <1>1, <1>2, <1>3, <1>4, <1>5

LEMMA HomeSettledDurable ==
  ASSUME Durable, HomeSettled
  PROVE  Durable'
<1> USE DEF Durable, HomeSettled, Retries, sandboxVars, bridgeVars, daemonVars
<1>1. Counters'
  BY DEF Counters
<1>2. Contents' /\ Loop' /\ Fingerprints' /\ Surroundings'
  BY DEF Contents, Loop, Surroundings, Fingerprints
<1>3. ImportSteps' /\ HomeKept'
  BY DEF ImportSteps, Loop, HomeKept, Objects, Stale, Mine
<1>4. HeldOnlyBehindTheEngine' /\ WorkspaceKept' /\ EngineHeld'
  BY DEF HeldOnlyBehindTheEngine, WorkspaceKept, EngineHeld
<1>5. PutKept'
  BY StepNames DEF PutKept
<1> QED BY <1>1, <1>2, <1>3, <1>4, <1>5

\* If the bridge finds the object stale, it has landed before; otherwise the
\* import that is admitted has what is stored.
LEMMA HomeImportDurable ==
  ASSUME Durable, HomeImport
  PROVE  Durable'
<1> USE DEF Durable, HomeImport, Settle, Admit, sandboxVars, bridgeVars,
    daemonVars
<1>1. Counters'
  BY DEF Counters
<1>a. got = stored["home"] /\ got \in Snapshot /\ got.units \subseteq 1..work
  BY DEF ImportSteps, Loop, Contents
<1>b. \A j \in imports' : j \in imports \/ j = [life |-> lives, snapshot |-> got]
  OBVIOUS
<1>c. Contents'
  BY <1>a, <1>b DEF Contents
<1>d. Loop' /\ Fingerprints'
  BY DEF Loop, Fingerprints
<1>e. [life |-> lives, snapshot |-> got] \in [life : 0..MaxLives, snapshot : Snapshot]
  BY <1>a DEF Counters
<1>2. Contents' /\ Loop' /\ Fingerprints' /\ Surroundings'
  BY <1>b, <1>c, <1>d, <1>e DEF Surroundings
<1>3. ImportSteps' /\ HomeKept'
  <2>1. CASE Stale(got)
    BY <1>a, <2>1 DEF ImportSteps, HomeKept, Stale, Mine
  <2>2. CASE ~Stale(got)
    <3>1. pc' = "importing"
      BY <2>2
    <3>2. ImportSteps'
      <4>1. lives <= lives /\ lives' = lives
        BY CheckpointAssumption DEF Counters
      <4> QED BY <1>a, <1>b, <3>1, <4>1 DEF ImportSteps, Mine
    <3>3. HomeKept'
      BY <1>a, <1>b, <2>2 DEF HomeKept, Stale
    <3> QED BY <3>2, <3>3
  <2> QED BY <2>1, <2>2
<1>4. HeldOnlyBehindTheEngine' /\ WorkspaceKept' /\ EngineHeld'
  BY DEF HeldOnlyBehindTheEngine, Loop, WorkspaceKept, EngineHeld, Objects
<1>5. PutKept'
  BY StepNames DEF PutKept
<1> QED BY <1>1, <1>2, <1>3, <1>4, <1>5

\* Part of a snapshot lands: what the home had of it stays, so a snapshot that
\* landed whole before is still there.
LEMMA HomeHalfImportedDurable ==
  ASSUME Durable, HomeHalfImported
  PROVE  Durable'
<1> USE DEF Durable, HomeHalfImported, Fault, Settle, AfterHalfImport,
    sandboxVars, bridgeVars, daemonVars
<1>1. Counters'
  BY CheckpointAssumption DEF Counters
<1>a. PICK i \in imports :
        /\ Mine(i) /\ imports' = imports \ {i}
        /\ \E h \in Overlaid(got, got.units \cap live["home"]) : live' = [live EXCEPT !["home"] = h]
  OBVIOUS
<1>b. PICK h \in Overlaid(got, got.units \cap live["home"]) : live' = [live EXCEPT !["home"] = h]
  BY <1>a
<1>c. h \subseteq 1..work /\ got.units \cap live["home"] \subseteq h
  BY <1>b DEF Overlaid, Contents, Objects
<1>d. live'["home"] = h /\ live'["workspace"] = live["workspace"]
  BY <1>b DEF Contents, Objects
<1>2. Contents' /\ Loop' /\ Fingerprints' /\ Surroundings'
  <2>1. Contents'
    BY <1>a, <1>b, <1>c DEF Contents
  <2> QED BY <1>a, <2>1 DEF Loop, Surroundings, Fingerprints, Objects
<1>3. ImportSteps' /\ HomeKept'
  <2>1. \A j \in imports : Mine(j) => j = i
    BY <1>a DEF ImportSteps, Mine, Surroundings
  <2>2. ImportSteps'
    BY <1>a, <2>1 DEF ImportSteps, Mine
  <2>3. restore'["home"] = "pending"
    BY DEF Loop, Objects
  <2>4. HomeKept'
    BY <1>a, <1>c, <1>d, <2>3 DEF HomeKept, ImportSteps, Stale
  <2> QED BY <2>2, <2>4
<1>4. HeldOnlyBehindTheEngine' /\ WorkspaceKept' /\ EngineHeld'
  BY <1>d DEF HeldOnlyBehindTheEngine, Loop, WorkspaceKept, EngineHeld, Objects
<1>5. PutKept'
  BY StepNames DEF PutKept
<1> QED BY <1>1, <1>2, <1>3, <1>4, <1>5

LEMMA WorkspaceTransientDurable ==
  ASSUME Durable, WorkspaceTransient
  PROVE  Durable'
<1> USE DEF Durable, WorkspaceTransient, Fault, Retries, sandboxVars, bridgeVars,
    daemonVars
<1>1. Counters'
  BY CheckpointAssumption DEF Counters
<1>2. Contents' /\ Loop' /\ Fingerprints' /\ Surroundings'
  BY DEF Contents, Loop, Surroundings, Fingerprints
<1>3. ImportSteps' /\ HomeKept'
  BY DEF ImportSteps, HomeKept, Stale, Mine
<1>4. HeldOnlyBehindTheEngine' /\ WorkspaceKept' /\ EngineHeld'
  BY DEF HeldOnlyBehindTheEngine, WorkspaceKept, EngineHeld
<1>5. PutKept'
  BY StepNames DEF PutKept
<1> QED BY <1>1, <1>2, <1>3, <1>4, <1>5

LEMMA WorkspaceRefusedDurable ==
  ASSUME Durable, WorkspaceRefused
  PROVE  Durable'
<1> USE DEF Durable, WorkspaceRefused, Fault, Retries, ConcludeWorkspace, Settle,
    sandboxVars, bridgeVars, daemonVars
<1>1. Counters'
  BY CheckpointAssumption DEF Counters
<1>2. Contents' /\ Loop' /\ Fingerprints' /\ Surroundings'
  BY DEF Contents, Loop, Surroundings, Fingerprints, Objects
<1>3. ImportSteps' /\ HomeKept'
  BY DEF ImportSteps, Loop, HomeKept, Objects, Stale, Mine
<1>4. HeldOnlyBehindTheEngine' /\ WorkspaceKept' /\ EngineHeld'
  BY DEF HeldOnlyBehindTheEngine, Loop, WorkspaceKept, EngineHeld
<1>5. PutKept'
  BY StepNames DEF PutKept
<1> QED BY <1>1, <1>2, <1>3, <1>4, <1>5

LEMMA WorkspaceSettledLocallyDurable ==
  ASSUME Durable, workspace_settled_locally
  PROVE  Durable'
<1>a. touch_marker /\ faults \in 0..MaxFaults
  BY DEF workspace_settled_locally, Durable, Counters
<1>b. faults' = faults \/ (faults < MaxFaults /\ faults' = faults + 1)
  BY <1>a DEF touch_marker, Fault
<1>c. faults' \in 0..MaxFaults
  BY <1>a, <1>b, CheckpointAssumption DEF CheckpointAssumption
<1> USE DEF Durable, workspace_settled_locally, Retries, ConcludeWorkspace,
    touch_marker, Fault, Settle, sandboxVars, bridgeVars, daemonVars
<1>1. Counters'
  BY <1>c DEF Counters
<1>2. Contents' /\ Loop' /\ Fingerprints' /\ Surroundings'
  BY DEF Contents, Loop, Surroundings, Fingerprints, Objects
<1>3. ImportSteps' /\ HomeKept'
  BY DEF ImportSteps, Loop, HomeKept, Objects, Stale, Mine
<1>4. HeldOnlyBehindTheEngine' /\ WorkspaceKept' /\ EngineHeld'
  BY DEF HeldOnlyBehindTheEngine, Loop, WorkspaceKept, EngineHeld
<1>5. PutKept'
  BY StepNames DEF PutKept
<1> QED BY <1>1, <1>2, <1>3, <1>4, <1>5

\* A populated workspace without the marker is one the engine wrote after the
\* bound, or one that has all that is stored.
LEMMA WorkspaceRestoreDurable ==
  ASSUME Durable, workspace_restore
  PROVE  Durable'
<1> USE DEF Durable, workspace_restore, Retries, NothingStored, ConcludeWorkspace, touch_marker, Fault,
    Settle, Populated, sandboxVars, bridgeVars, daemonVars
<1>1. Counters'
  BY CheckpointAssumption DEF Counters
<1>2. Contents' /\ Loop' /\ Fingerprints' /\ Surroundings'
  BY DEF Contents, Loop, Surroundings, Fingerprints, Objects
<1>3. ImportSteps' /\ HomeKept'
  BY DEF ImportSteps, Loop, HomeKept, Objects, Stale, Mine
<1>4. HeldOnlyBehindTheEngine' /\ WorkspaceKept' /\ EngineHeld'
  <2>1. HeldOnlyBehindTheEngine'
    BY DEF HeldOnlyBehindTheEngine, EngineHeld, Loop
  <2>2. EngineHeld'
    BY DEF EngineHeld
  <2>3. WorkspaceKept'
    <3>1. CASE stored["workspace"] = Nothing
      BY <3>1 DEF WorkspaceKept, Nothing
    <3>2. CASE stored["workspace"] # Nothing
      BY <3>2 DEF WorkspaceKept, Loop
    <3> QED BY <3>1, <3>2
  <2> QED BY <2>1, <2>2, <2>3
<1>5. PutKept'
  BY StepNames DEF PutKept
<1> QED BY <1>1, <1>2, <1>3, <1>4, <1>5

\* The same for a workspace that was populated while the object was unpacked.
LEMMA UnpackWorkspaceDurable ==
  ASSUME Durable, unpack_workspace
  PROVE  Durable'
<1> USE DEF Durable, unpack_workspace, Settle, Populated, sandboxVars, bridgeVars,
    daemonVars
<1>1. Counters'
  BY DEF Counters
<1>2. Contents' /\ Loop' /\ Fingerprints' /\ Surroundings'
  BY DEF Contents, Loop, Surroundings, Fingerprints, Objects
<1>3. ImportSteps' /\ HomeKept'
  BY DEF ImportSteps, Contents, Loop, HomeKept, Objects, Stale, Mine
<1>4. HeldOnlyBehindTheEngine' /\ WorkspaceKept' /\ EngineHeld'
  <2>1. CASE live["workspace"] # {}
    <3>1. overrun \/ waived \/ "workspace" \in refused
          \/ stored["workspace"].units \subseteq live["workspace"]
      BY <2>1 DEF EngineHeld, WorkspaceKept
    <3> QED BY <2>1, <3>1 DEF HeldOnlyBehindTheEngine, WorkspaceKept, EngineHeld,
        Loop, Objects
  <2>2. CASE live["workspace"] = {}
    BY <2>2 DEF HeldOnlyBehindTheEngine, WorkspaceKept, EngineHeld, Contents, Objects
  <2> QED BY <2>1, <2>2
<1>5. PutKept'
  BY StepNames DEF PutKept
<1> QED BY <1>1, <1>2, <1>3, <1>4, <1>5

LEMMA WorkspaceRestoredDurable ==
  ASSUME Durable, WorkspaceRestored
  PROVE  Durable'
<1> USE DEF Durable, WorkspaceRestored, ConcludeWorkspace, touch_marker, Fault, Settle, sandboxVars,
    bridgeVars, daemonVars
<1>1. Counters'
  BY CheckpointAssumption DEF Counters
<1>2. Contents' /\ Loop' /\ Fingerprints' /\ Surroundings'
  BY DEF Contents, Loop, Surroundings, Fingerprints, Objects
<1>3. ImportSteps' /\ HomeKept'
  BY DEF ImportSteps, Loop, HomeKept, Objects, Stale, Mine
<1>4. HeldOnlyBehindTheEngine' /\ WorkspaceKept' /\ EngineHeld'
  BY DEF HeldOnlyBehindTheEngine, WorkspaceKept, EngineHeld
<1>5. PutKept'
  BY StepNames DEF PutKept
<1> QED BY <1>1, <1>2, <1>3, <1>4, <1>5

LEMMA WorkspaceSettledDurable ==
  ASSUME Durable, WorkspaceSettled
  PROVE  Durable'
<1> USE DEF Durable, WorkspaceSettled, Retries, sandboxVars, bridgeVars,
    daemonVars
<1>1. Counters'
  BY DEF Counters
<1>2. Contents' /\ Loop' /\ Fingerprints' /\ Surroundings'
  BY DEF Contents, Loop, Surroundings, Fingerprints
<1>3. ImportSteps' /\ HomeKept'
  BY DEF ImportSteps, HomeKept, Stale, Mine
<1>4. HeldOnlyBehindTheEngine' /\ WorkspaceKept' /\ EngineHeld'
  BY DEF HeldOnlyBehindTheEngine, WorkspaceKept, EngineHeld
<1>5. PutKept'
  BY StepNames DEF PutKept
<1> QED BY <1>1, <1>2, <1>3, <1>4, <1>5

\* The hold is lifted only when the restore is settled or the bound has passed.
LEMMA RunLoopDurable ==
  ASSUME Durable, run_loop
  PROVE  Durable'
<1> USE DEF Durable, run_loop, engine_stays_held, Retries, sandboxVars,
    bridgeVars, daemonVars
<1>1. Counters'
  BY CheckpointAssumption DEF Counters, release_engine, Fault
<1>a. hold' \in BOOLEAN /\ holding' \in BOOLEAN
  BY DEF release_engine, Surroundings
<1>b. Loop'
  BY StepNames DEF Loop, Objects
<1>2. Contents' /\ Loop' /\ Fingerprints' /\ Surroundings'
  BY <1>a, <1>b DEF Contents, Fingerprints, Surroundings
<1>3. ImportSteps' /\ HomeKept'
  BY StepNames DEF ImportSteps, HomeKept, Objects, Stale, Mine
<1>4. HeldOnlyBehindTheEngine' /\ WorkspaceKept' /\ EngineHeld'
  BY StepNames DEF HeldOnlyBehindTheEngine, Loop, WorkspaceKept, EngineHeld, Objects
<1>5. PutKept'
  BY StepNames DEF PutKept, Objects
<1> QED BY <1>1, <1>2, <1>3, <1>4, <1>5

LEMMA SaveSkippedDurable ==
  ASSUME Durable, NEW o \in Objects, SaveSkipped(o)
  PROVE  Durable'
<1> USE DEF Durable, SaveSkipped, Saves, Changed, Fault, sandboxVars, bridgeVars,
    daemonVars
<1>1. Counters'
  BY CheckpointAssumption DEF Counters
<1>2. Contents' /\ Loop' /\ Fingerprints' /\ Surroundings'
  BY StepNames DEF Contents, Loop, Surroundings, Fingerprints
<1>3. ImportSteps' /\ HomeKept'
  BY StepNames DEF ImportSteps, HomeKept, Stale, Mine
<1>4. HeldOnlyBehindTheEngine' /\ WorkspaceKept' /\ EngineHeld'
  BY StepNames DEF HeldOnlyBehindTheEngine, WorkspaceKept, EngineHeld
<1>5. PutKept'
  BY StepNames DEF PutKept
<1> QED BY <1>1, <1>2, <1>3, <1>4, <1>5

\* What is exported after the conclusion has all that the object has.
LEMMA ExportDurable ==
  ASSUME Durable, NEW o \in Objects, Export(o)
  PROVE  Durable'
<1> USE DEF Durable, Export, Saves, FirstTickDelay, sandboxVars, bridgeVars, daemonVars
<1>1. Counters'
  BY DEF Counters
<1>a. /\ got' \in Snapshot /\ got'.units = live[o] /\ got' # Nothing
      /\ live[o] \subseteq 1..work
  BY CheckpointAssumption DEF Snapshot, Nothing, Units, Counters, Contents
<1>b. Contents'
  BY <1>a DEF Contents
<1>c. Loop'
  BY <1>a, StepNames DEF Loop
<1>2. Contents' /\ Loop' /\ Fingerprints' /\ Surroundings'
  BY <1>b, <1>c DEF Fingerprints, Surroundings
<1>3. ImportSteps' /\ HomeKept'
  BY StepNames DEF ImportSteps, HomeKept, Stale, Mine
<1>4. HeldOnlyBehindTheEngine' /\ WorkspaceKept' /\ EngineHeld'
  BY StepNames DEF HeldOnlyBehindTheEngine, WorkspaceKept, EngineHeld
<1>d. o \notin refused => stored[o].units \subseteq live[o]
  BY DEF HomeKept, WorkspaceKept, Objects
<1>5. PutKept'
  BY <1>a, <1>d, StepNames DEF PutKept
<1> QED BY <1>1, <1>2, <1>3, <1>4, <1>5

\* The export replaces an object that it contains.
LEMMA MemoryPutDurable ==
  ASSUME Durable, NEW o \in Objects, memory_put(o)
  PROVE  Durable'
<1> USE DEF Durable, memory_put, sandboxVars, bridgeVars, daemonVars
<1>1. Counters'
  BY DEF Counters
<1>2. Contents' /\ Loop' /\ Fingerprints' /\ Surroundings'
  BY StepNames DEF Contents, Loop, Surroundings, PutKept, Fingerprints, Snapshot
<1>3. ImportSteps' /\ HomeKept'
  BY StepNames DEF ImportSteps, Contents, HomeKept, PutKept, Objects, Stale, Mine
<1>4. HeldOnlyBehindTheEngine' /\ WorkspaceKept' /\ EngineHeld'
  BY StepNames DEF HeldOnlyBehindTheEngine, Contents, WorkspaceKept, EngineHeld,
      PutKept, Objects
<1>5. PutKept'
  BY StepNames DEF PutKept
<1> QED BY <1>1, <1>2, <1>3, <1>4, <1>5

\* A put that failed has left the old object or the new one.
LEMMA PutFailsDurable ==
  ASSUME Durable, NEW o \in Objects, PutFails(o)
  PROVE  Durable'
<1> USE DEF Durable, PutFails, Fault, FingerprintAfterFailure, sandboxVars,
    bridgeVars, daemonVars
<1>1. Counters'
  BY CheckpointAssumption DEF Counters
<1>a. got \in Snapshot
  BY DEF PutKept, Loop
<1>b. Contents'
  BY <1>a DEF Contents
<1>c. Loop'
  BY StepNames DEF Loop
<1>2. Contents' /\ Loop' /\ Fingerprints' /\ Surroundings'
  BY <1>b, <1>c DEF Fingerprints, Surroundings
<1>3. ImportSteps' /\ HomeKept'
  BY StepNames DEF ImportSteps, Contents, HomeKept, PutKept, Objects, Stale, Mine
<1>4. HeldOnlyBehindTheEngine' /\ WorkspaceKept' /\ EngineHeld'
  BY StepNames DEF HeldOnlyBehindTheEngine, Contents, WorkspaceKept, EngineHeld,
      PutKept, Objects
<1>5. PutKept'
  BY StepNames DEF PutKept
<1> QED BY <1>1, <1>2, <1>3, <1>4, <1>5

LEMMA DurableNext == Durable /\ [CheckpointNext]_checkpointVars => Durable'
<1> SUFFICES ASSUME Durable, [CheckpointNext]_checkpointVars PROVE Durable'
  OBVIOUS
<1>1. CASE UNCHANGED checkpointVars
  <2> USE <1>1 DEF Durable, checkpointVars, daemonVars, sandboxVars, bridgeVars
  <2>1. Counters' /\ Contents' /\ Loop' /\ Fingerprints' /\ Surroundings'
    <3>1. Counters' /\ Contents'
      BY DEF Counters, Contents
    <3>2. Loop' /\ Fingerprints'
      BY DEF Loop, Fingerprints
    <3>3. Surroundings'
      BY DEF Surroundings
    <3> QED BY <3>1, <3>2, <3>3
  <2>2. ImportSteps' /\ HomeKept'
    BY DEF ImportSteps, HomeKept, Stale, Mine
  <2>3. HeldOnlyBehindTheEngine' /\ WorkspaceKept' /\ EngineHeld' /\ PutKept'
    BY DEF HeldOnlyBehindTheEngine, WorkspaceKept, EngineHeld, PutKept
  <2> QED BY <2>1, <2>2, <2>3
<1>2. CASE Tick \/ EngineStarts \/ HoldOverruns \/ DaemonRestart \/ Respawn
  BY <1>2, TickDurable, EngineStartsDurable, HoldOverrunsDurable,
      DaemonRestartDurable, RespawnDurable
<1>8. CASE hold_engine \/ build_credential \/ release_engine_now
  BY <1>8, HoldEngineDurable, BuildCredentialDurable, ReleaseEngineNowDurable
<1>3. CASE \E o \in Objects : Work(o)
  BY <1>3, WorkDurable
<1>4. CASE \E i \in imports : import_ends(i)
  BY <1>4, ImportEndsDurable
<1>5. CASE \/ HomeTransient \/ HomeRefused \/ HomeGet \/ HomeSettled
           \/ HomeImport \/ HomeHalfImported
  BY <1>5, HomeTransientDurable, HomeRefusedDurable, HomeGetDurable,
      HomeSettledDurable, HomeImportDurable, HomeHalfImportedDurable
<1>6. CASE \/ WorkspaceTransient \/ WorkspaceRefused
           \/ workspace_settled_locally \/ workspace_restore
           \/ unpack_workspace \/ WorkspaceRestored \/ WorkspaceSettled \/ run_loop
  BY <1>6, WorkspaceTransientDurable, WorkspaceRefusedDurable,
      WorkspaceSettledLocallyDurable, WorkspaceRestoreDurable, UnpackWorkspaceDurable,
      WorkspaceRestoredDurable, WorkspaceSettledDurable, RunLoopDurable
<1>7. CASE \E o \in Objects : SaveSkipped(o) \/ Export(o) \/ memory_put(o) \/ PutFails(o)
  BY <1>7, SaveSkippedDurable, ExportDurable, MemoryPutDurable, PutFailsDurable
<1> QED BY <1>1, <1>2, <1>3, <1>4, <1>5, <1>6, <1>7, <1>8 DEF CheckpointNext, Daemon

LEMMA DurableAlways == CheckpointSpec => []Durable
<1>1. CheckpointInit => Durable
  BY DurableInit
<1>2. Durable /\ [CheckpointNext]_checkpointVars => Durable'
  BY DurableNext
<1> QED BY <1>1, <1>2, PTL DEF CheckpointSpec

(***************************************************************************)
(* The types, and a workspace held back only behind an engine that the     *)
(* hold could not keep waiting (checkpoint.rs:434 and 879), for every      *)
(* number of failed calls, restarts and respawns, and holds that come      *)
(* late, are not declared or are given up early.                           *)
(***************************************************************************)
THEOREM HoldSuffices == CheckpointSpec => []CheckpointInv
<1>1. Durable => CheckpointInv
  BY DurableTypes
<1> QED BY <1>1, DurableAlways, PTL

\* Only a put changes an object, and what it puts has all that the object had.
LEMMA DropStep ==
  ASSUME Durable, [CheckpointNext]_checkpointVars
  PROVE  \A o \in Objects : stored[o].units \subseteq stored'[o].units \/ o \in refused
<1> SUFFICES ASSUME stored' # stored
             PROVE  \A o \in Objects : stored[o].units \subseteq stored'[o].units \/ o \in refused
  OBVIOUS
<1>1. PICK b \in Objects : memory_put(b) \/ PutFails(b)
  BY DEF CheckpointNext, Daemon, checkpointVars, Tick, EngineStarts, HoldOverruns,
      DaemonRestart, Respawn, hold_engine, build_credential, release_engine_now,
      Work, import_ends, HomeTransient, HomeRefused, HomeGet,
      HomeSettled, HomeImport, HomeHalfImported, WorkspaceTransient, WorkspaceRefused,
      workspace_settled_locally, workspace_restore, unpack_workspace,
      WorkspaceRestored, WorkspaceSettled, run_loop, SaveSkipped, Export
<1>2. stored' = [stored EXCEPT ![b] = got] /\ pc = PutStep[b]
  BY <1>1 DEF memory_put, PutFails
<1>3. b \notin refused => stored[b].units \subseteq got.units
  BY <1>2 DEF Durable, PutKept
<1> QED BY <1>2, <1>3 DEF Durable, Contents

(***************************************************************************)
(* A save never drops work that only the stored object still had, unless   *)
(* this sandbox was definitively refused its restore (checkpoint.rs:256).  *)
(***************************************************************************)
THEOREM NothingIsDropped == CheckpointSpec => StoredIsNeverDropped
<1>1. Durable /\ [CheckpointNext]_checkpointVars =>
        [\A o \in Objects :
           \/ stored[o].units \subseteq stored'[o].units
           \/ o \in refused]_checkpointVars
  BY DropStep
<1> QED BY <1>1, DurableAlways, PTL DEF CheckpointSpec, StoredIsNeverDropped
=============================================================================
