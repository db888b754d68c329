# Agent Terrier: a verification project

This directory models the parts of Agent Terrier (the `agentkeys-*` crates and
contracts) whose state machines are hard to test, checks the models with TLC on
small instances, and proves the safety properties of all of them with TLAPS for
every value of the constants. File names below are relative to the repository.

## The system and its parts

An *operator* (a person) owns *devices* and *delegates* (agents). Authority
lives on chain. The broker, the workers and the sandboxes read it and act on it.
`PROJECT.json` lists every component, also the ones that are not modelled.

| part | state it keeps | operations | what makes it correct |
|---|---|---|---|
| `SidecarRegistry.sol` | device rows, per-operator list, master account, recovery threshold, operator nonce, slot quota | register master / device / delegate, revoke, set threshold, reset, quota | counters and lists agree with the rows; a quorum is always possible; an assertion works once; a revoked key stays out |
| `P256Account.sol` | signers with a generation, guardians, threshold, recovery nonce | EntryPoint operations that administer the account, `recover` | the account is never locked out; recovery needs M distinct passkeys and evicts everybody else |
| `AgentKeysScope.sol`, `K3EpochCounter.sol`; capability mint, workers, object store | grants, key epoch, objects | set / revoke, advance, mint, verify, read / write | a capability is honoured only while the chain grants it |
| broker: pairing | `pairing_requests` table | request, claim, poll, ack, decline, purge | one token per request, one owner per claim |
| broker: delegation | `agent_delegations` table | request, sign, poll | one co-signature per request, no use after expiry |
| broker: login | nonces, magic links, OAuth states | issue, consume, verify, fail | one session per credential, an outcome once polled stands |
| broker: spawn, sweeper, wake, update, revoke; `agentkeys-runtime` | `spawn_contexts` table, locks, leases, containers | create, rotate, kill | one engine call at a time, relaunch happens, no revival of a revoked delegate |
| channel worker, wake, chat loop | event feed, waiters, cursors | publish, long poll, wake, boot | no event is slept over or skipped |
| `agentkeys-gate` | live keys and their file, meter | provision, disable, relay a turn | a revoked secret stays dead, overspend is bounded, tokens are accounted for |
| daemon checkpoint and bridge | home and workspace, their stored snapshots, restore states | restore, hold the engine, save, import | a save never drops what only the store had; work becomes durable |
| paymaster, bundler, audit worker, weixin gateway, console, CLI, front ends | queues, sessions | | not modelled |

How they interact:

- The master's client calls the registry *through* the master account: the
  EntryPoint validates a passkey assertion (`validateUserOp`), then executes the
  call, so `msg.sender` at the registry is the account.
- The broker never writes authority into its tables. It reads the chain before
  it acts, and its tables carry the rendezvous between an agent and its master.
- An agent and its master never talk to each other. They meet in
  `pairing_requests`; a sandbox and its device meet in `agent_delegations`.
- The mint, the worker and the object store each read the chain again.
- Publishing to a channel stores an event, signals the long polls of the feed
  and wakes a hibernating sandbox, which then reads the feed from its start.
- The broker provisions a gate key per delegate and disables it at teardown.

What is hard about it:

- Passkey assertions are byte strings that relayers may keep and submit again.
- Operations of a bundle are all validated before the first one executes.
- Handlers read the clock or the chain, then await; others run in between.
- A process may die between recording a step and acting on it, or between a
  rename and its marker, and a new version may start on an old table.
- Engine calls outlive the request that made them.
- Several loops (sweeper, pollers, checkpoint) must make progress by themselves.

`PROJECT.json` lists these as hazards, each at its line, with the properties
that would notice when they go wrong.

## Modules

| module | models | kind |
|---|---|---|
| `SidecarRegistry` | `agentkeys-chain/src/SidecarRegistry.sol` | specification, proved |
| `Pairing` | broker `storage/pairing_requests.rs`, `handlers/agent/{request,claim,poll,pending,decline}.rs` | specification, proved |
| `P256Account` | `agentkeys-chain/src/P256Account.sol` | specification, proved |
| `Sandbox` | broker `lease_sweeper.rs`, `handlers/{sandbox,wake,update,rebind,accept_receipt,anchor}.rs`, `resolve.rs`, `poll.rs`, `spawn.rs`; `agentkeys-runtime` | specification with fairness, proved |
| `Login` | broker login stores and the challenge, verify and callback handlers | specification, proved |
| `OneShot` | what a login credential promises | abstract specification, refined by `Login` |
| `Feed` | `agentkeys-worker-channel`, broker `wake.rs`, daemon `chat_loop.rs` | specification with fairness, proved |
| `RelayKeys` | `agentkeys-gate` key store and its file | specification, proved |
| `Relay` | turns through the gate, EXTENDS `RelayKeys` | composition, proved |
| `Delegation` | broker `agent_delegations.rs`, `delegation.rs` | specification, proved |
| `Capability` | scope and epoch contracts, part of the registry, mint, worker and store verification | composition, proved |
| `Checkpoint` | daemon `checkpoint.rs`, bridge `bridge-mgmt.ts` | specification with fairness, proved |
| `MC*` | instances for TLC: symmetry and value sets | model |
| `*Proofs` | the theorems about the proved modules; `SandboxProofs` also holds those about `Checkpoint`, and `AccessProofs` those about `Delegation`, `RelayKeys` and `Relay` | proofs |

A definition whose comment begins "Mutant of" is a plausible bug of the
definition after it. It is no part of the specification. The entries under
`mutants` in `PROJECT.json` say which property it must break.

### SidecarRegistry

One action per external function. A transaction is atomic and a revert changes
nothing, so a call that would revert is a disabled action. The mappings of the
contract are functions; an absent row is `NoEntry`. A role bitfield is a set of
role names. Timestamps, events, attestation bytes and the public keys themselves
are left out: a device stands for its key.

K11 assertions are records of who signed what with which counter.
`SignChallenge` makes one from the current chain state, as the owner's client
does. It stays in `signed` until `ForgetAssertion`, and until then it may be
submitted to any function at any time. Authenticators in `CountingKeys`
increment their signature counter; the others always report zero, as synced
passkeys do. `accepted` and `replayed` are history variables: the held
assertions accepted since the operator's last reset, and the ones accepted a
second time. `RemainingAfter` is -1 where the contract's checked subtraction
reverts; both mean that the revocation fails.

### Pairing

A handler has two halves. The first checks signatures, draws random ids and reads
the clock (`pairing_request`, `pairing_claim`, `pairing_poll`, `ack_binding`);
the second is a store method under the mutex (`issue`, `claim`, `poll`,
`mark_bound`). Between them the call is a record of `inflight` that carries the
time it read. A record stands for any number of identical calls, so a retried
call may still be there after the store has answered; `issue` alone always
leaves, because its ids are fresh. `decline` reads no clock and is one step.
`purge_expired` has no caller outside the tests; the model lets it run at any
time, which is what a janitor would do.

A poll that wins the retrieval sets `minted_at` under the mutex and mints the
token after releasing it (`minting`, `mint_agent_session_jwt`). `Crash` drops
`inflight` and `minting` and keeps the table. `open` runs `init_schema`, which
upgrades a table of an older broker in one SQLite transaction; `Init` includes
such tables, with an open or a claimed row. The sandbox that a successful poll
may start for a delegate never touches the table; it is a flow of `Sandbox`.

### P256Account

`validateUserOp` appends an operation authorised by a signer that is live at
that moment; `execute` takes the next operation of the bundle, which reverts
(`Reverts`) or takes effect. In between, the signer that authorised it may be
gone. `recover` is permissionless and may land anywhere, in the middle of a
bundle too. A key stands for a passkey; the same passkey may be enrolled under
several credential ids, for signers and for guardians. Guardian assertions are
kept and replayed like K11 assertions. `evicted` is the history of keys that a
recovery removed and nobody enrolled again.

### Sandbox

Nine flows act on the container of a device: the sweeper, a wake, an update, a
resolve, a pairing poll, the receipts of a spawn and of a revocation, a rebind
and a rehydrate. Each is a process with a program counter that moves from one
await to the next: probe the chain, list the live containers, take the device's
lock, create, start, kill. The pairing poll alone begins without a probe.
`proc[p].env` (the environment of a create is complete) and its like are what the
flow read before its last await. The table survives a crash; locks, leases and
create claims do not, and a container whose managed lease is lost is `Orphaned`
until it exits.

Every awaited call may fail, and each flow fails as its code does: a wake takes a
failed listing for an empty one (`LiveNone`), a spawn that could not write its
row or provision its gate key goes on and is refused at the create
(`finalize_spawn`, `provision_delegate_envs`, `Complete`), a teardown goes on
after a failed step and logs a failed kill (`CleanupFails`, `KillFails`). The
receipts die with their caller at the gate and in the kill (`HangUp`); the
ensures and an update's replacement run on tasks of their own.

A reset of the operator, after which a revoked key may be registered again, is
the business of `SidecarRegistry`. Here a revocation is for good.

### Login and OneShot

Four kinds of credential share one life: a challenge issues it, a handler enters
with the time it read, `consume` takes it in one conditional UPDATE, the proof
is checked, the session is minted, and for the kinds that a CLI polls the status
row is staged. Each step may fail: `ProofFails` stages the failure of an OAuth
callback, `NothingStaged` and `FinishFails` are the ends that stage nothing, by a
500 or because the caller went away and the handler with it. `OneShot` says what that must amount to: a credential is open,
taken by one owner, and then granted once or dropped. `Login` maps its tables
and handlers to that state (`standing`) and `OneShotCredentials` states the
refinement.

### Feed

An event id is the worker's clock and a counter. A publish takes its id, puts the
event with put-if-absent, awaits the audit receipt, and signals; a publisher whose
caller goes away at that await is dropped with its event stored and nobody told
(`PublisherDropped`). `unsignalled` remembers such events for the poll that waits. A poll registers its waiter, lists,
waits, and lists again. The sandbox may be started with a replay window by a
wake, or without one; its poller begins with an empty cursor, reads the tail
once, and then page by page. `handed`, `twice` and `skipped` are histories.

### RelayKeys and Relay

A change of the key registry holds its lock through the write of the file, so it
is one step that may commit, fail (before or after the rename, with the latch
set) or die. `view` is what the broker was told, `revoked` the secrets an
answered call has killed. `Placed` is the list that `retain_mut` leaves, stated by
the positions it keeps (`Nth`). `Relay` extends it with turns: authenticate, the two
budget gates, the upstream, the meter, the audit append, the answer, and a
caller that may hang up anywhere. The seven kinds of turn differ by what
`Handlers` says of them. `HasAuditor` and `RequireAudit` are the configuration; without an
auditor the audit step is skipped. The run has one, the theorems hold either way.
`lost` counts the tokens of bodies that were not read to their end and nothing
else; `due` and `answered` follow the recorded tokens of an answer that is still
to be given or was given. The upstream standing that `/readyz` reports is left
out.

### Delegation

Every store call is one step; the sign handler is two, a read and a conditional
update with the time it read at its start.

### Capability

One operator, its owner and delegates. The chain moves between any two of the
reads that a mint, a worker and the store make. `missing` records, for each call
on its way, which of its three conditions has never held since it began. Left out
of the mint are the role `ROLE_CAP_MINT` (every device has it here) and a client
clock that runs up to 60 seconds ahead; `MinTtl` and `Ttl` are the two ends of
the clamp.

### Checkpoint

What an object holds is the set of units of work that went into it, so that
"restored", "rolled back" and "overwritten" are inclusions of sets. The daemon's
loop is a sequence of steps between awaits; the bridge admits an import, and the
bytes land later, written over what the home then has (`Overlaid`). A daemon
restart keeps the sandbox's files, a respawn loses them. An import carries the
life that asked for it, so that one left behind by a dead daemon lands without
anybody waiting for it.

A daemon begins at its engine hold (`hold_engine`), which may be declared, come
after the engine's own wait, or not be declared at all (a bound of zero, a file
that cannot be written); then it builds its credential or gives the hold up and
never starts its loop (`release_engine_now`, `pc = "off"`). `waived` is the
history of a sandbox whose hold was late, missing or given up, `HoldOverruns` the
bound on the hold passing, in the daemon and in the start script at once. The
restore marker may fail to be written, and the hold file to be removed, each as
one of the `MaxFaults` failures.

`TooLarge` is the cap of a save: it refuses the same content at every tick, and
is no transient fault. Two things are assumed of time. `FirstTickDelay`: the
home is not exported while an import is being written; the first save waits at
least the retry interval of a held engine, and the bridge waits at most eight
seconds for the agent's log to go quiet. And an import is over when the request of a
living daemon for it times out.

## Runs

| run | instance | checks |
|---|---|---|
| `registry` | 1 operator, 3 devices, nonce up to 3, 2 assertions held | `SlotsMatchDelegates`, `ListsMatchRows`, `QuorumSatisfiable`, `AcceptedAtMostOnce`, `NeverStranded`, `RevokedStaysRevoked` |
| `account` | 2 credential ids, 2 guardians, 2 keys, bundles of 2, 2 recoveries | `EvictedStayOut`, `SignersCounted`, `GuardiansCounted`, `RecoveryAtMostOnce`, `RecoveryNeedsQuorum` |
| `store` | 1 device, 2 masters, 2 requests, 2 calls in flight, 2 ticks | `OneMintPerRequest`, `LegacyNeverMints`, `OneOpenRequestPerDevice`, `ClaimIsFinal`, `NoRetrievalAfterDecline` |
| `races` | 1 scheduled device, sweeper and 2 requests, 1 crash | `SandboxInv`, `TeardownLeavesNothing`, `GoneStaysGone`, deadlock |
| `relaunch` | 1 always-on device, sweeper and 1 request, 1 crash | `AlwaysOnRelaunched` (liveness) |
| `teardown` | 1 always-on device, 2 requests, no crash | `RevokedBlocksRespawn`: violated |
| `login` | one credential of each kind, 2 handlers, 1 tick, 1 crash | `TypeOK`, `OneShotCredentials` (refinement), `OutcomeIsFinal` |
| `feed` | 2 publishers, 3 events, pages of 1, 1 worker crash, 2 boots | `FeedInv`, `NoLostWakeup`, `MissedOnlyIfOvertaken`, `CatchesUp` (liveness) |
| `gate` | 1 key id, 2 turns at once of 3 in all, 3 secrets, 1 crash | `RevokedStaysRevoked`, `KeysInv`, `OverspendBounded`, `RelayInv` |
| `cosign` | 2 devices, 2 sandboxes, 3 requests, 2 sign handlers, 2 ticks | `DelegationInv`, `SignedIsFinal` |
| `use` | owner and 1 delegate, 4 operations, 2 epochs, 2 masters, 2 ticks | `CapabilityInv`, `AuthorityDuringOperation` |
| `durable` | 2 units of work, a cap of 1, 1 failure, 2 restarts or respawns, times 1 and 2 | `CheckpointInv`, `StoredIsNeverDropped`, `RestoresSettle`, `HomeBecomesDurable` (liveness) |

A property named `...Inv` is a conjunction of the module's `TypeOK` with named
parts that are stated, each with its comment, above it. The type invariants of
`SidecarRegistry`, `Pairing` and `P256Account` are theorems (`TypeCorrect`) and are not repeated in
the runs. Runs with `CHECK_DEADLOCK FALSE` are of systems in which nobody is
obliged to call, and whose bounds end a behaviour; in `durable` a daemon
without a credential stops. The runs of `Sandbox` check deadlock.

What they show, and why the bounds suffice:

- **registry**. Three masters are the least for which a threshold of two can be
  set, met and then endangered by a revocation; the same three keys as delegates
  fill a quota and free it. Two held assertions over three nonces include a
  quorum of two and an assertion kept over later mutations. With one operator,
  rows of two operators never meet in this run: `ListsCorrect` and
  `SlotsCorrect` prove that case.
- **account**. Two credential ids and bundles of two are the least in which two
  valid operations remove each other's signer; two guardians with two keys
  include one passkey under two ids. One assertion is held at a time, so a
  recovery by two guardians does not succeed in this run; `RecoveryQuorum` and
  `RecoverySingleUse` are proved for any number.
- **store**. Two requests and two masters are the least for a superseded request
  and a contested claim. A time to live of one and two ticks put both sides of
  each comparison within reach.
- **races**. Every pair of the flows, with the sweeper, on one device: flows of
  different devices share no lock, row or container. `GoneStaysGone` is about row
  and container: a pairing poll may still provision a gate key for a revoked
  device before its create is refused for want of an identity.
- **relaunch**. Each exit, kill, failed engine call and crash is followed by a
  running container, as long as the binding and its row stand.
- **login**. One credential of each kind: credentials do not interact. Two
  handlers make the race for one of them. A provider error may fail a row under
  the callback that owns it; that callback then stages nothing.
- **feed**. Three events and two publishers are the least for ids stored out of
  order around a page boundary while the poller waits. An event whose publisher
  was dropped before the signal waits for the end of the long poll:
  `NoLostWakeup` excepts exactly those, `CatchesUp` shows that they arrive.
- **gate**. Two turns at once reach the overspend; three secrets include a boot
  file with two rows of one id and a rotation. Rows of two ids never meet in this
  run: `RegistryHolds` and `RevocationStands` prove that case.
- **cosign**. Three requests of two devices include a replaced request whose
  signature is on its way.
- **use**. The waiting step of a long poll lets one use make two storage calls
  with a revocation, an epoch or a reset between them.
- **durable**. Two units tell "restored" from "continued", and with a cap of one
  unit a home both fits and outgrows it. One failure at any call or file
  operation, with a restart and a respawn, reaches every restore state in every
  life and an import of a dead daemon beside one of its successor. Failures end,
  so under fairness every pending restore settles and the home becomes durable.

### Findings

One run ends in a violation, of a sentence of the code.

**teardown**. `sandbox.rs:659` logs, after a kill that failed, "unpair teardown
failed; revoked binding blocks authorization and respawn". In the run a pairing
poll has read the spawn context (`sandbox.rs:371`) while the binding is live. The
device is revoked; its receipt finds it revoked, deletes the row, disables the
gate key, takes the lock and fails to kill. Then the poll takes the lock,
provisions a gate key anew and creates the container. Between the reading of the
row and the engine call nothing looks at the chain again. The window is open to
every flow that has read chain and row, also when the kill succeeded; a rehydrate in it
writes the deleted row back (`anchor.rs:481`). `GoneStaysGone` states the part
that holds: once such flows have ended and row and container are gone, no
replayed receipt, sweep, poll or rehydrate brings either back. What protects the
unprobed poll is the check of the create's environment (`environment_values`),
which is incomplete without the row.

### Divergences seen while modelling

These were met while translating and are described here without a run of their
own; each names what the code does and the line that says otherwise.

- `SidecarRegistry.sol:161`: `resetMaster` takes the operator nonce back to
  zero, so an assertion accepted before a reset fits again after the same key is
  registered again; `K11Verifier.sol:32-35` calls the nonce monotonic.
  `AcceptedAtMostOnce` is therefore stated between two resets.
- `AgentKeysScope.sol:68`: grants outlive `resetMaster`, after which
  `SidecarRegistry.sol:141` says the operator "re-onboards from scratch".
- `P256Account.sol:263`: the threshold is clamped to a count of credential ids
  to "keep the quorum satisfiable", while `recover` counts distinct keys.
- `pairing_requests.rs:542`: `bound_at` follows the ack, not the registration,
  so a decline in between removes the row of a device that is bound on chain;
  the comment at 535 excludes that.
- `agent_delegations.rs:188`: signed rows are never purged; lines 26-27 say the
  table stays bounded.
- `delegation.rs:240`: the expiry the device signs is not compared with the one
  day that lines 31-33 promise.
- `cap.rs:657`: the test that only the master mints a credentials STORE
  capability compares the actor with the session, which a delegate's own session
  passes; the store refuses the write (`VaultWrittenByOwnerOnly`).
- `wake.rs:243`: "the sweeper / next event retries" a failed create; the sweeper
  does not relaunch an app that hibernates.
- `wake.rs:190`: a wake is declined because a sandbox runs; one that stops before
  its next poll boots without the window and passes over the event.
- `chat_loop.rs:1019`: a poller re-bound in a sandbox created by a wake replays
  the wake window again; line 1039 says a restart never replay-answers.
- `email_tokens.rs:236`: `mark_failed` has no caller, so a link spent without a
  session leaves its request pending.
- `oauth2_callback.rs:120-141`: a token that cannot be minted or staged answers
  500 and leaves the consumed row pending, the error of `mark_failed` is dropped
  (104), and a caller that goes away drops the handler; `oauth2/mod.rs:486` says
  of these failures that they "should be surfaced to the CLI poll via
  mark_failed". The client polls until its lifetime ends.
- `oauth2_callback.rs:73`: a provider error marks the row of any state it
  carries; `oauth2/mod.rs:311-320` says only rows the callback owns.
- `relay.rs:1179`, 362 and 376: without an `audit_url` the audit append is
  skipped and every turn answered, `require_audit` or not (`config.rs:58-61`
  accepts the combination, `main.rs:36` only warns); line 358 says "under
  require_audit an unrecordable call fails".
- `relay.rs:1141`: a refusal is noted after the audit append, so it may overwrite
  the note of a later success; line 15 says "until the next upstream 2xx" (the
  note is not modelled).
- `bridge-mgmt.ts:167`: the newer-wins guard compares before a wait and records
  after it; two imports at once may land in the older order.
- `checkpoint.rs:883`: a daemon that dies between the swap of a restored
  workspace and its marker leaves a workspace the next daemon holds as the
  engine's; lines 482-485 give another reason for holding.

## Fairness

- `Sandbox`: the sweeper loops for ever (`lease_sweeper.rs`) and handlers run
  until they await, so weak fairness of their steps. The lock is a FIFO mutex
  and a call that is retried for ever is assumed to succeed in the end: strong
  fairness of the steps at the probe, the listing, the lock and the engine
  calls. A container without a controller reads end of file and exits.
- `Feed`: the poller loops; a listing or an answer that is retried for ever gets
  through (strong fairness); the wait has a timeout.
- `Checkpoint`: a daemon that has its credential loops for ever and the bridge
  finishes what it admitted (weak fairness); calls fail finitely often, by the
  bound `MaxFaults`. A home past the cap is not among the failures: it never
  becomes durable, and `HomeBecomesDurable` excepts it.

The other modules claim safety only and assume no fairness: a contract acts when
called, and a request handler may never come or may die with its caller.

## Theorems

Each proof module EXTENDS its specification and shows an inductive invariant,
with one step per action.

- **SidecarRegistryProofs.** `TypeCorrect`, `ListsCorrect`, `SlotsCorrect`,
  `RevocationPermanent`, `SingleUse`, `QuorumCanBeMet` and `LastMasterStays`.
  The slot counter cannot be shown inductive alone: that a revocation finds a
  positive counter needs the count itself, and that a reset brings the count to zero needs every row of the
  operator to be in its list. So the lists come first and the counter is proved
  with them. `SingleUse` rests on the fact that an accepted assertion carries a
  nonce below the operator's current one; a reset clears both sides. The last
  two are about the recovery quorum. The contract counts positions of the
  operator's list that hold a live recovery master. A registration appends a
  position and a revocation takes exactly one away, so the guard of the
  revocation, which compares the count less one with the threshold, decides what
  the count is afterwards. That a position is not counted twice needs
  `ListsMatchRows`.
- **PairingProofs.** `TypeCorrect`, `SingleRetrieval`, `MigrationConsumes`,
  `DeclineIsFinal`, `ClaimsStand` and `OneOpenRequest`. The invariant adds three
  parts to the types. `FreshIds`: a call that will insert a row carries an id no
  row or other insert has. `PastRecorded`: a token minted or about to be minted
  from a request implies that its row is marked or gone for good.
  `NotServingYet`: before the upgrade nothing is in flight. Without `FreshIds` a
  late insert could revive a request that was already retrieved.
- **P256AccountProofs.** `TypeCorrect`, `NeverLockedOut`, `GuardiansExact`,
  `RecoveryEvicts`, `RecoverySingleUse` and `RecoveryQuorum`. The invariant adds
  that no row has a generation above the current one (else a recovery would
  bring it to life), that accepted assertions carry past nonces, and that active
  rows have real keys.
- **AccessProofs, the rendezvous.** `TableCorrect` and `FirstSignatureStands`. The sign
  handler verifies against one reading of a row and writes into another.
  `PendingBinds` carries the check over: the request of a handler under way has
  been drawn, so that no later request reuses its id, and what it verified fits
  the row if the row is still there.
- **AccessProofs, the key registry.** `RegistryCorrect`, of `KeysSpec`, and
  `RelayKeepsRegistry`, which says that `Relay` seen through its keys is that
  specification; together they give `RegistryHolds` and `RevocationStands`. The
  module extends `Delegation` and `Relay`, which share no variable; the
  definitions of `Relay` carry its name. `KeysInv` is not inductive: after a
  failed write the file may be ahead of memory, and a restart serves the file. So
  `KeysIInv` asks of both lists what `Sound` says of one: no secret twice, none
  later than the last minted, no live secret among the revoked, and the live
  secrets of an id those the broker was told of. A failed change leaves the
  broker unsure of that id, which makes both lists sound for it (`SoundAfter`).
  What `Placed` returns rests on `NthOf`: the positions of a finite set are
  numbered without a gap.
- **AccessProofs, the turns.** `BooksBalance` and `OverspendIsBounded`. The books
  say that a record moves a turn's tokens from in flight to the meter and makes
  them due, and that only an answer takes them from what is due; a crash clears
  the meter and the books together. The bound
  on the recorded tokens is not inductive, because a turn is charged long after
  its check. `Covered` adds to them the most that each turn past its check may
  still cost: the check sees less than the budget and makes room for its own
  turn, and a record takes as much from the room as it adds. That a turn without
  a check burns nothing comes from the table of handlers (`BurnsGated`).
  The sums are those of the library's `MapThenSumSet`, a fold. The
  proof shows that the function it recurs by exists on the parts of a finite set
  (`SumsExist`, `TotalIs`), and by a smallest counterexample that a sum changes
  by as much as its one changed term (`TotalChange`).
- **CapabilityProofs.** `VaultSafe` and `AuthorityHeld`. The chain moves between
  the three reads of a storage call, so no state shows all three conditions.
  `CallInv` follows each of them alone: one that is still missing does not hold
  now, so a read that finds it met shows that it is not missing, and the step a
  call has reached says which are met. A call past the store's key check is one
  the check allowed, and nothing is missing before a call begins.
- **LoginProofs.** `TypeCorrect`, `OutcomeStands` and `LoginRefines`, the
  refinement of `OneShot`. Two handlers may have entered with the same
  credential, and what keeps them apart is that the conditional update of
  `consume` succeeds once. `SoleOwner` says that at most one handler is past it
  for a credential, and that its session is still to be granted; `Unspent` that
  what was not consumed has minted nothing.
  With these each step of a handler is a step of `OneShot` or leaves the
  standing of every credential as it is.
- **SandboxProofs.** `Serialised`, `TeardownRemoves` and `GoneStays`.
  `LockPairs`: the flow in an engine call holds the lock of its device, and the
  holder of a lock is in an engine call. With it a teardown may rely on what it
  listed, `Unseen`: nobody else moves the container while it holds the lock.
  `GoneStays` is an action property: of a gone device every flow is harmless, a
  harmless flow stays so (a probe finds the binding revoked, a poll finds no
  row, and without one its create is refused), and a harmless flow makes neither
  row nor container.
- **SandboxProofs, the checkpoint.** `HoldSuffices` and `NothingIsDropped`, about
  `Checkpoint`, which the module extends too; the two specifications share no
  variable, and the definitions of `Checkpoint` carry its name. A save
  replaces a whole object, so nothing is dropped only if the live directory has
  all that is stored whenever the restore counts as concluded. For the home that
  rests on the bridge: what it may still write is what is stored, and what its
  guard calls stale has already landed (`HomeKept`, `ImportSteps`). For the
  workspace it rests on the marker (`WorkspaceKept`), and on the hold that keeps
  the engine out of a workspace that lacks something (`EngineHeld`). `PutKept`
  carries the inclusion from the export to the put. The exceptions
  are those of the properties: a definitive refusal, and for the engine a hold
  that ran out or was waived.
- **FeedProofs.** `AnswersOnce`, `WakeupsAreKept` and
  `OnlyTheOvertakenAreMissed`. The proof needs the order of event ids: a finite
  set of events has a first one after any cursor and a last one, and a page is
  the least of what is after the cursor. `Signalled` rules out the lost wakeup:
  from an empty listing on, and as long as the poll was not notified, each event
  past the cursor belongs to a publisher that has its signal still to send, or
  that was dropped before it could.
  `NoGap`: a page begins after the cursor, and an event it leaves out before its
  end was overtaken by a later id. `PastHanded`: the cursor is past what was
  handed on, so that nothing is handed on twice.

The assumptions are the named ones of the specifications: `RegistryAssumption`,
`PairingAssumption`, `AccountAssumption`, `DelegationAssumption`,
`CapabilityAssumption`, `LoginAssumption`, `SandboxAssumption`,
`FeedAssumption`, `CheckpointAssumption`, `KeysAssumption` and `RelayAssumption`.
They say that the sets of devices, credentials and guardians of the two
contracts and of key ids and turns of the relay are finite, that a budget is positive, that the null values are none of the values, that the
owner is no delegate, that the kinds of credential and of device are disjoint,
that the clock of `Feed` runs past its margin, and that the bounds are natural
numbers. The bounds are
constants of the specifications, so the theorems hold for every bound.

Only model-checked:

- liveness: `AlwaysOnRelaunched`, `CatchesUp`, `RestoresSettle` and
  `HomeBecomesDurable`. The prover has no rules for fairness;
- `RevokedBlocksRespawn`, which the code does not satisfy.

## Not modelled, and why

The models stand for the state machines of the repository; most of its lines
are something else.

- `agentkeys-daemon/src/ui_bridge.rs`, `apps.rs` and `main.rs`, the CLI, the
  front ends and the app templates: request routing, presentation, prompts and
  process start-up around the protocols above. They call what is modelled and
  keep no shared state that another actor races for.
- `agentkeys-protocol`, `agentkeys-types`, `k11_webauthn.rs`, the JWT code and
  the P-256 contracts: encodings, parsing and arithmetic. They are pure, and a
  bounded instance says nothing about them; the models take "this verifies" as a
  relation.
- Paymaster, bundler and hosted signer: sponsorship of a user operation before
  it reaches the account; the account model starts at `validateUserOp`.
- `CredentialAudit.sol` and the audit worker: append-only roots and their batch
  retries. Rate limits, identity links and wallet rows of the login.
- The remote sandbox backend, and the home that the broker hands over itself in
  an update (`update.rs`); `Checkpoint` covers the daemon's own path.
- The provisioner's browser sessions, the weixin gateway and the mock server.
- Loss of the last SQLite commits at a power failure (`synchronous=NORMAL`) is
  outside the code. A crash in the models is a crash of the process.

## Plan

1. Models: the hand-off of a home in an update next to the daemon's restore;
   sponsorship (paymaster, bundler, retries); rate-limit windows; the audit
   archive.
2. Proofs: every safety property that a passing run checks is a theorem; each
   model of item 1 gets its own.
