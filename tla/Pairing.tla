------------------------------- MODULE Pairing -------------------------------
(***************************************************************************)
(* Agent-initiated pairing in the broker: the pairing_requests table       *)
(* (agentkeys-broker-server/src/storage/pairing_requests.rs) with the      *)
(* request, claim, poll, ack and decline handlers that call it.            *)
(*                                                                         *)
(* A handler reads the clock, then waits for the store mutex; in between,  *)
(* other handlers run and time passes.  A call in that window is a record  *)
(* of `inflight` that carries the time it read; the record stands for any  *)
(* number of identical calls, as a client that retries makes them.  The    *)
(* SQL of one store method runs under the mutex and is one step.  A poll   *)
(* that wins the retrieval mints the token after the mutex is released.    *)
(* The table survives a crash of the broker, calls in flight do not; every *)
(* start runs init_schema, which upgrades a table of an older broker.      *)
(*                                                                         *)
(* request_id and pairing_code are fresh random secrets of one row, so one *)
(* identifier stands for both; a device key stands for its pubkey in any   *)
(* letter case; label, scope and the derived child omni follow the claim   *)
(* and are left out, and so is the sandbox a poll may provision for a      *)
(* delegate once its token is minted: it never touches this table.         *)
(***************************************************************************)
EXTENDS Integers, FiniteSets

CONSTANTS
  Devices,        \* agent device keys (K10)
  Operators,      \* masters, by the omni in their session JWT
  Requests,       \* request ids the broker may draw
  None,           \* SQL NULL / no row / not bound
  TTL,            \* PAIRING_REQUEST_TTL_SECONDS
  RetrieveWindow, \* PAIRING_RETRIEVE_WINDOW_SECS
  Retention,      \* retention_seconds of the janitor
  MaxTime,        \* bound: the clock stops here
  MaxInflight     \* bound: concurrent handlers

VARIABLES
  rows,         \* request_id -> row of pairing_requests, or None
  used,         \* request ids drawn so far (they are never drawn twice)
  user_version, \* PRAGMA user_version of the database file
  serving,      \* the broker process is up and past init_schema
  inflight,     \* calls between their unix_now() and the store mutex
  minting,      \* requests whose poll won, its handler yet to mint the token
  clock,
  mints,        \* history: J1_agent tokens minted from each request
  legacy,       \* history: requests claimed before the upgrade
  declined      \* history: requests removed by decline

db == <<rows, used, user_version>>
history == <<mints, legacy, declined>>
vars == <<db, serving, inflight, minting, clock, history>>

Times == 0..MaxTime
Opt(S) == S \cup {None}

Row == [device_pubkey : Devices, expires_at : 0..(MaxTime + TTL),
        claimed_at : Opt(Times), operator_omni : Opt(Operators),
        bound_at : Opt(Times), minted_at : Opt(Times)]

ASSUME PairingAssumption ==
  /\ None \notin Devices \cup Operators \cup Nat \cup Row
  /\ TTL \in Nat /\ RetrieveWindow \in Nat /\ Retention \in Nat
  /\ MaxTime \in Nat /\ MaxInflight \in Nat

Calls ==
       [op : {"issue"}, id : Requests, device : Devices, now : Times]
  \cup [op : {"claim", "mark_bound"}, id : Requests, operator : Operators,
        now : Times]
  \cup [op : {"poll"}, id : Requests, device : Devices, now : Times]

\* "The four Option<String>s are NULL until a master claims the request", and
\* only a claimed row is retrieved or bound (pairing_requests.rs:130).
WellFormed(row) ==
  /\ row.claimed_at = None <=> row.operator_omni = None
  /\ row.claimed_at = None => row.minted_at = None /\ row.bound_at = None

\* The types, and the columns of a row filled in only together.
TypeOK ==
  /\ rows \in [Requests -> Opt(Row)]
  /\ \A id \in Requests : rows[id] # None => WellFormed(rows[id])
  /\ used \subseteq Requests
  /\ user_version \in {0, 1}
  /\ serving \in BOOLEAN
  /\ inflight \subseteq Calls
  /\ minting \subseteq Requests
  /\ clock \in Times
  /\ mints \in [Requests -> Nat]
  /\ legacy \subseteq Requests
  /\ declined \subseteq Requests
-----------------------------------------------------------------------------
Present(id) == rows[id] # None
Claimed(id) == Present(id) /\ rows[id].claimed_at # None
Open(id) == Present(id) /\ rows[id].claimed_at = None

NewRow(d, now) ==
  [device_pubkey |-> d, expires_at |-> now + TTL, claimed_at |-> None,
   operator_omni |-> None, bound_at |-> None, minted_at |-> None]

LegacyRow(d, o) == [NewRow(d, 0) EXCEPT !.claimed_at = 0, !.operator_omni = o]

\* A new database file, or one an older broker wrote: its claimed rows carry no
\* minted_at whether or not a token was minted from them.
Init ==
  /\ \/ rows = [id \in Requests |-> None]
     \/ \E id \in Requests, d \in Devices, o \in Operators :
        \E row \in {NewRow(d, 0), LegacyRow(d, o)} :
          rows = [i \in Requests |-> IF i = id THEN row ELSE None]
  /\ used = {id \in Requests : Present(id)}
  /\ legacy = {id \in Requests : Claimed(id)}
  /\ user_version = 0
  /\ serving = FALSE
  /\ inflight = {}
  /\ minting = {}
  /\ clock = 0
  /\ mints = [id \in Requests |-> 0]
  /\ declined = {}

\* Mutant of Migrated: the claimed rows are not marked consumed.
KeepRows == rows

\* The backfill of init_schema: claimed rows count as already retrieved.
Migrated ==
  [id \in Requests |->
     IF Claimed(id) /\ rows[id].minted_at = None
     THEN [rows[id] EXCEPT !.minted_at = rows[id].claimed_at]
     ELSE rows[id]]

\* PairingRequestStore::open.  ALTER, backfill and version bump are one SQLite
\* transaction, so a crash inside it is a crash before it.
open ==
  /\ ~serving
  /\ serving' = TRUE
  /\ rows' = IF user_version < 1 THEN Migrated ELSE rows
  /\ user_version' = 1
  /\ UNCHANGED <<used, inflight, minting, clock, history>>

Crash ==
  /\ serving
  /\ serving' = FALSE
  /\ inflight' = {}
  /\ minting' = {}
  /\ UNCHANGED <<db, clock, history>>

Tick ==
  /\ clock < MaxTime
  /\ clock' = clock + 1
  /\ UNCHANGED <<db, serving, inflight, minting, history>>
-----------------------------------------------------------------------------
(***************************************************************************)
(* First half of a handler: its checks that touch no state (the pop_sig    *)
(* names the device, the session JWT names the operator), its random ids   *)
(* and its unix_now().                                                     *)
(***************************************************************************)
Enter(call) ==
  /\ serving
  /\ Cardinality(inflight) < MaxInflight
  /\ inflight' = inflight \cup {call}
  /\ UNCHANGED <<rows, user_version, serving, minting, clock, history>>

pairing_request(d) ==
  \E id \in Requests \ used :
    /\ Enter([op |-> "issue", id |-> id, device |-> d, now |-> clock])
    /\ used' = used \cup {id}

pairing_claim(o, id) ==
  /\ id \in used
  /\ Enter([op |-> "claim", id |-> id, operator |-> o, now |-> clock])
  /\ UNCHANGED used

pairing_poll(d, id) ==
  /\ id \in used
  /\ Enter([op |-> "poll", id |-> id, device |-> d, now |-> clock])
  /\ UNCHANGED used

ack_binding(o, id) ==
  /\ id \in used
  /\ Enter([op |-> "mark_bound", id |-> id, operator |-> o, now |-> clock])
  /\ UNCHANGED used
-----------------------------------------------------------------------------
(***************************************************************************)
(* Second half: the store method, under the mutex.                         *)
(***************************************************************************)
Return(call) ==
  /\ call \in inflight
  /\ inflight' \in {inflight, inflight \ {call}}
  /\ UNCHANGED <<used, user_version, serving, clock, history>>

\* Mutant of SupersededBy: an open request stays when its device asks again.
NothingSuperseded(d) == {}

SupersededBy(d) == {id \in Requests : Open(id) /\ rows[id].device_pubkey = d}

issue(call) ==
  /\ call.op = "issue"
  /\ Return(call)
  /\ call \notin inflight'
  /\ rows' = [id \in Requests |->
                IF id = call.id THEN NewRow(call.device, call.now)
                ELSE IF id \in SupersededBy(call.device) THEN None
                ELSE rows[id]]
  /\ UNCHANGED minting

\* Mutant of Claimable: a claimed row may be claimed again.
ClaimableAgain(id, now) == Present(id) /\ rows[id].expires_at >= now

Claimable(id, now) == Open(id) /\ rows[id].expires_at >= now

claim(call) ==
  /\ call.op = "claim"
  /\ Return(call)
  /\ rows' = IF Claimable(call.id, call.now)
             THEN [rows EXCEPT ![call.id].claimed_at = call.now,
                               ![call.id].operator_omni = call.operator]
             ELSE rows
  /\ UNCHANGED minting

Mintable(id, d, now) ==
  /\ Claimed(id)
  /\ rows[id].device_pubkey = d
  /\ now - rows[id].claimed_at <= RetrieveWindow
  /\ rows[id].minted_at = None

\* Mutant of Retrieved: the retrieval is not recorded.
UnrecordedRetrieval(id, now) == rows[id]

Retrieved(id, now) == [rows[id] EXCEPT !.minted_at = now]

\* poll answers pending or an error and changes nothing, or flips minted_at.
poll(call) ==
  /\ call.op = "poll"
  /\ Return(call)
  /\ IF Mintable(call.id, call.device, call.now)
     THEN /\ rows' = [rows EXCEPT ![call.id] = Retrieved(call.id, call.now)]
          /\ minting' = minting \cup {call.id}
     ELSE UNCHANGED <<rows, minting>>

\* The rest of a winning pairing_poll: J1_agent for the claimed operator.
mint_agent_session_jwt(id) ==
  /\ id \in minting
  /\ minting' = minting \ {id}
  /\ mints' = [mints EXCEPT ![id] = @ + 1]
  /\ UNCHANGED <<db, serving, inflight, clock, legacy, declined>>

mark_bound(call) ==
  /\ call.op = "mark_bound"
  /\ Return(call)
  /\ rows' = IF /\ Claimed(call.id)
                /\ rows[call.id].operator_omni = call.operator
                /\ rows[call.id].bound_at = None
             THEN [rows EXCEPT ![call.id].bound_at = call.now]
             ELSE rows
  /\ UNCHANGED minting

\* Mutant of AfterDecline: the row stays.
KeptRow(id) == rows[id]

AfterDecline(id) == None

\* pairing_decline reads no clock: handler and store method are one step.
decline(o, id) ==
  /\ serving
  /\ Present(id)
  /\ rows[id].operator_omni = o
  /\ rows[id].bound_at = None
  /\ rows' = [rows EXCEPT ![id] = AfterDecline(id)]
  /\ declined' = declined \cup {id}
  /\ UNCHANGED <<used, user_version, serving, inflight, minting, clock,
                 mints, legacy>>

Purgeable(id) == Open(id) /\ rows[id].expires_at < clock - Retention

purge_expired ==
  /\ serving
  /\ rows' = [id \in Requests |-> IF Purgeable(id) THEN None ELSE rows[id]]
  /\ UNCHANGED <<used, user_version, serving, inflight, minting, clock, history>>
-----------------------------------------------------------------------------
Handlers ==
  \/ \E d \in Devices : pairing_request(d)
  \/ \E id \in Requests :
       \/ \E d \in Devices : pairing_poll(d, id)
       \/ \E o \in Operators :
            pairing_claim(o, id) \/ ack_binding(o, id) \/ decline(o, id)

Store ==
  \E call \in inflight :
    issue(call) \/ claim(call) \/ poll(call) \/ mark_bound(call)

Next ==
  \/ open \/ Crash \/ Tick
  \/ Handlers
  \/ Store
  \/ \E id \in minting : mint_agent_session_jwt(id)
  \/ purge_expired

Spec == Init /\ [][Next]_vars
-----------------------------------------------------------------------------
\* "the tuple mints AT MOST ONE J1_agent" (pairing_requests.rs:452): whatever
\* polls, claims, declines, crashes and upgrades interleave.
OneMintPerRequest == \A id \in Requests : mints[id] <= 1

\* A row an older broker left claimed may have been retrieved before the
\* upgrade, so the upgraded broker never mints from it, however often it is
\* restarted (init_schema, pairing_requests.rs:199-210).
LegacyNeverMints == \A id \in legacy : mints[id] = 0

\* Re-running --request-pairing leaves exactly one open request per device
\* (#224, pairing_requests.rs:264), concurrent requests of the device included.
OneOpenRequestPerDevice ==
  \A i, j \in Requests :
    Open(i) /\ Open(j) /\ rows[i].device_pubkey = rows[j].device_pubkey => i = j

\* A claim is final: the row keeps its operator, its claim time and its device,
\* a retrieval or a bind is never undone, and only its operator's decline
\* removes it: supersede and the janitor pass it over.
ClaimIsFinal ==
  [][\A id \in Requests : Claimed(id) =>
       \/ rows'[id] = None /\ id \in declined' \ declined
       \/ /\ rows'[id] # None
          /\ \A f \in {"device_pubkey", "expires_at", "claimed_at", "operator_omni"} :
               rows'[id][f] = rows[id][f]
          /\ \A f \in {"minted_at", "bound_at"} :
               rows[id][f] # None => rows'[id][f] = rows[id][f]]_vars

\* Once the master has declined a request no poll, not even one already on its
\* way, wins its retrieval: a token minted after the decline comes from a
\* retrieval that was won before it.
NoRetrievalAfterDecline ==
  [][\A id \in declined : id \in minting' => id \in minting]_vars
=============================================================================
