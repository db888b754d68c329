----------------------------- MODULE Delegation -----------------------------
(***************************************************************************)
(* The delegation rendezvous of the broker (handlers/agent/delegation.rs   *)
(* and storage/agent_delegations.rs): a sandbox asks, its device co-signs, *)
(* the sandbox polls the row.  Every store call is one step under the      *)
(* store's mutex; a sign handler is two of them, a read and a conditional  *)
(* update, both with the time it read at its start.  Listing the pending   *)
(* requests and polling change nothing.                                    *)
(*                                                                         *)
(* A signature is the sandbox and the lifetime the device signed.  Request *)
(* ids are random and never repeat.  The store survives a crash.           *)
(***************************************************************************)
EXTENDS Integers, FiniteSets

CONSTANTS
  Devices, Sandboxes,
  Requests,   \* request ids
  Signers,    \* concurrent sign handlers
  ReqTtl,     \* DELEGATION_REQUEST_TTL_SECONDS
  MaxTtl,     \* MAX_DELEGATION_TTL_SECONDS
  MaxTime     \* bound: the clock stops here

ASSUME DelegationAssumption ==
  /\ ReqTtl \in Nat \ {0} /\ MaxTtl \in Nat \ {0} /\ MaxTime \in Nat

VARIABLES
  now,
  rows,   \* request id -> its row, or the reason there is none
  sign    \* sign handler -> what it has read and verified

vars == <<now, rows, sign>>

Unused == [state |-> "unused"]
Gone == [state |-> "gone"]
Sigs == [sandbox : Sandboxes, until : 0..(MaxTime + MaxTtl + 1)]
Open == [state : {"open"}, device : Devices, sandbox : Sandboxes,
         expires : 0..(MaxTime + ReqTtl)]
Signed == [state : {"signed"}, device : Devices, sandbox : Sandboxes,
           expires : 0..(MaxTime + ReqTtl), at : 0..MaxTime, sig : Sigs]
Handling == [req : Requests, device : Devices, now : 0..MaxTime, sig : Sigs]
NoSign == [req |-> "none"]

\* Types, and a row is signed inside its window.
TypeOK ==
  /\ now \in 0..MaxTime
  /\ rows \in [Requests -> Open \cup Signed \cup {Unused, Gone}]
  /\ \A r \in Requests : rows[r].state = "signed" => rows[r].at < rows[r].expires
  /\ sign \in [Signers -> Handling \cup {NoSign}]

Init ==
  /\ now = 0
  /\ rows = [r \in Requests |-> Unused]
  /\ sign = [s \in Signers |-> NoSign]

Has(r) == rows[r].state \in {"open", "signed"}
-----------------------------------------------------------------------------
\* Mutant of Dropped: the earlier request of the same pair stays.
DroppedExpired(r, device, sandbox) ==
  rows[r].state = "open" /\ rows[r].expires <= now

\* What a request deletes: the expired, and the same pair's, if not signed.
Dropped(r, device, sandbox) ==
  /\ rows[r].state = "open"
  /\ \/ rows[r].expires <= now
     \/ rows[r].device = device /\ rows[r].sandbox = sandbox

\* The device is the session's, the sandbox key the body's.
delegation_request(r, device, sandbox) ==
  /\ rows[r] = Unused
  /\ rows' = [q \in Requests |->
       IF q = r THEN [state |-> "open", device |-> device, sandbox |-> sandbox,
                      expires |-> now + ReqTtl]
       ELSE IF Dropped(q, device, sandbox) THEN Gone ELSE rows[q]]
  /\ UNCHANGED <<now, sign>>

\* verify_delegation binds the stored sandbox key; the lifetime is the
\* device's choice and is not compared with anything.
Verifies(r, sig) == sig.sandbox = rows[r].sandbox

\* The read half of a sign; a refusal changes nothing.
sign_target(s, r, device, sig) ==
  /\ sign[s] = NoSign
  /\ rows[r].state = "open" /\ rows[r].device = device /\ rows[r].expires > now
  /\ Verifies(r, sig)
  /\ sign' = [sign EXCEPT ![s] =
                [req |-> r, device |-> device, now |-> now, sig |-> sig]]
  /\ UNCHANGED <<now, rows>>

\* Mutant of Recordable: the update is keyed by the request only.
RecordableAlways(s) == Has(sign[s].req)

\* The conditions of the UPDATE, at the handler's time.
Recordable(s) ==
  LET row == rows[sign[s].req]
  IN row.state = "open" /\ row.device = sign[s].device /\ row.expires > sign[s].now

SignedAt(s) == sign[s].now

record_signature(s) ==
  LET r == sign[s].req
  IN /\ sign[s] # NoSign
     /\ sign' = [sign EXCEPT ![s] = NoSign]
     /\ rows' = IF Recordable(s)
                THEN [rows EXCEPT ![r] =
                        [state |-> "signed", device |-> @.device,
                         sandbox |-> @.sandbox, expires |-> @.expires,
                         at |-> SignedAt(s), sig |-> sign[s].sig]]
                ELSE rows
     /\ UNCHANGED now

\* The broker dies: the handlers are lost, the store is not.
Crash ==
  /\ sign' = [s \in Signers |-> NoSign]
  /\ UNCHANGED <<now, rows>>

Tick == now < MaxTime /\ now' = now + 1 /\ UNCHANGED <<rows, sign>>

Next ==
  \/ \E r \in Requests, d \in Devices :
       \/ \E b \in Sandboxes : delegation_request(r, d, b)
       \/ \E s \in Signers, sig \in Sigs : sign_target(s, r, d, sig)
  \/ \E s \in Signers : record_signature(s)
  \/ Crash
  \/ Tick

Spec == Init /\ [][Next]_vars
-----------------------------------------------------------------------------
(* Properties.                                                             *)

\* A second co-signature "loses the race rather than overwriting", and no
\* later request drops what was signed (agent_delegations.rs:288).
SignedIsFinal ==
  [][\A r \in Requests : rows[r].state = "signed" => rows'[r] = rows[r]]_vars

\* What the sandbox is handed binds the sandbox key and the device it asked
\* with, although the key is read one step and the row written another
\* (delegation.rs:235).
SignatureBindsRequest ==
  \A r \in Requests : rows[r].state = "signed" => rows[r].sig.sandbox = rows[r].sandbox

\* A device has one open request per sandbox key to sign, over any number of
\* retries (agent_delegations.rs:170, "so a re-request doesn't accumulate").
OneOpenRequest ==
  \A q, r \in Requests :
    /\ rows[q].state = "open" /\ rows[r].state = "open"
    /\ rows[q].device = rows[r].device /\ rows[q].sandbox = rows[r].sandbox
    => q = r

\* The table of requests: types with signatures inside their window, one open
\* row per device and sandbox over any retries, and signatures that bind the
\* sandbox key of their row (agent_delegations.rs:170, delegation.rs:235).
DelegationInv == TypeOK /\ OneOpenRequest /\ SignatureBindsRequest
=============================================================================
