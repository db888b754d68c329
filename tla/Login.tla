------------------------------- MODULE Login -------------------------------
(***************************************************************************)
(* The broker's logins: magic links (email_tokens.rs, email_verify.rs),    *)
(* OAuth callbacks (oauth_pending.rs, oauth2_callback.rs, oauth2/mod.rs),  *)
(* SIWE signatures (wallet_sig.rs, wallet_verify.rs) and passkey           *)
(* assertions (passkey_verify.rs), over their one-shot credentials.        *)
(*                                                                         *)
(* A handler reads the clock, consumes the credential under the store      *)
(* mutex, awaits what proves the identity, mints the session and stages or *)
(* answers it: four steps with other handlers in between.  Any of them may *)
(* fail, and a handler dies with its caller at an await.  A crash loses    *)
(* the handlers and the SIWE challenges kept in memory, never a row.       *)
(*                                                                         *)
(* Identities, hashes and rate limits are left out: a login that is        *)
(* refused for them fails at the step where it would go on.  The stores'   *)
(* purge_expired has no caller in the broker and is left out too.          *)
(***************************************************************************)
EXTENDS Integers, FiniteSets

CONSTANTS
  Links,      \* magic links, with the request their CLI polls
  States,     \* OAuth flows, by request id
  Siwe,       \* SIWE nonces
  Passkeys,   \* passkey challenges
  Workers,    \* concurrent handlers
  None,       \* no credential
  TTL,        \* lifetime of a credential
  MaxTime,    \* bound: the clock stops here
  MaxCrashes  \* bound: crashes of the broker

Polled == Links \cup States           \* a CLI polls a status row for these
Ids == Polled \cup Siwe \cup Passkeys
Times == 0..MaxTime

ASSUME LoginAssumption ==
  /\ None \notin Ids
  /\ States \cap Links = {}
  /\ Polled \cap (Siwe \cup Passkeys) = {}
  /\ TTL \in Nat /\ MaxTime \in Nat /\ MaxCrashes \in Nat

VARIABLES
  tok,      \* credential -> "absent", "open" or "consumed"
  expires,  \* credential -> expires_at of its row
  status,   \* credential -> what a poll of its request reads
  stash,    \* SIWE challenges kept in memory
  flow,     \* handler -> the login it runs
  clock,
  crashes,
  minted,   \* history: session tokens minted from a credential
  sessions  \* history: sessions staged or answered from a credential

vars == <<tok, expires, status, stash, flow, clock, crashes, minted, sessions>>

Idle == [step |-> "idle", id |-> None, now |-> 0]
Flows == [step : {"consume", "prove", "finish"}, id : Ids, now : Times]

\* Types, and one token per credential at most.
TypeOK ==
  /\ tok \in [Ids -> {"absent", "open", "consumed"}]
  /\ expires \in [Ids -> 0..(MaxTime + TTL)]
  /\ status \in [Ids -> {"none", "pending", "verified", "failed"}]
  /\ stash \subseteq Siwe
  /\ flow \in [Workers -> Flows \cup {Idle}]
  /\ clock \in Times
  /\ crashes \in 0..MaxCrashes
  /\ minted \in [Ids -> {0, 1}]
  /\ sessions \in [Ids -> {0, 1}]
-----------------------------------------------------------------------------
Init ==
  /\ tok = [i \in Ids |-> "absent"]
  /\ expires = [i \in Ids |-> 0]
  /\ status = [i \in Ids |-> "none"]
  /\ stash = {}
  /\ flow = [w \in Workers |-> Idle]
  /\ clock = 0
  /\ crashes = 0
  /\ minted = [i \in Ids |-> 0]
  /\ sessions = [i \in Ids |-> 0]

At(w, step) == flow[w].step = step
Id(w) == flow[w].id
Goto(w, step) == flow' = [flow EXCEPT ![w].step = step]
Return(w) == flow' = [flow EXCEPT ![w] = Idle]
Owns(w, i) == flow[w].step \in {"prove", "finish"} /\ flow[w].id = i

\* The row of a credential lands, with a pending status row in the same
\* transaction when a CLI will poll.
issue(i) ==
  /\ tok[i] = "absent"
  /\ tok' = [tok EXCEPT ![i] = "open"]
  /\ expires' = [expires EXCEPT ![i] = clock + TTL]
  /\ status' = IF i \in Polled THEN [status EXCEPT ![i] = "pending"] ELSE status
  /\ UNCHANGED <<flow, clock, crashes, minted, sessions>>

\* A link is sent by mail, an OAuth request redirects, a passkey challenge is
\* answered; SIWE also keeps its challenge in memory.
email_link_challenge(i) == i \in Links /\ issue(i) /\ UNCHANGED stash
oauth2_challenge(i) == i \in States /\ issue(i) /\ UNCHANGED stash
passkey_start(i) == i \in Passkeys /\ issue(i) /\ UNCHANGED stash
siwe_challenge(i) == i \in Siwe /\ issue(i) /\ stash' = stash \cup {i}

\* A handler takes a credential to its store, at the time it read.
Enter(w, i) ==
  /\ flow[w] = Idle
  /\ tok[i] # "absent"
  /\ flow' = [flow EXCEPT ![w] = [step |-> "consume", id |-> i, now |-> clock]]
  /\ UNCHANGED <<tok, expires, status, clock, crashes, minted, sessions>>

\* A click, a callback whose state verifies, an assertion, and a signature,
\* which takes its challenge out of memory first.
email_verify(w, i) == i \in Links /\ Enter(w, i) /\ UNCHANGED stash
oauth2_callback(w, i) == i \in States /\ Enter(w, i) /\ UNCHANGED stash
passkey_verify(w, i) == i \in Passkeys /\ Enter(w, i) /\ UNCHANGED stash
wallet_verify(w, i) == i \in stash /\ Enter(w, i) /\ stash' = stash \ {i}

\* Mutant of Consumable: the conditional UPDATE lost its WHERE.
ConsumableTwice(i, now) == tok[i] # "absent" /\ expires[i] >= now

Consumable(i, now) == tok[i] = "open" /\ expires[i] >= now

\* The peek and the conditional UPDATE run under the store mutex.
consume(w) ==
  /\ At(w, "consume")
  /\ IF Consumable(Id(w), flow[w].now)
     THEN Goto(w, "prove") /\ tok' = [tok EXCEPT ![Id(w)] = "consumed"]
     ELSE Return(w) /\ UNCHANGED tok
  /\ UNCHANGED <<expires, status, stash, clock, crashes, minted, sessions>>

\* UPDATE ... WHERE status = 'pending'.
MarkFailed(i) ==
  IF status[i] = "pending" THEN [status EXCEPT ![i] = "failed"] ELSE status

\* The identity is not proved (code exchange, signature, allow-list): only an
\* OAuth callback stages the failure for the poll.
ProofFails(w) ==
  /\ At(w, "prove")
  /\ status' = IF Id(w) \in States THEN MarkFailed(Id(w)) ELSE status
  /\ Return(w)
  /\ UNCHANGED <<tok, expires, stash, clock, crashes, minted, sessions>>

\* The owner ends with nothing staged: the token cannot be minted, the failure
\* of the proof cannot be written, or the caller is gone.
NothingStaged(w) ==
  /\ At(w, "prove")
  /\ Return(w)
  /\ UNCHANGED <<tok, expires, status, stash, clock, crashes, minted, sessions>>

\* Mutant of mint_session_jwt: a handler may mint again.
MintAgain(w) ==
  /\ At(w, "prove")
  /\ minted' = [minted EXCEPT ![Id(w)] = @ + 1]
  /\ UNCHANGED <<tok, expires, status, stash, flow, clock, crashes, sessions>>

mint_session_jwt(w) ==
  /\ At(w, "prove")
  /\ minted' = [minted EXCEPT ![Id(w)] = @ + 1]
  /\ Goto(w, "finish")
  /\ UNCHANGED <<tok, expires, status, stash, clock, crashes, sessions>>

\* Mutant of MarkVerified: the UPDATE lost its WHERE status = 'pending'.
MarkAnyVerified(i) == [status EXCEPT ![i] = "verified"]

\* UPDATE ... WHERE status = 'pending'.
MarkVerified(i) ==
  IF status[i] = "pending" THEN [status EXCEPT ![i] = "verified"] ELSE status

\* The session is staged, unless another call has failed the row meanwhile.
mark_verified(w) ==
  LET i == Id(w) IN
  /\ At(w, "finish") /\ i \in Polled
  /\ status' = MarkVerified(i)
  /\ sessions' = IF status[i] = "pending" THEN [sessions EXCEPT ![i] = @ + 1]
                                          ELSE sessions
  /\ Return(w)
  /\ UNCHANGED <<tok, expires, stash, clock, crashes, minted>>

\* The token is minted and its row cannot be written.
FinishFails(w) ==
  /\ At(w, "finish") /\ Id(w) \in Polled
  /\ Return(w)
  /\ UNCHANGED <<tok, expires, status, stash, clock, crashes, minted, sessions>>

\* wallet_verify and passkey_verify answer with the session itself.
Answer(w) ==
  /\ At(w, "finish") /\ Id(w) \notin Polled
  /\ sessions' = [sessions EXCEPT ![Id(w)] = @ + 1]
  /\ Return(w)
  /\ UNCHANGED <<tok, expires, status, stash, clock, crashes, minted>>

\* The provider redirects with an error: the row is failed, not consumed, even
\* under a callback that owns it.
ProviderError(i) ==
  /\ tok[i] # "absent"
  /\ status' = MarkFailed(i)
  /\ UNCHANGED <<tok, expires, stash, flow, clock, crashes, minted, sessions>>

Tick ==
  /\ clock < MaxTime
  /\ clock' = clock + 1
  /\ UNCHANGED <<tok, expires, status, stash, flow, crashes, minted, sessions>>

Crash ==
  /\ crashes < MaxCrashes
  /\ crashes' = crashes + 1
  /\ flow' = [w \in Workers |-> Idle]
  /\ stash' = {}
  /\ UNCHANGED <<tok, expires, status, clock, minted, sessions>>

Step(w) ==
  \/ consume(w) \/ ProofFails(w) \/ NothingStaged(w) \/ mint_session_jwt(w)
  \/ mark_verified(w) \/ FinishFails(w) \/ Answer(w)

Next ==
  \/ \E i \in Ids :
       \/ email_link_challenge(i) \/ oauth2_challenge(i)
       \/ passkey_start(i) \/ siwe_challenge(i)
  \/ \E w \in Workers, i \in Ids :
       \/ email_verify(w, i) \/ oauth2_callback(w, i)
       \/ passkey_verify(w, i) \/ wallet_verify(w, i)
  \/ \E w \in Workers : Step(w)
  \/ \E i \in States : ProviderError(i)
  \/ Tick
  \/ Crash

Spec == Init /\ [][Next]_vars
-----------------------------------------------------------------------------
(* Properties.                                                             *)

Standing(i) ==
  IF sessions[i] > 0 THEN "granted"
  ELSE IF tok[i] # "consumed" THEN tok[i]
  ELSE IF \E w \in Workers : Owns(w, i) THEN "owned"
  ELSE "dropped"

standing == [i \in Ids |-> Standing(i)]

O == INSTANCE OneShot WITH st <- standing

\* All four kinds of login implement the one-shot credential, over crashes,
\* replays and concurrent handlers (auth_nonces.rs:114, email_tokens.rs:164,
\* oauth_pending.rs:153).
OneShotCredentials == O!OneShotSpec

\* The outcome a CLI polls is final: no later error, replay or crash takes a
\* verified login back, and a callback in flight while the provider's error
\* fails its row stages no session behind it (email_tokens.rs:224,
\* oauth_pending.rs:224, oauth2_callback.rs:73).
OutcomeIsFinal ==
  [][\A i \in Ids :
       status[i] \in {"verified", "failed"} => status'[i] = status[i]]_vars
=============================================================================
