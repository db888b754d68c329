-------------------------------- MODULE Relay --------------------------------
(***************************************************************************)
(* Turns through the model relay (agentkeys-gate, relay.rs and meter.rs),  *)
(* over the key registry of RelayKeys: authenticate, the two budget gates, *)
(* the upstream call, metering, the audit row, the answer.  A handler that *)
(* awaits is dropped when its caller hangs up; a streamed turn goes on in  *)
(* a task of its own.                                                      *)
(*                                                                         *)
(* One user owns every key.  Every handler takes the same path and leaves  *)
(* out parts of it; a streamed chat is a kind of its own.  The account     *)
(* standing that /readyz reports is left out.                              *)
(***************************************************************************)
EXTENDS RelayKeys

CONSTANTS
  Turns,         \* concurrent requests
  Kinds,         \* the kinds of turn of an instance
  Budget,        \* the user's token budget
  MaxTokens,     \* the most a turn can cost
  HasAuditor,    \* an audit_url is configured
  RequireAudit,  \* require_audit
  MaxTurns       \* bound: turns started

\* What a handler does: pass the budget gates, burn tokens.
handle_chat == [gated |-> TRUE, burns |-> TRUE]
handle_embeddings == [gated |-> TRUE, burns |-> TRUE]
handle_systemone == [gated |-> TRUE, burns |-> TRUE]
handle_search == [gated |-> TRUE, burns |-> FALSE]
handle_transcribe == [gated |-> FALSE, burns |-> FALSE]
handle_speak == [gated |-> FALSE, burns |-> FALSE]

Handlers == [chat |-> handle_chat, stream |-> handle_chat,
             embed |-> handle_embeddings, decide |-> handle_systemone,
             search |-> handle_search, transcribe |-> handle_transcribe,
             speak |-> handle_speak]

ASSUME RelayAssumption ==
  /\ Kinds \subseteq DOMAIN Handlers
  /\ Budget \in Nat \ {0} /\ MaxTokens \in Nat /\ MaxTurns \in Nat
  /\ HasAuditor \in BOOLEAN /\ RequireAudit \in BOOLEAN
  /\ IsFiniteSet(Ids) /\ IsFiniteSet(Turns)

VARIABLES
  turn,      \* request -> its step, its tokens yet to be recorded, and those
             \* recorded whose answer is still to be given
  meter,     \* key id -> tokens recorded
  started,
  burned,    \* history: tokens the upstream reported since the last start
  lost,      \* history: those of a body that was never read to its end
  answered   \* history: those of turns answered whole

books == <<burned, lost, answered>>
turnVars == <<turn, meter, started, books>>
relayVars == <<keyVars, turnVars>>

Idle == [step |-> "idle", kind |-> "none", id |-> "none", cost |-> 0, due |-> 0]
Busy ==
  [step : {"check", "sent", "body", "audit"},
   kind : Kinds, id : Ids, cost : 0..MaxTokens, due : 0..MaxTokens]

Total(f, S) == MapThenSumSet(LAMBDA x : f[x], S)
used == Total(meter, Ids)    \* used_total

\* Types; an idle request has nothing of an earlier turn left.
RelayTypeOK ==
  /\ KeysTypeOK
  /\ turn \in [Turns -> Busy \cup {Idle}]
  /\ meter \in [Ids -> Nat] /\ started \in 0..MaxTurns
  /\ burned \in Nat /\ lost \in Nat /\ answered \in Nat

RelayInit ==
  /\ KeysInit
  /\ turn = [t \in Turns |-> Idle]
  /\ meter = [id \in Ids |-> 0]
  /\ started = 0
  /\ burned = 0 /\ lost = 0 /\ answered = 0

Ends(t) == turn' = [turn EXCEPT ![t] = Idle]
-----------------------------------------------------------------------------
\* The handler keeps the row it authenticated with.
authenticate_live(t, kind, row) ==
  /\ turn[t] = Idle /\ started < MaxTurns /\ authenticate(row)
  /\ started' = started + 1
  /\ turn' = [turn EXCEPT ![t] =
                [step |-> IF Handlers[kind].gated THEN "check" ELSE "sent",
                 kind |-> kind, id |-> row.id, cost |-> 0, due |-> 0]]
  /\ UNCHANGED <<keyVars, meter, books>>

\* Mutant of Within: the budget itself may still be spent from.
WithinOrAt(id) ==
  used <= Budget /\ \A b \in budget_for_key(id) : meter[id] < b

\* The user's budget, then the key's as it is now.
Within(id) == used < Budget /\ \A b \in budget_for_key(id) : meter[id] < b

\* A denial is audited as far as that goes, and answered.
Check(t) ==
  /\ turn[t].step = "check"
  /\ IF Within(turn[t].id) THEN turn' = [turn EXCEPT ![t].step = "sent"]
     ELSE Ends(t)
  /\ UNCHANGED <<keyVars, meter, started, books>>

\* Unreachable, or it refuses: audited as far as that goes, and answered.
UpstreamFails(t) ==
  /\ turn[t].step = "sent"
  /\ Ends(t)
  /\ UNCHANGED <<keyVars, meter, started, books>>

UpstreamAnswers(t, cost) ==
  /\ turn[t].step = "sent"
  /\ cost > 0 => Handlers[turn[t].kind].burns
  /\ turn' = [turn EXCEPT ![t].step = "body", ![t].cost = cost]
  /\ burned' = burned + cost
  /\ UNCHANGED <<keyVars, meter, started, lost, answered>>

\* Mutant of Metered: a turn is metered once its audit row is written.
MeteredLater(t) == UNCHANGED meter

Metered(t) == meter' = [meter EXCEPT ![turn[t].id] = @ + turn[t].cost]

\* The body is read to its end and recorded before the audit.  A stream has
\* reached its caller by then, any other answer is still to be given.
record(t) ==
  LET streamed == turn[t].kind = "stream"
  IN /\ turn[t].step = "body"
     /\ Metered(t)
     /\ turn' = [turn EXCEPT ![t].step = "audit", ![t].cost = 0,
                             ![t].due = IF streamed THEN 0 ELSE turn[t].cost]
     /\ answered' = IF streamed THEN answered + turn[t].cost ELSE answered
     /\ UNCHANGED <<keyVars, started, burned, lost>>

\* A body that cannot be read is an error; a stream that breaks off before its
\* usage chunk is recorded as nothing.
BodyFails(t) ==
  /\ turn[t].step = "body"
  /\ lost' = lost + turn[t].cost
  /\ IF turn[t].kind = "stream"
     THEN turn' = [turn EXCEPT ![t].step = "audit", ![t].cost = 0]
     ELSE Ends(t)
  /\ UNCHANGED <<keyVars, meter, started, burned, answered>>

\* The row is appended, or there is no auditor to append it (whatever
\* require_audit says), and the answer is given.
Audited(t) ==
  /\ turn[t].step = "audit"
  /\ Ends(t)
  /\ answered' = answered + turn[t].due
  /\ UNCHANGED <<keyVars, meter, started, burned, lost>>

\* A turn whose audit append failed is still answered.
Answered(kind) == kind = "stream" \/ ~RequireAudit

AuditFails(t) ==
  /\ turn[t].step = "audit" /\ HasAuditor
  /\ Ends(t)
  /\ answered' = IF Answered(turn[t].kind) THEN answered + turn[t].due ELSE answered
  /\ UNCHANGED <<keyVars, meter, started, burned, lost>>

\* The caller hangs up: the handler is dropped where it waits, a stream is
\* drained to its end (caller_gone).
HangUp(t) ==
  /\ \/ turn[t].step = "sent"
     \/ turn[t].step = "body" /\ turn[t].kind # "stream"
     \/ turn[t].step = "audit" /\ turn[t].kind # "stream" /\ HasAuditor
  /\ Ends(t)
  /\ lost' = lost + turn[t].cost
  /\ UNCHANGED <<keyVars, meter, started, burned, answered>>

\* The meter is process-local.
Forgotten ==
  /\ turn' = [t \in Turns |-> Idle]
  /\ meter' = [id \in Ids |-> 0]
  /\ burned' = 0 /\ lost' = 0 /\ answered' = 0
  /\ UNCHANGED started

KeyStep == Change \/ Restart

\* A change that ends in a crash, or a restart, loses the turns in flight.
Keys ==
  /\ KeyStep
  /\ IF crashes' = crashes THEN UNCHANGED turnVars ELSE Forgotten

Turn(t) ==
  \/ \E kind \in Kinds, k \in DOMAIN keys : authenticate_live(t, kind, keys[k])
  \/ Check(t)
  \/ UpstreamFails(t)
  \/ \E cost \in 0..MaxTokens : UpstreamAnswers(t, cost)
  \/ record(t) \/ BodyFails(t)
  \/ Audited(t) \/ AuditFails(t)
  \/ HangUp(t)

RelayNext == Keys \/ \E t \in Turns : Turn(t)

RelaySpec == RelayInit /\ [][RelayNext]_relayVars
-----------------------------------------------------------------------------
(* Properties.                                                             *)

\* The budget is checked before a turn and charged after it, so turns that
\* run side by side may overspend it, by their own cost and no more
\* (relay.rs:1051, "before any upstream tokens burn").
OverspendBounded == used <= Budget - 1 + MaxTokens * Cardinality(Turns)

\* Every token the upstream reported is recorded, in flight, or was lost with
\* a body that was not read to its end (relay.rs:1156).
Accounted ==
  LET costs == [t \in Turns |-> turn[t].cost]
  IN burned = used + lost + Total(costs, Turns)

\* No caller is given a whole answer before its tokens are recorded, whatever
\* becomes of the audit, and no later failure takes them off the meter again
\* (relay.rs:1170, "Tokens are burned regardless of audit outcome - record
\* first").
AnsweredIsMetered ==
  LET dues == [t \in Turns |-> turn[t].due]
  IN answered + Total(dues, Turns) <= used

\* The books of the relay balance at every moment: types, every token burned
\* is recorded, in flight or lost with its body, and every answer given or
\* still owed has been recorded (relay.rs:1156 and 1170).
RelayInv == RelayTypeOK /\ Accounted /\ AnsweredIsMetered
=============================================================================
