---------------------------- MODULE LoginProofs ----------------------------
(***************************************************************************)
(* Theorems about the broker's logins, for any credentials, any number of  *)
(* concurrent handlers, any lifetime and any number of crashes.            *)
(*                                                                         *)
(* The argument is about ownership: a handler past its consume is the only *)
(* owner of the credential, whose row is consumed for good and from which  *)
(* no session came yet.  That is enough for the refinement: each step of a *)
(* handler moves its own credential and leaves the standing of all others. *)
(***************************************************************************)
EXTENDS Login, TLAPS

\* A handler past its consume is alone with a credential nobody got a session
\* from.
SoleOwner ==
  \A w \in Workers, i \in Ids : Owns(w, i) =>
    /\ tok[i] = "consumed" /\ sessions[i] = 0
    /\ At(w, "prove") => minted[i] = 0
    /\ \A v \in Workers : Owns(v, i) => v = w

\* What was not consumed has left no trace.
Unspent ==
  \A i \in Ids :
    /\ tok[i] # "consumed" => minted[i] = 0 /\ sessions[i] = 0
    /\ tok[i] = "absent" => status[i] = "none"

IInv == TypeOK /\ SoleOwner /\ Unspent
-----------------------------------------------------------------------------
\* A step other than that of an idle handler has a login under way.
LEMMA FlowKind ==
  ASSUME TypeOK, NEW w \in Workers, flow[w].step # "idle"
  PROVE  flow[w] \in Flows /\ Id(w) \in Ids
<1>1. flow[w] \in Flows \/ flow[w] = Idle
  BY DEF TypeOK
<1>2. Idle.step = "idle"
  BY DEF Idle
<1> QED BY <1>1, <1>2 DEF Flows, Id

\* A handler that returns owns nothing, and the others own what they owned.
LEMMA ReturnOwns ==
  ASSUME TypeOK, NEW w \in Workers, Return(w)
  PROVE  /\ flow' \in [Workers -> Flows \cup {Idle}]
         /\ \A v \in Workers, j \in Ids : Owns(v, j)' <=> Owns(v, j) /\ v # w
         /\ \A v \in Workers : v # w => flow'[v] = flow[v]
<1>1. \A v \in Workers : flow'[v] = IF v = w THEN Idle ELSE flow[v]
  BY DEF TypeOK, Return
<1>2. Idle.step = "idle"
  BY DEF Idle
<1>3. flow' \in [Workers -> Flows \cup {Idle}]
  BY DEF TypeOK, Return
<1> QED BY <1>1, <1>2, <1>3 DEF Owns

\* A handler that goes on keeps its credential.
LEMMA GotoOwns ==
  ASSUME TypeOK, NEW w \in Workers, flow[w] \in Flows,
         NEW step \in {"prove", "finish"}, Goto(w, step)
  PROVE  /\ flow' \in [Workers -> Flows \cup {Idle}]
         /\ \A v \in Workers, j \in Ids :
              Owns(v, j)' <=> Owns(v, j) \/ (v = w /\ j = Id(w))
         /\ flow'[w].step = step
         /\ \A v \in Workers : v # w => flow'[v] = flow[v]
<1>1. /\ \A v \in Workers : v # w => flow'[v] = flow[v]
      /\ flow'[w] = [flow[w] EXCEPT !.step = step]
  BY DEF TypeOK, Goto
<1>2. /\ flow'[w] \in Flows /\ flow'[w].step = step
      /\ flow'[w].id = flow[w].id
  BY <1>1 DEF Flows
<1>3. flow' \in [Workers -> Flows \cup {Idle}]
  BY <1>2, <1>1 DEF TypeOK, Goto
<1> QED BY <1>1, <1>2, <1>3 DEF Owns, Id

LEMMA InitInv == Init => IInv
<1> SUFFICES ASSUME Init PROVE IInv
  OBVIOUS
<1>1. TypeOK
  BY LoginAssumption DEF Init, TypeOK, Times
<1>2. \A w \in Workers, i \in Ids : ~Owns(w, i)
  BY DEF Init, Owns, Idle
<1>3. Unspent
  BY DEF Init, Unspent
<1> QED BY <1>1, <1>2, <1>3 DEF IInv, SoleOwner
-----------------------------------------------------------------------------
(* One lemma per kind of step.                                             *)

LEMMA IssueInv ==
  ASSUME IInv, NEW i \in Ids, issue(i), stash' \subseteq Siwe
  PROVE  IInv'
<1>0. TypeOK /\ SoleOwner /\ Unspent
  BY DEF IInv
<1>1. clock + TTL \in 0..(MaxTime + TTL)
  BY <1>0, LoginAssumption DEF TypeOK, Times
<1>2. TypeOK'
  BY <1>0, <1>1 DEF issue, TypeOK
<1>3. /\ \A j \in Ids : j # i => tok'[j] = tok[j] /\ status'[j] = status[j]
      /\ tok[i] = "absent" /\ tok'[i] = "open"
      /\ UNCHANGED <<flow, minted, sessions>>
  BY <1>0 DEF issue, TypeOK
<1>4. SoleOwner'
  BY <1>0, <1>3 DEF SoleOwner, Owns, At
<1>5. Unspent'
  BY <1>0, <1>3 DEF Unspent
<1> QED BY <1>2, <1>4, <1>5 DEF IInv

LEMMA EnterInv ==
  ASSUME IInv, NEW w \in Workers, NEW i \in Ids, Enter(w, i), stash' \subseteq Siwe
  PROVE  IInv'
<1>0. TypeOK /\ SoleOwner /\ Unspent
  BY DEF IInv
<1> DEFINE new == [step |-> "consume", id |-> i, now |-> clock]
<1>1. new \in Flows /\ new.step = "consume" /\ Idle.step = "idle"
  BY <1>0 DEF TypeOK, Flows, Idle
<1>2. /\ flow' = [flow EXCEPT ![w] = new] /\ flow[w] = Idle
      /\ UNCHANGED <<tok, expires, status, clock, crashes, minted, sessions>>
  BY DEF Enter
<1> HIDE DEF new
<1>3. TypeOK'
  BY <1>0, <1>1, <1>2 DEF TypeOK
<1>4. \A v \in Workers : flow'[v] = IF v = w THEN new ELSE flow[v]
  BY <1>0, <1>2 DEF TypeOK
<1>5. SoleOwner'
  BY <1>0, <1>1, <1>2, <1>4 DEF SoleOwner, Owns, At
<1>6. Unspent'
  BY <1>0, <1>2 DEF Unspent
<1> QED BY <1>3, <1>5, <1>6 DEF IInv

LEMMA ConsumeInv ==
  ASSUME IInv, NEW w \in Workers, consume(w)
  PROVE  IInv'
<1>0. TypeOK /\ SoleOwner /\ Unspent
  BY DEF IInv
<1>1. flow[w].step = "consume" /\ flow[w] \in Flows /\ Id(w) \in Ids
  BY <1>0, FlowKind DEF consume, At
<1>2. UNCHANGED <<expires, status, stash, clock, crashes, minted, sessions>>
  BY DEF consume
<1>3. CASE Consumable(Id(w), flow[w].now)
  <2>1. /\ Goto(w, "prove") /\ tok[Id(w)] = "open"
        /\ tok' = [tok EXCEPT ![Id(w)] = "consumed"]
    BY <1>3 DEF consume, Consumable
  <2>2. /\ flow' \in [Workers -> Flows \cup {Idle}]
        /\ \A v \in Workers, j \in Ids :
             Owns(v, j)' <=> Owns(v, j) \/ (v = w /\ j = Id(w))
        /\ \A v \in Workers : v # w => flow'[v] = flow[v]
    BY <1>0, <1>1, <2>1, GotoOwns
  <2>3. TypeOK'
    BY <1>0, <1>2, <2>1, <2>2 DEF TypeOK
  <2>4. \A j \in Ids : tok'[j] = IF j = Id(w) THEN "consumed" ELSE tok[j]
    BY <1>0, <2>1 DEF TypeOK
  <2>5. \A v \in Workers : ~Owns(v, Id(w))
    BY <1>0, <1>1, <2>1 DEF SoleOwner
  <2>6. minted[Id(w)] = 0 /\ sessions[Id(w)] = 0
    BY <1>0, <1>1, <2>1 DEF Unspent
  <2>7. SoleOwner'
    <3> SUFFICES ASSUME NEW v \in Workers, NEW j \in Ids, Owns(v, j)'
                 PROVE  /\ tok'[j] = "consumed" /\ sessions[j] = 0
                        /\ At(v, "prove")' => minted[j] = 0
                        /\ \A u \in Workers : Owns(u, j)' => u = v
      BY <1>2 DEF SoleOwner
    <3>1. CASE j = Id(w)
      BY <2>2, <2>4, <2>5, <2>6, <3>1
    <3>2. CASE j # Id(w)
      <4>1. Owns(v, j) /\ v # w
        BY <1>1, <2>2, <3>2 DEF Owns, Id
      <4> QED BY <1>0, <2>2, <2>4, <3>2, <4>1 DEF SoleOwner, At
    <3> QED BY <3>1, <3>2
  <2>8. Unspent'
    BY <1>0, <1>2, <2>4 DEF Unspent
  <2> QED BY <2>3, <2>7, <2>8 DEF IInv
<1>4. CASE ~Consumable(Id(w), flow[w].now)
  <2>1. Return(w) /\ UNCHANGED tok
    BY <1>4 DEF consume
  <2>2. /\ flow' \in [Workers -> Flows \cup {Idle}]
        /\ \A v \in Workers, j \in Ids : Owns(v, j)' <=> Owns(v, j) /\ v # w
        /\ \A v \in Workers : v # w => flow'[v] = flow[v]
    BY <1>0, <2>1, ReturnOwns
  <2>3. TypeOK'
    BY <1>0, <1>2, <2>1, <2>2 DEF TypeOK
  <2>4. SoleOwner'
    BY <1>0, <1>2, <2>1, <2>2 DEF SoleOwner, At
  <2>5. Unspent'
    BY <1>0, <1>2, <2>1 DEF Unspent
  <2> QED BY <2>3, <2>4, <2>5 DEF IInv
<1> QED BY <1>3, <1>4

LEMMA MintInv ==
  ASSUME IInv, NEW w \in Workers, mint_session_jwt(w)
  PROVE  IInv'
<1>0. TypeOK /\ SoleOwner /\ Unspent
  BY DEF IInv
<1>1. flow[w].step = "prove" /\ flow[w] \in Flows /\ Id(w) \in Ids
  BY <1>0, FlowKind DEF mint_session_jwt, At
<1>2. /\ UNCHANGED <<tok, expires, status, stash, clock, crashes, sessions>>
      /\ minted' = [minted EXCEPT ![Id(w)] = @ + 1] /\ Goto(w, "finish")
  BY DEF mint_session_jwt
<1>3. Owns(w, Id(w))
  BY <1>1 DEF Owns, Id
<1>4. /\ flow' \in [Workers -> Flows \cup {Idle}] /\ flow'[w].step = "finish"
      /\ \A v \in Workers, j \in Ids : Owns(v, j)' <=> Owns(v, j)
      /\ \A v \in Workers : v # w => flow'[v] = flow[v]
  BY <1>0, <1>1, <1>2, <1>3, GotoOwns
<1>5. minted[Id(w)] = 0 /\ tok[Id(w)] = "consumed"
  BY <1>0, <1>1, <1>3 DEF SoleOwner, At
<1>6. \A j \in Ids : minted'[j] = IF j = Id(w) THEN 1 ELSE minted[j]
  BY <1>0, <1>2, <1>5 DEF TypeOK
<1>7. minted' \in [Ids -> {0, 1}]
  BY <1>0, <1>2, <1>6 DEF TypeOK
<1>8. TypeOK'
  BY <1>0, <1>2, <1>4, <1>7 DEF TypeOK
<1>9. SoleOwner'
  <2> SUFFICES ASSUME NEW v \in Workers, NEW j \in Ids, Owns(v, j)
               PROVE  /\ tok[j] = "consumed" /\ sessions[j] = 0
                      /\ At(v, "prove")' => minted'[j] = 0
                      /\ \A u \in Workers : Owns(u, j) => u = v
    BY <1>2, <1>4 DEF SoleOwner
  <2>1. j = Id(w) => v = w
    BY <1>0, <1>1, <1>3 DEF SoleOwner
  <2> QED BY <1>0, <1>4, <1>6, <2>1 DEF SoleOwner, At
<1>10. Unspent'
  BY <1>0, <1>2, <1>5, <1>6 DEF Unspent
<1> QED BY <1>8, <1>9, <1>10 DEF IInv

\* A handler ends, with a session from its credential or without.
LEMMA EndInv ==
  ASSUME IInv, NEW w \in Workers, flow[w].step \in {"prove", "finish"},
         \/ ProofFails(w) \/ NothingStaged(w) \/ mark_verified(w)
         \/ FinishFails(w) \/ Answer(w)
  PROVE  IInv'
<1>0. TypeOK /\ SoleOwner /\ Unspent
  BY DEF IInv
<1>1. flow[w] \in Flows /\ Id(w) \in Ids /\ Owns(w, Id(w))
  BY <1>0, FlowKind DEF Owns, Id
<1>2. Return(w) /\ UNCHANGED <<tok, expires, stash, clock, crashes, minted>>
  BY DEF ProofFails, NothingStaged, mark_verified, FinishFails, Answer
<1>3. /\ flow' \in [Workers -> Flows \cup {Idle}]
      /\ \A v \in Workers, j \in Ids : Owns(v, j)' <=> Owns(v, j) /\ v # w
      /\ \A v \in Workers : v # w => flow'[v] = flow[v]
  BY <1>0, <1>2, ReturnOwns
<1>4. sessions[Id(w)] = 0 /\ tok[Id(w)] = "consumed"
  BY <1>0, <1>1 DEF SoleOwner
<1>5. /\ status' \in [Ids -> {"none", "pending", "verified", "failed"}]
      /\ \A j \in Ids : j # Id(w) => status'[j] = status[j]
  <2>1. status' \in {status, MarkFailed(Id(w)), MarkVerified(Id(w))}
    BY DEF ProofFails, NothingStaged, mark_verified, FinishFails, Answer
  <2> QED BY <1>0, <1>1, <2>1 DEF MarkFailed, MarkVerified, TypeOK
<1>6. sessions' = sessions \/ sessions' = [sessions EXCEPT ![Id(w)] = @ + 1]
  BY DEF ProofFails, NothingStaged, mark_verified, FinishFails, Answer
<1>7. /\ sessions' \in [Ids -> {0, 1}]
      /\ \A j \in Ids : j # Id(w) => sessions'[j] = sessions[j]
  BY <1>0, <1>1, <1>4, <1>6 DEF TypeOK
<1>8. TypeOK'
  BY <1>0, <1>2, <1>3, <1>5, <1>7 DEF TypeOK
<1>9. SoleOwner'
  <2> SUFFICES ASSUME NEW v \in Workers, NEW j \in Ids, Owns(v, j), v # w
               PROVE  /\ tok[j] = "consumed" /\ sessions'[j] = 0
                      /\ At(v, "prove")' => minted[j] = 0
                      /\ \A u \in Workers : Owns(u, j) => u = v
    BY <1>2, <1>3 DEF SoleOwner
  <2>1. j # Id(w)
    BY <1>0, <1>1 DEF SoleOwner
  <2> QED BY <1>0, <1>3, <1>7, <2>1 DEF SoleOwner, At
<1>10. Unspent'
  BY <1>0, <1>2, <1>4, <1>5, <1>7 DEF Unspent
<1> QED BY <1>8, <1>9, <1>10 DEF IInv

LEMMA ProviderErrorInv ==
  ASSUME IInv, NEW i \in States, ProviderError(i)
  PROVE  IInv'
<1>0. TypeOK /\ SoleOwner /\ Unspent /\ i \in Ids
  BY DEF IInv, Ids, Polled
<1>1. /\ status' \in [Ids -> {"none", "pending", "verified", "failed"}]
      /\ \A j \in Ids : tok[j] = "absent" => status'[j] = status[j]
      /\ UNCHANGED <<tok, expires, stash, flow, clock, crashes, minted, sessions>>
  BY <1>0 DEF ProviderError, MarkFailed, TypeOK
<1> QED BY <1>0, <1>1 DEF IInv, TypeOK, SoleOwner, Unspent, Owns, At

LEMMA CrashInv ==
  ASSUME IInv, Crash
  PROVE  IInv' /\ \A w \in Workers, i \in Ids : ~Owns(w, i)'
<1>0. TypeOK /\ SoleOwner /\ Unspent
  BY DEF IInv
<1>1. /\ flow' = [w \in Workers |-> Idle] /\ crashes' \in 0..MaxCrashes
      /\ stash' = {} /\ UNCHANGED <<tok, expires, status, clock, minted, sessions>>
  BY <1>0, LoginAssumption DEF Crash, TypeOK
<1>2. TypeOK'
  BY <1>0, <1>1 DEF TypeOK
<1>3. \A w \in Workers, i \in Ids : ~Owns(w, i)'
  BY <1>1 DEF Owns, Idle
<1> QED BY <1>0, <1>1, <1>2, <1>3 DEF IInv, SoleOwner, Unspent

LEMMA NextInv == IInv /\ [Next]_vars => IInv'
<1> SUFFICES ASSUME IInv, [Next]_vars PROVE IInv'
  OBVIOUS
<1>0. stash \subseteq Siwe
  BY DEF IInv, TypeOK
<1>1. ASSUME NEW i \in Ids,
             \/ email_link_challenge(i) \/ oauth2_challenge(i)
             \/ passkey_start(i) \/ siwe_challenge(i)
      PROVE  IInv'
  BY <1>0, <1>1, IssueInv
     DEF email_link_challenge, oauth2_challenge, passkey_start, siwe_challenge
<1>2. ASSUME NEW w \in Workers, NEW i \in Ids,
             \/ email_verify(w, i) \/ oauth2_callback(w, i)
             \/ passkey_verify(w, i) \/ wallet_verify(w, i)
      PROVE  IInv'
  BY <1>0, <1>2, EnterInv
     DEF email_verify, oauth2_callback, passkey_verify, wallet_verify
<1>3. ASSUME NEW w \in Workers, Step(w)
      PROVE  IInv'
  BY <1>3, ConsumeInv, MintInv, EndInv
     DEF Step, ProofFails, NothingStaged, mark_verified, FinishFails, Answer, At
<1>4. CASE Tick
  <2>1. clock' \in Times
    BY <1>4, LoginAssumption DEF IInv, TypeOK, Tick, Times
  <2> QED BY <1>4, <2>1 DEF IInv, TypeOK, SoleOwner, Unspent, Owns, At, Tick
<1>5. CASE UNCHANGED vars
  BY <1>5 DEF IInv, TypeOK, SoleOwner, Unspent, Owns, At, vars
<1> QED BY <1>1, <1>2, <1>3, <1>4, <1>5, ProviderErrorInv, CrashInv DEF Next

LEMMA Inductive == Spec => []IInv
BY InitInv, NextInv, PTL DEF Spec

\* At most one session token is minted, and at most one session handed out,
\* from a credential of any of the four kinds, whatever handlers race for it
\* and wherever the broker dies (email_tokens.rs:164, oauth_pending.rs:153).
THEOREM TypeCorrect == Spec => []TypeOK
<1>1. IInv => TypeOK
  BY DEF IInv
<1> QED BY <1>1, Inductive, PTL

\* What a CLI polls is final.  No provider error, replayed callback or crash
\* takes back a login that was staged, and none stages a session once the row
\* has failed: mark_failed and mark_verified look for a pending row, and a row
\* is inserted once (email_tokens.rs:224, oauth_pending.rs:224).
THEOREM OutcomeStands == Spec => OutcomeIsFinal
<1> DEFINE A == \A i \in Ids :
                  status[i] \in {"verified", "failed"} => status'[i] = status[i]
<1>1. IInv /\ [Next]_vars => [A]_vars
  <2> SUFFICES ASSUME IInv, Next, NEW i \in Ids, status[i] \in {"verified", "failed"}
               PROVE  status'[i] = status[i]
    OBVIOUS
  <2>0. TypeOK /\ tok[i] # "absent"
    BY DEF IInv, Unspent
  <2>1. ASSUME NEW j \in Ids, issue(j)
        PROVE  status'[i] = status[i]
    BY <2>0, <2>1 DEF issue, TypeOK
  <2>2. ASSUME NEW j \in Ids, status' \in {status, MarkFailed(j), MarkVerified(j)}
        PROVE  status'[i] = status[i]
    BY <2>0, <2>2 DEF MarkFailed, MarkVerified, TypeOK
  <2>3. ASSUME NEW w \in Workers, mark_verified(w) \/ ProofFails(w)
        PROVE  status'[i] = status[i]
    <3>1. Id(w) \in Ids
      BY <2>0, <2>3, FlowKind DEF mark_verified, ProofFails, At
    <3> QED BY <2>2, <2>3, <3>1 DEF mark_verified, ProofFails
  <2>4. ASSUME NEW j \in States, ProviderError(j)
        PROVE  status'[i] = status[i]
    BY <2>2, <2>4 DEF ProviderError, Ids, Polled
  <2> QED BY <2>1, <2>3, <2>4
          DEF Next, Step, Tick, Crash, Enter, consume, mint_session_jwt, NothingStaged,
              FinishFails, Answer, email_verify, oauth2_callback, passkey_verify,
              wallet_verify, email_link_challenge, oauth2_challenge, passkey_start,
              siwe_challenge
<1> HIDE DEF A
<1>2. Spec => [][A]_vars
  BY <1>1, Inductive, PTL DEF Spec
<1> QED BY <1>2 DEF OutcomeIsFinal, A
-----------------------------------------------------------------------------
(* The refinement of OneShot.                                              *)

LEMMA StandsStill ==
  ASSUME NEW i \in Ids, tok'[i] = tok[i], sessions'[i] = sessions[i],
         \A w \in Workers : Owns(w, i)' <=> Owns(w, i)
  PROVE  Standing(i)' = Standing(i)
BY DEF Standing

LEMMA OwnedStands ==
  ASSUME IInv, NEW w \in Workers, NEW i \in Ids, Owns(w, i)
  PROVE  Standing(i) = "owned"
<1>1. tok[i] = "consumed" /\ sessions[i] = 0
  BY DEF IInv, SoleOwner
<1> QED BY <1>1 DEF Standing

\* One credential moves and the others stand still.
LEMMA OneMoves ==
  ASSUME NEW i \in Ids, \A j \in Ids : j # i => Standing(j)' = Standing(j)
  PROVE  /\ standing[i] = Standing(i)
         /\ standing' = [standing EXCEPT ![i] = Standing(i)']
BY DEF standing

LEMMA NothingMoves ==
  ASSUME \A j \in Ids : Standing(j)' = Standing(j)
  PROVE  UNCHANGED standing
BY DEF standing

\* Owners in S lose what they own, and all other credentials stand still.
LEMMA SomeDrop ==
  ASSUME IInv, NEW S \in SUBSET Ids,
         \A i \in S : Standing(i) = "owned" /\ Standing(i)' = "dropped",
         \A i \in Ids \ S : Standing(i)' = Standing(i)
  PROVE  O!OneShotNext
<1>1. O!Drop(S)
  BY DEF O!Drop, standing
<1> QED BY <1>1 DEF O!OneShotNext

LEMMA IssueRefines ==
  ASSUME IInv, NEW i \in Ids, issue(i)
  PROVE  O!OneShotNext
<1>0. TypeOK /\ sessions[i] = 0
  BY DEF IInv, Unspent, issue
<1>1. /\ tok[i] = "absent" /\ tok'[i] = "open"
      /\ \A j \in Ids : j # i => tok'[j] = tok[j]
      /\ UNCHANGED <<flow, sessions>>
  BY <1>0 DEF issue, TypeOK
<1>2. Standing(i) = "absent" /\ Standing(i)' = "open"
  BY <1>0, <1>1 DEF Standing
<1>3. \A j \in Ids : j # i => Standing(j)' = Standing(j)
  BY <1>1 DEF Standing, Owns
<1>4. O!Issue(i)
  BY <1>2, <1>3, OneMoves DEF O!Issue
<1> QED BY <1>4 DEF O!OneShotNext

LEMMA EnterRefines ==
  ASSUME IInv, NEW w \in Workers, NEW i \in Ids, Enter(w, i)
  PROVE  UNCHANGED standing
<1>1. /\ \A v \in Workers : v # w => flow'[v] = flow[v]
      /\ flow[w] = Idle
      /\ flow'[w] = [step |-> "consume", id |-> i, now |-> clock]
      /\ UNCHANGED <<tok, sessions>>
  BY DEF IInv, TypeOK, Enter
<1>2. \A j \in Ids, v \in Workers : Owns(v, j)' <=> Owns(v, j)
  BY <1>1 DEF Owns, Idle
<1> QED BY <1>1, <1>2, StandsStill, NothingMoves

LEMMA ConsumeRefines ==
  ASSUME IInv, NEW w \in Workers, consume(w)
  PROVE  O!OneShotNext \/ UNCHANGED standing
<1>0. TypeOK /\ SoleOwner /\ Unspent
  BY DEF IInv
<1>1. flow[w].step = "consume" /\ flow[w] \in Flows /\ Id(w) \in Ids
  BY <1>0, FlowKind DEF consume, At
<1>2. \A j \in Ids : ~Owns(w, j)
  BY <1>1 DEF Owns
<1>3. CASE Consumable(Id(w), flow[w].now)
  <2>0. PICK i \in Ids : i = Id(w)
    BY <1>1
  <2>1. /\ Goto(w, "prove") /\ tok[i] = "open" /\ UNCHANGED sessions
        /\ tok' = [tok EXCEPT ![i] = "consumed"]
    BY <1>3, <2>0 DEF consume, Consumable
  <2>2. \A v \in Workers, j \in Ids :
          Owns(v, j)' <=> Owns(v, j) \/ (v = w /\ j = i)
    BY <1>0, <1>1, <2>0, <2>1, GotoOwns
  <2>3. \A j \in Ids : tok'[j] = IF j = i THEN "consumed" ELSE tok[j]
    BY <1>0, <2>1 DEF TypeOK
  <2>4. sessions[i] = 0
    BY <1>0, <2>1 DEF Unspent
  <2>5. Standing(i) = "open" /\ Standing(i)' = "owned"
    BY <2>1, <2>2, <2>3, <2>4 DEF Standing
  <2>6. \A j \in Ids : j # i => Standing(j)' = Standing(j)
    BY <2>1, <2>2, <2>3, StandsStill
  <2>7. O!Own(i)
    BY <2>5, <2>6, OneMoves DEF O!Own
  <2> QED BY <2>7 DEF O!OneShotNext
<1>4. CASE ~Consumable(Id(w), flow[w].now)
  <2>1. Return(w) /\ UNCHANGED <<tok, sessions>>
    BY <1>4 DEF consume
  <2>2. \A v \in Workers, j \in Ids : Owns(v, j)' <=> Owns(v, j)
    BY <1>0, <1>2, <2>1, ReturnOwns
  <2> QED BY <2>1, <2>2, StandsStill, NothingMoves
<1> QED BY <1>3, <1>4

LEMMA MintRefines ==
  ASSUME IInv, NEW w \in Workers, mint_session_jwt(w)
  PROVE  UNCHANGED standing
<1>0. TypeOK
  BY DEF IInv
<1>1. flow[w].step = "prove" /\ flow[w] \in Flows /\ Id(w) \in Ids
  BY <1>0, FlowKind DEF mint_session_jwt, At
<1>2. Goto(w, "finish") /\ UNCHANGED <<tok, sessions>> /\ Owns(w, Id(w))
  BY <1>1 DEF mint_session_jwt, Owns, Id
<1>3. \A v \in Workers, j \in Ids : Owns(v, j)' <=> Owns(v, j)
  BY <1>0, <1>1, <1>2, GotoOwns
<1> QED BY <1>2, <1>3, StandsStill, NothingMoves

\* The owner's last step grants its credential or drops it.
LEMMA EndRefines ==
  ASSUME IInv, NEW w \in Workers, flow[w].step \in {"prove", "finish"},
         \/ ProofFails(w) \/ NothingStaged(w) \/ mark_verified(w)
         \/ FinishFails(w) \/ Answer(w)
  PROVE  O!OneShotNext
<1>0. TypeOK /\ SoleOwner
  BY DEF IInv
<1>1. PICK i \in Ids : i = Id(w) /\ Owns(w, i)
  BY <1>0, FlowKind DEF Owns, Id
<1>2. /\ Return(w) /\ UNCHANGED tok
      /\ sessions' = sessions \/ sessions' = [sessions EXCEPT ![i] = @ + 1]
  BY <1>1 DEF ProofFails, NothingStaged, mark_verified, FinishFails, Answer
<1>3. \A v \in Workers, j \in Ids : Owns(v, j)' <=> Owns(v, j) /\ v # w
  BY <1>0, <1>2, ReturnOwns
<1>4. /\ sessions[i] = 0 /\ tok[i] = "consumed"
      /\ \A v \in Workers : ~Owns(v, i)'
  BY <1>0, <1>1, <1>3 DEF SoleOwner
<1>5. \A j \in Ids : j # i => ~Owns(w, j)
  BY <1>1 DEF Owns, Id
<1>6. \A j \in Ids : j # i => sessions'[j] = sessions[j]
  BY <1>0, <1>2 DEF TypeOK
<1>7. \A j \in Ids : j # i => Standing(j)' = Standing(j)
  BY <1>2, <1>3, <1>5, <1>6, StandsStill
<1>8. Standing(i) = "owned"
  BY <1>1, OwnedStands
<1>9. CASE sessions' = sessions
  <2>1. Standing(i)' = "dropped"
    BY <1>2, <1>4, <1>9 DEF Standing
  <2>2. {i} \in SUBSET Ids
    OBVIOUS
  <2> QED BY <1>7, <1>8, <2>1, <2>2, SomeDrop
<1>10. CASE sessions' = [sessions EXCEPT ![i] = @ + 1]
  <2>1. sessions'[i] = 1
    BY <1>0, <1>1, <1>4, <1>10 DEF TypeOK
  <2>2. Standing(i)' = "granted"
    BY <2>1 DEF Standing
  <2>3. O!Grant(i)
    BY <1>1, <1>7, <1>8, <2>2, OneMoves DEF O!Grant
  <2> QED BY <1>1, <2>3 DEF O!OneShotNext
<1> QED BY <1>2, <1>9, <1>10

LEMMA CrashRefines ==
  ASSUME IInv, Crash
  PROVE  O!OneShotNext
<1> DEFINE S == {i \in Ids : \E w \in Workers : Owns(w, i)}
<1>1. UNCHANGED <<tok, sessions>> /\ \A w \in Workers, i \in Ids : ~Owns(w, i)'
  BY CrashInv DEF Crash
<1>2. \A i \in S : tok[i] = "consumed" /\ sessions[i] = 0
  BY DEF IInv, SoleOwner
<1>3. \A i \in S : Standing(i) = "owned" /\ Standing(i)' = "dropped"
  BY <1>1, <1>2 DEF Standing
<1>4. \A i \in Ids \ S : Standing(i)' = Standing(i)
  BY <1>1, StandsStill
<1>5. S \in SUBSET Ids
  OBVIOUS
<1> HIDE DEF S
<1> QED BY <1>3, <1>4, <1>5, SomeDrop

\* Magic links, OAuth states, SIWE nonces and passkey challenges are one-shot
\* credentials: each step of the stores and handlers of Login is a step of the
\* abstract credential, or none (auth_nonces.rs:114, email_tokens.rs:164,
\* oauth_pending.rs:153).
THEOREM LoginRefines == Spec => OneShotCredentials
<1>1. Init => O!OneShotInit
  <2> SUFFICES ASSUME Init PROVE standing = [i \in Ids |-> "absent"]
    BY DEF O!OneShotInit
  <2>1. \A i \in Ids : sessions[i] = 0 /\ tok[i] = "absent"
    BY DEF Init
  <2> QED BY <2>1 DEF standing, Standing
<1>2. IInv /\ [Next]_vars => [O!OneShotNext]_standing
  <2> SUFFICES ASSUME IInv, [Next]_vars
               PROVE  O!OneShotNext \/ UNCHANGED standing
    OBVIOUS
  <2>1. ASSUME NEW i \in Ids,
               \/ email_link_challenge(i) \/ oauth2_challenge(i)
               \/ passkey_start(i) \/ siwe_challenge(i)
        PROVE  O!OneShotNext
    BY <2>1, IssueRefines
       DEF email_link_challenge, oauth2_challenge, passkey_start, siwe_challenge
  <2>2. ASSUME NEW w \in Workers, NEW i \in Ids,
               \/ email_verify(w, i) \/ oauth2_callback(w, i)
               \/ passkey_verify(w, i) \/ wallet_verify(w, i)
        PROVE  UNCHANGED standing
    BY <2>2, EnterRefines
       DEF email_verify, oauth2_callback, passkey_verify, wallet_verify
  <2>3. ASSUME NEW w \in Workers, Step(w)
        PROVE  O!OneShotNext \/ UNCHANGED standing
    BY <2>3, ConsumeRefines, MintRefines, EndRefines
       DEF Step, ProofFails, NothingStaged, mark_verified, FinishFails, Answer, At
  <2>4. UNCHANGED <<tok, sessions, flow>> => UNCHANGED standing
    BY DEF standing, Standing, Owns
  <2>5. ASSUME NEW i \in States, ProviderError(i)
        PROVE  UNCHANGED standing
    BY <2>4, <2>5 DEF ProviderError
  <2>6. CASE Tick \/ UNCHANGED vars
    BY <2>4, <2>6 DEF Tick, vars
  <2> QED BY <2>1, <2>2, <2>3, <2>5, <2>6, CrashRefines DEF Next
<1> QED BY <1>1, <1>2, Inductive, PTL DEF Spec, OneShotCredentials, O!OneShotSpec
=============================================================================
