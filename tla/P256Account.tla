----------------------------- MODULE P256Account -----------------------------
(***************************************************************************)
(* The master account of an operator (crates/agentkeys-chain/src/          *)
(* P256Account.sol): its passkey signers, its recovery guardians, and the  *)
(* M-of-N recovery that replaces every signer at once.                     *)
(*                                                                         *)
(* The management functions run only through the EntryPoint, which first   *)
(* validates all the user operations of a bundle and then executes them    *)
(* one after the other: the signer that authorised an operation may be     *)
(* gone, and the counters it was written for may have moved, by the time   *)
(* it executes.  An operation that reverts is spent without effect.        *)
(* recover() is open to any sender at any time, a call made on behalf of   *)
(* another account in the middle of the same bundle included.              *)
(*                                                                         *)
(* A key stands for a passkey: its public key and its RP id.  One passkey  *)
(* may be enrolled under several credential ids.  execute/executeBatch     *)
(* calls to other contracts leave the account alone; a batch of calls to   *)
(* the account itself has the outcome of a bundle of the same calls by one *)
(* signer, or no effect.                                                   *)
(***************************************************************************)
EXTENDS Integers, Sequences, FiniteSets

CONSTANTS
  CredIds,       \* credIdHash values of signers
  GuardianIds,   \* guardianCredIdHash values
  Keys,          \* passkeys
  NoKey,         \* the zero public key of an absent entry
  Thresholds,    \* arguments explored for setRecoveryThreshold (uint8)
  MaxBundle,     \* bound: user operations of the account in one bundle
  MaxRecoveries, \* bound: recoveries explored
  MaxHeld        \* bound: guardian assertions in somebody's hands at a time

U8Max == 255

ASSUME AccountAssumption ==
  /\ IsFiniteSet(CredIds) /\ IsFiniteSet(GuardianIds)
  /\ NoKey \notin Keys
  /\ Thresholds \subseteq 0..U8Max
  /\ MaxBundle \in Nat /\ MaxRecoveries \in Nat /\ MaxHeld \in Nat

VARIABLES
  signers,             \* credIdHash -> Signer
  activeSignerCount,
  signerGeneration,
  guardians,           \* guardianCredIdHash -> Guardian
  activeGuardianCount,
  recoveryThreshold,
  recoveryNonce,
  bundle,              \* external: calls validated and not yet executed
  executing,           \* external: the bundle is past its validation phase
  held,                \* external: guardian assertions made and still held
  accepted,            \* history: assertions that counted in a recovery
  replayed,            \* history: the ones that counted a second time
  evicted              \* history: keys invalidated by a recovery and not
                       \* enrolled since

signerVars == <<signers, activeSignerCount, signerGeneration>>
guardianVars == <<guardians, activeGuardianCount, recoveryThreshold>>
entryPointVars == <<bundle, executing>>
assertionVars == <<held, accepted, replayed>>
vars == <<signerVars, guardianVars, recoveryNonce, entryPointVars,
          assertionVars, evicted>>

Signer == [key : Keys \cup {NoKey}, active : BOOLEAN, generation : Nat]
Guardian == [key : Keys \cup {NoKey}, active : BOOLEAN]

NoSigner == [key |-> NoKey, active |-> FALSE, generation |-> 0]
NoGuardian == [key |-> NoKey, active |-> FALSE]

\* The self-administration calls a user operation may carry.
Calls ==
       [fn : {"addSigner"}, cred : CredIds, key : Keys]
  \cup [fn : {"removeSigner"}, cred : CredIds]
  \cup [fn : {"addGuardian"}, guardian : GuardianIds, key : Keys]
  \cup [fn : {"removeGuardian"}, guardian : GuardianIds]
  \cup [fn : {"setRecoveryThreshold"}, threshold : Thresholds]

\* A guardian's signature: by its key, over the new signer and the nonce.
Assertions ==
  [by : Keys, cred : CredIds, key : Keys, nonce : 0..MaxRecoveries]

TypeOK ==
  /\ signers \in [CredIds -> Signer]
  /\ activeSignerCount \in Nat
  /\ signerGeneration \in Nat
  /\ guardians \in [GuardianIds -> Guardian]
  /\ activeGuardianCount \in Nat
  /\ recoveryThreshold \in 0..U8Max
  /\ recoveryNonce \in Nat
  /\ bundle \in Seq(Calls)
  /\ executing \in BOOLEAN
  /\ held \in SUBSET Assertions
  /\ accepted \subseteq held
  /\ replayed \subseteq held
  /\ evicted \subseteq Keys
-----------------------------------------------------------------------------
\* Mutant of signerActive: the generation is not compared.
ActiveInAnyGeneration(s) == s.active

\* _signerActive
signerActive(s) == s.active /\ s.generation = signerGeneration

LiveSigners == {c \in CredIds : signerActive(signers[c])}
ActiveGuardians == {g \in GuardianIds : guardians[g].active}

Init ==
  /\ \E c \in CredIds, k \in Keys :
       signers = [x \in CredIds |->
                    IF x = c THEN [key |-> k, active |-> TRUE, generation |-> 0]
                             ELSE NoSigner]
  /\ activeSignerCount = 1
  /\ signerGeneration = 0
  /\ guardians = [g \in GuardianIds |-> NoGuardian]
  /\ activeGuardianCount = 0
  /\ recoveryThreshold = 0
  /\ recoveryNonce = 0
  /\ bundle = <<>>
  /\ executing = FALSE
  /\ held = {} /\ accepted = {} /\ replayed = {}
  /\ evicted = {}

\* Validation phase: the EntryPoint takes an operation with a fresh nonce whose
\* assertion is by the key of a live signer (checkUserOpSignature); an invalid
\* one makes the EntryPoint drop the whole bundle.
validateUserOp(c, call) ==
  /\ ~executing
  /\ Len(bundle) < MaxBundle
  /\ signerActive(signers[c])
  /\ bundle' = Append(bundle, call)
  /\ UNCHANGED <<signerVars, guardianVars, recoveryNonce, executing,
                 assertionVars, evicted>>

\* Mutant of Reverts: the last signer may go.
RevertsButForLast(call) ==
  \/ call.fn = "addSigner" /\ signerActive(signers[call.cred])
  \/ call.fn = "removeSigner" /\ ~signerActive(signers[call.cred])
  \/ call.fn = "addGuardian" /\ guardians[call.guardian].active
  \/ call.fn = "removeGuardian" /\ ~guardians[call.guardian].active
  \/ call.fn = "setRecoveryThreshold" /\ call.threshold > activeGuardianCount

\* SignerExists, UnknownSigner, LastSigner, GuardianExists, UnknownGuardian,
\* ThresholdTooHigh
Reverts(call) ==
  \/ call.fn = "addSigner" /\ signerActive(signers[call.cred])
  \/ /\ call.fn = "removeSigner"
     /\ ~signerActive(signers[call.cred]) \/ activeSignerCount <= 1
  \/ call.fn = "addGuardian" /\ guardians[call.guardian].active
  \/ call.fn = "removeGuardian" /\ ~guardians[call.guardian].active
  \/ call.fn = "setRecoveryThreshold" /\ call.threshold > activeGuardianCount

addSigner(call) ==
  /\ call.fn = "addSigner"
  /\ signers' = [signers EXCEPT ![call.cred] =
                   [key |-> call.key, active |-> TRUE,
                    generation |-> signerGeneration]]
  /\ activeSignerCount' = activeSignerCount + 1
  /\ evicted' = evicted \ {call.key}
  /\ UNCHANGED <<signerGeneration, guardianVars>>

removeSigner(call) ==
  /\ call.fn = "removeSigner"
  /\ signers' = [signers EXCEPT ![call.cred].active = FALSE]
  /\ activeSignerCount' = activeSignerCount - 1
  /\ UNCHANGED <<signerGeneration, guardianVars, evicted>>

addGuardian(call) ==
  /\ call.fn = "addGuardian"
  /\ guardians' = [guardians EXCEPT ![call.guardian] =
                     [key |-> call.key, active |-> TRUE]]
  /\ activeGuardianCount' = activeGuardianCount + 1
  /\ UNCHANGED <<signerVars, recoveryThreshold, evicted>>

\* Mutant of ThresholdFor: the threshold is left as it was.
ThresholdUnclamped(count) == recoveryThreshold

ThresholdFor(count) == IF recoveryThreshold > count THEN count ELSE recoveryThreshold

removeGuardian(call) ==
  /\ call.fn = "removeGuardian"
  /\ guardians' = [guardians EXCEPT ![call.guardian].active = FALSE]
  /\ activeGuardianCount' = activeGuardianCount - 1
  /\ recoveryThreshold' = ThresholdFor(activeGuardianCount - 1)
  /\ UNCHANGED <<signerVars, evicted>>

setRecoveryThreshold(call) ==
  /\ call.fn = "setRecoveryThreshold"
  /\ recoveryThreshold' = call.threshold
  /\ UNCHANGED <<signerVars, guardians, activeGuardianCount, evicted>>

\* Execution phase: the next operation of the bundle takes effect or reverts.
execute ==
  LET call == Head(bundle) IN
  /\ bundle # <<>>
  /\ bundle' = Tail(bundle)
  /\ executing' = (Len(bundle) > 1)
  /\ \/ Reverts(call) /\ UNCHANGED <<signerVars, guardianVars, evicted>>
     \/ /\ ~Reverts(call)
        /\ \/ addSigner(call) \/ removeSigner(call)
           \/ addGuardian(call) \/ removeGuardian(call)
           \/ setRecoveryThreshold(call)
  /\ UNCHANGED <<recoveryNonce, assertionVars>>

\* External: whoever holds a passkey signs the recovery to a new signer, and
\* the assertion stays usable until nobody holds it any more.
SignRecovery(k, c, new) ==
  LET a == [by |-> k, cred |-> c, key |-> new, nonce |-> recoveryNonce] IN
  /\ recoveryNonce <= MaxRecoveries
  /\ Cardinality(held) < MaxHeld
  /\ held' = held \cup {a}
  /\ UNCHANGED <<signerVars, guardianVars, recoveryNonce, entryPointVars,
                 accepted, replayed, evicted>>

ForgetAssertion(a) ==
  /\ held' = held \ {a}
  /\ accepted' = accepted \ {a}
  /\ replayed' = replayed \ {a}
  /\ UNCHANGED <<signerVars, guardianVars, recoveryNonce, entryPointVars, evicted>>

\* Mutant of DistinctGuardians: only the credential ids are compared, which a
\* set of them already tells apart.
AnyGuardians(G) == TRUE

\* DuplicateGuardian: no passkey appears twice, under whatever credential ids.
DistinctGuardians(G) ==
  \A g, h \in G : guardians[g].key = guardians[h].key => g = h

\* The assertions of the guardians of G that verify over this challenge.
ValidAssertions(G, c, new) ==
  {a \in held : /\ \E g \in G : a.by = guardians[g].key
                /\ a.cred = c /\ a.key = new /\ a.nonce = recoveryNonce}

\* The guardians of G whose assertion verifies (nValid).
ValidGuardians(G, c, new) ==
  {g \in G : \E a \in ValidAssertions(G, c, new) : a.by = guardians[g].key}

\* Mutant of NextRecoveryNonce: the nonce is not consumed.
SameRecoveryNonce == recoveryNonce

NextRecoveryNonce == recoveryNonce + 1

\* G is the list of guardians submitted; one whose assertion does not verify
\* is passed over and does not count.
recover(c, new, G) ==
  LET valid == ValidAssertions(G, c, new) IN
  /\ recoveryNonce < MaxRecoveries
  /\ recoveryThreshold # 0
  /\ \A g \in G : guardians[g].active
  /\ DistinctGuardians(G)
  /\ Cardinality(ValidGuardians(G, c, new)) >= recoveryThreshold
  /\ recoveryNonce' = NextRecoveryNonce
  /\ signerGeneration' = signerGeneration + 1
  /\ signers' = [signers EXCEPT ![c] =
                   [key |-> new, active |-> TRUE,
                    generation |-> signerGeneration + 1]]
  /\ activeSignerCount' = 1
  /\ accepted' = accepted \cup valid
  /\ replayed' = replayed \cup (valid \cap accepted)
  /\ evicted' = (evicted \cup {signers[x].key : x \in LiveSigners}) \ {new}
  /\ UNCHANGED <<guardianVars, entryPointVars, held>>

Next ==
  \/ \E c \in CredIds, call \in Calls : validateUserOp(c, call)
  \/ execute
  \/ \E k, new \in Keys, c \in CredIds : SignRecovery(k, c, new)
  \/ \E a \in held : ForgetAssertion(a)
  \/ \E c \in CredIds, new \in Keys, G \in SUBSET GuardianIds : recover(c, new, G)

Spec == Init /\ [][Next]_vars
-----------------------------------------------------------------------------
\* "Count of live (current-generation, active) signers; never drops to zero"
\* (P256Account.sol:70): the counter that guards the last signer counts exactly
\* the live ones, across removals, re-enrolments and recoveries, so that no
\* bundle of operations, each valid when it was checked, locks the account.
SignersCounted == activeSignerCount = Cardinality(LiveSigners) /\ LiveSigners # {}

\* The guardian counter counts the active guardians and the threshold is never
\* above it, whatever order guardians come, go and the threshold is set in.
GuardiansCounted ==
  /\ activeGuardianCount = Cardinality(ActiveGuardians)
  /\ recoveryThreshold <= activeGuardianCount

\* recover "invalidat[es] every prior signer" (P256Account.sol:280): a key it
\* evicted authorises nothing until somebody enrols it again.
EvictedStayOut == \A c \in LiveSigners : signers[c].key \notin evicted

\* A guardian assertion counts in at most one recovery, however long it is kept
\* and whatever happens to signers, guardians and threshold in between
\* (recoveryNonce, P256Account.sol:81).
RecoveryAtMostOnce == replayed = {}

\* "one guardian must not satisfy an M>=2 quorum" (P256Account.sol:318): the
\* signers are replaced only by as many distinct passkeys as the threshold asks
\* for, each of them with an assertion that never counted before.
RecoveryNeedsQuorum ==
  [][signerGeneration' # signerGeneration =>
       Cardinality({a.by : a \in accepted' \ accepted}) >= recoveryThreshold]_vars
=============================================================================
