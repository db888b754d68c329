---------------------------- MODULE PairingProofs ----------------------------
(***************************************************************************)
(* Proofs about Pairing for any sets of devices, operators and request ids *)
(* and any time constants: type correctness, single retrieval, and the     *)
(* finality of claims and declines, under every interleaving of handlers   *)
(* with crashes and restarts.                                              *)
(***************************************************************************)
EXTENDS Pairing, TLAPS

LEMMA CallType ==
  ASSUME TypeOK, NEW call \in inflight
  PROVE  /\ call.id \in Requests
         /\ call.now \in Times
         /\ call.op \in {"issue", "poll"} => call.device \in Devices
         /\ call.op \in {"claim", "mark_bound"} => call.operator \in Operators
  BY DEF TypeOK, Calls

LEMMA RowType ==
  ASSUME TypeOK, NEW id \in Requests, Present(id)
  PROVE  rows[id] \in Row /\ WellFormed(rows[id])
  BY DEF TypeOK, Present, Opt

LEMMA NewRowType ==
  ASSUME NEW d \in Devices, NEW now \in Times
  PROVE  /\ NewRow(d, now) \in Row
         /\ NewRow(d, now) # None
         /\ WellFormed(NewRow(d, now))
<1>1. now + TTL \in 0..(MaxTime + TTL)
  BY PairingAssumption DEF Times
<1>2. NewRow(d, now) \in Row
  BY <1>1 DEF NewRow, Row, Opt
<1> QED BY <1>2, PairingAssumption DEF NewRow, WellFormed

LEMMA ClaimedRowType ==
  ASSUME NEW row \in Row, NEW now \in Times, NEW o \in Operators,
         WellFormed(row), row.claimed_at = None
  PROVE  LET new == [row EXCEPT !.claimed_at = now, !.operator_omni = o] IN
         /\ new \in Row
         /\ new # None
         /\ WellFormed(new)
<1> DEFINE new == [row EXCEPT !.claimed_at = now, !.operator_omni = o]
<1>1. new \in Row
  BY DEF Row, Opt
<1>2. now # None /\ o # None
  BY PairingAssumption DEF Times
<1>3. new.claimed_at = now /\ new.operator_omni = o
  BY DEF Row
<1> QED BY <1>1, <1>2, <1>3, PairingAssumption DEF WellFormed
-----------------------------------------------------------------------------
LEMMA TypeInit == Init => TypeOK
<1> SUFFICES ASSUME Init PROVE TypeOK
  OBVIOUS
<1>1. 0 \in Times
  BY PairingAssumption DEF Times
<1>2. ASSUME NEW d \in Devices, NEW o \in Operators
      PROVE  /\ LegacyRow(d, o) \in Row
             /\ LegacyRow(d, o) # None
             /\ WellFormed(LegacyRow(d, o))
  <2>1. NewRow(d, 0) \in Row /\ WellFormed(NewRow(d, 0))
    BY <1>1, NewRowType
  <2>2. NewRow(d, 0).claimed_at = None
    BY DEF NewRow
  <2> QED BY <1>1, <2>1, <2>2, ClaimedRowType DEF LegacyRow
<1>3. /\ rows \in [Requests -> Opt(Row)]
      /\ \A id \in Requests : rows[id] # None => WellFormed(rows[id])
  <2>1. CASE rows = [id \in Requests |-> None]
    BY <2>1 DEF Opt
  <2>2. CASE \E id \in Requests, d \in Devices, o \in Operators :
             \E row \in {NewRow(d, 0), LegacyRow(d, o)} :
               rows = [i \in Requests |-> IF i = id THEN row ELSE None]
    <3>1. PICK id \in Requests, d \in Devices, o \in Operators :
            \E row \in {NewRow(d, 0), LegacyRow(d, o)} :
              rows = [i \in Requests |-> IF i = id THEN row ELSE None]
      BY <2>2
    <3>2. PICK row \in {NewRow(d, 0), LegacyRow(d, o)} :
            rows = [i \in Requests |-> IF i = id THEN row ELSE None]
      BY <3>1
    <3>3. row \in Row /\ WellFormed(row)
      BY <1>1, <1>2, <3>2, NewRowType
    <3> QED BY <3>2, <3>3 DEF Opt
  <2> QED BY <2>1, <2>2 DEF Init
<1> QED BY <1>1, <1>3 DEF Init, TypeOK, Opt

LEMMA RowsEnter ==
  ASSUME TypeOK, NEW call \in Calls, NEW ids \in SUBSET Requests, Enter(call),
         used' = ids
  PROVE  TypeOK'
  BY DEF Enter, TypeOK, history

\* A step that leaves everything but rows typed keeps TypeOK if it keeps rows
\* typed.
RowsOK ==
  /\ rows \in [Requests -> Opt(Row)]
  /\ \A id \in Requests : rows[id] # None => WellFormed(rows[id])

LEMMA TypeNext ==
  ASSUME TypeOK, [Next]_vars
  PROVE  TypeOK'
<1>1. CASE open
  <2>1. ASSUME NEW id \in Requests
        PROVE  /\ Migrated[id] \in Opt(Row)
               /\ Migrated[id] # None => WellFormed(Migrated[id])
    <3>1. CASE Claimed(id) /\ rows[id].minted_at = None
      <4>1. rows[id] \in Row /\ WellFormed(rows[id])
        BY <3>1, RowType DEF Claimed
      <4>2. Migrated[id] = [rows[id] EXCEPT !.minted_at = rows[id].claimed_at]
        BY <3>1 DEF Migrated
      <4>3. Migrated[id] \in Row
        BY <4>1, <4>2 DEF Row
      <4> QED BY <3>1, <4>1, <4>2, <4>3 DEF WellFormed, Claimed, Opt, Row
    <3>2. CASE ~(Claimed(id) /\ rows[id].minted_at = None)
      BY <3>2 DEF Migrated, TypeOK
    <3> QED BY <3>1, <3>2
  <2>2. Migrated = [id \in Requests |-> Migrated[id]]
    BY DEF Migrated
  <2>3. RowsOK'
    BY <1>1, <2>1, <2>2 DEF open, RowsOK, TypeOK
  <2> QED BY <1>1, <2>3 DEF open, TypeOK, RowsOK, history
<1>2. CASE Crash
  BY <1>2 DEF Crash, TypeOK, db, history
<1>3. CASE Tick
  BY <1>3, PairingAssumption DEF Tick, TypeOK, Times, db, history
<1>4. ASSUME NEW d \in Devices, pairing_request(d)
      PROVE  TypeOK'
  <2>1. PICK id \in Requests \ used :
          /\ Enter([op |-> "issue", id |-> id, device |-> d, now |-> clock])
          /\ used' = used \cup {id}
    BY <1>4 DEF pairing_request
  <2>2. [op |-> "issue", id |-> id, device |-> d, now |-> clock] \in Calls
    BY DEF Calls, TypeOK
  <2>3. used \cup {id} \in SUBSET Requests
    BY DEF TypeOK
  <2> QED BY <2>1, <2>2, <2>3, RowsEnter
<1>5. ASSUME NEW d \in Devices, NEW id \in Requests, pairing_poll(d, id)
      PROVE  TypeOK'
  <2>1. [op |-> "poll", id |-> id, device |-> d, now |-> clock] \in Calls
    BY DEF Calls, TypeOK
  <2> QED BY <1>5, <2>1, RowsEnter DEF pairing_poll, TypeOK
<1>6. ASSUME NEW o \in Operators, NEW id \in Requests, pairing_claim(o, id)
      PROVE  TypeOK'
  <2>1. [op |-> "claim", id |-> id, operator |-> o, now |-> clock] \in Calls
    BY DEF Calls, TypeOK
  <2> QED BY <1>6, <2>1, RowsEnter DEF pairing_claim, TypeOK
<1>7. ASSUME NEW o \in Operators, NEW id \in Requests, ack_binding(o, id)
      PROVE  TypeOK'
  <2>1. [op |-> "mark_bound", id |-> id, operator |-> o, now |-> clock] \in Calls
    BY DEF Calls, TypeOK
  <2> QED BY <1>7, <2>1, RowsEnter DEF ack_binding, TypeOK
<1>8. ASSUME NEW o \in Operators, NEW id \in Requests, decline(o, id)
      PROVE  TypeOK'
  <2>1. RowsOK'
    BY <1>8 DEF decline, AfterDecline, RowsOK, TypeOK, Opt
  <2> QED BY <1>8, <2>1 DEF decline, TypeOK, RowsOK
<1>9. ASSUME NEW call \in inflight, issue(call)
      PROVE  TypeOK'
  <2>1. NewRow(call.device, call.now) \in Row /\ WellFormed(NewRow(call.device, call.now))
    BY <1>9, CallType, NewRowType DEF issue
  <2>2. RowsOK'
    BY <1>9, <2>1 DEF issue, RowsOK, TypeOK, Opt
  <2> QED BY <1>9, <2>2 DEF issue, Return, TypeOK, RowsOK, history
<1>10. ASSUME NEW call \in inflight, claim(call)
       PROVE  TypeOK'
  <2>1. CASE Claimable(call.id, call.now)
    <3> DEFINE new == [rows[call.id] EXCEPT !.claimed_at = call.now,
                                            !.operator_omni = call.operator]
    <3>1. call.id \in Requests /\ call.now \in Times /\ call.operator \in Operators
      BY <1>10, CallType DEF claim
    <3>2. /\ rows[call.id] \in Row /\ WellFormed(rows[call.id])
          /\ rows[call.id].claimed_at = None
      BY <2>1, <3>1, RowType DEF Claimable, Open
    <3>3. new \in Row /\ WellFormed(new)
      BY <3>1, <3>2, ClaimedRowType
    <3>4. rows' = [rows EXCEPT ![call.id] = new]
      BY <1>10, <2>1 DEF claim, TypeOK
    <3> HIDE DEF new
    <3>5. RowsOK'
      BY <3>1, <3>3, <3>4 DEF RowsOK, TypeOK, Opt
    <3> QED BY <1>10, <3>5 DEF claim, Return, TypeOK, RowsOK, history
  <2>2. CASE ~Claimable(call.id, call.now)
    BY <1>10, <2>2 DEF claim, Return, TypeOK, history
  <2> QED BY <2>1, <2>2
<1>11. ASSUME NEW call \in inflight, poll(call)
       PROVE  TypeOK'
  <2>1. CASE Mintable(call.id, call.device, call.now)
    <3> DEFINE new == [rows[call.id] EXCEPT !.minted_at = call.now]
    <3>1. call.id \in Requests /\ call.now \in Times
      BY <1>11, CallType
    <3>2. /\ rows[call.id] \in Row /\ WellFormed(rows[call.id])
          /\ rows[call.id].claimed_at # None
      BY <2>1, <3>1, RowType DEF Mintable, Claimed
    <3>3. new \in Row /\ WellFormed(new)
      BY <3>1, <3>2 DEF Row, Opt, WellFormed
    <3>4. rows' = [rows EXCEPT ![call.id] = new]
      BY <1>11, <2>1 DEF poll, Retrieved, TypeOK
    <3>5. minting' \subseteq Requests
      BY <1>11, <2>1, <3>1 DEF poll, TypeOK
    <3> HIDE DEF new
    <3>6. RowsOK'
      BY <3>1, <3>3, <3>4 DEF RowsOK, TypeOK, Opt
    <3> QED BY <1>11, <3>5, <3>6 DEF poll, Return, TypeOK, RowsOK, history
  <2>2. CASE ~Mintable(call.id, call.device, call.now)
    BY <1>11, <2>2 DEF poll, Return, TypeOK, history
  <2> QED BY <2>1, <2>2
<1>12. ASSUME NEW call \in inflight, mark_bound(call)
       PROVE  TypeOK'
  <2> DEFINE hit == /\ Claimed(call.id)
                    /\ rows[call.id].operator_omni = call.operator
                    /\ rows[call.id].bound_at = None
  <2>1. CASE hit
    <3> DEFINE new == [rows[call.id] EXCEPT !.bound_at = call.now]
    <3>1. call.id \in Requests /\ call.now \in Times
      BY <1>12, CallType
    <3>2. /\ rows[call.id] \in Row /\ WellFormed(rows[call.id])
          /\ rows[call.id].claimed_at # None
      BY <2>1, <3>1, RowType DEF Claimed
    <3>3. new \in Row /\ WellFormed(new)
      BY <3>1, <3>2 DEF Row, Opt, WellFormed
    <3>4. rows' = [rows EXCEPT ![call.id] = new]
      BY <1>12, <2>1 DEF mark_bound, TypeOK
    <3> HIDE DEF new
    <3>5. RowsOK'
      BY <3>1, <3>3, <3>4 DEF RowsOK, TypeOK, Opt
    <3> QED BY <1>12, <3>5 DEF mark_bound, Return, TypeOK, RowsOK, history
  <2>2. CASE ~hit
    BY <1>12, <2>2 DEF mark_bound, Return, TypeOK, history
  <2> QED BY <2>1, <2>2
<1>13. CASE purge_expired
  <2>1. RowsOK'
    BY <1>13 DEF purge_expired, RowsOK, TypeOK, Opt
  <2> QED BY <1>13, <2>1 DEF purge_expired, TypeOK, RowsOK, history
<1>14. CASE UNCHANGED vars
  BY <1>14 DEF vars, db, history, TypeOK
<1>15. ASSUME NEW id \in minting, mint_agent_session_jwt(id)
       PROVE  TypeOK'
  BY <1>15 DEF mint_agent_session_jwt, TypeOK, db
<1> QED
  BY <1>1, <1>2, <1>3, <1>4, <1>5, <1>6, <1>7, <1>8, <1>9, <1>10, <1>11, <1>12,
     <1>13, <1>14, <1>15
  DEF Next, Handlers, Store

\* Type correctness: every row is well formed (its claim columns are filled in
\* together, only claimed rows are retrieved or bound) in every reachable state.
THEOREM TypeCorrect == Spec => []TypeOK
<1>1. TypeOK /\ [Next]_vars => TypeOK'
  BY TypeNext
<1> QED BY TypeInit, <1>1, PTL DEF Spec
-----------------------------------------------------------------------------
(***************************************************************************)
(* The inductive invariant.  A request id belongs to at most one place: it *)
(* is undrawn, or in the one issue call that drew it, or it names a row    *)
(* (which may be gone).  So an id that was retrieved, claimed before the   *)
(* upgrade or declined can never name a fresh row again.                   *)
(***************************************************************************)
Issuing(id) == \E c \in inflight : c.op = "issue" /\ c.id = id

\* Ids not yet in the table have no past.
NoPast(id) ==
  /\ rows[id] = None
  /\ mints[id] = 0
  /\ id \notin minting
  /\ id \notin legacy
  /\ id \notin declined

FreshIds ==
  /\ \A id \in Requests \ used : NoPast(id) /\ ~Issuing(id)
  /\ \A id \in Requests : Issuing(id) => NoPast(id)
  /\ \A c, e \in inflight :
       c.op = "issue" /\ e.op = "issue" /\ c.id = e.id => c = e

\* A retrieved row says so, a legacy row says so once migrated, a declined one
\* is gone.
PastRecorded ==
  /\ \A id \in Requests : /\ mints[id] \in {0, 1}
                          /\ mints[id] = 1 /\ Present(id) => rows[id].minted_at # None
  /\ \A id \in minting : /\ mints[id] = 0
                         /\ Present(id) => rows[id].minted_at # None
  /\ \A id \in legacy : /\ mints[id] = 0
                        /\ id \notin minting
                        /\ Present(id) => Claimed(id)
                        /\ Present(id) /\ user_version = 1 => rows[id].minted_at # None
  /\ \A id \in declined : rows[id] = None

NotServingYet == (user_version = 0 => ~serving) /\ (~serving => inflight = {})

IInv == TypeOK /\ FreshIds /\ PastRecorded /\ NotServingYet

LEMMA IInvInit == Init => IInv
<1> SUFFICES ASSUME Init PROVE IInv
  OBVIOUS
<1>1. TypeOK
  BY TypeInit
<1>2. FreshIds
  BY DEF Init, FreshIds, NoPast, Issuing, Present, Claimed
<1>3. PastRecorded
  BY DEF Init, PastRecorded, Present, Claimed
<1>4. NotServingYet
  BY DEF Init, NotServingYet
<1> QED BY <1>1, <1>2, <1>3, <1>4 DEF IInv

\* What a claimed row keeps.
KeepsClaim(id) ==
  /\ rows'[id] # None
  /\ \A f \in {"device_pubkey", "expires_at", "claimed_at", "operator_omni"} :
       rows'[id][f] = rows[id][f]
  /\ rows[id].bound_at # None => rows'[id].bound_at = rows[id].bound_at

\* How a store step may change one row: everything the invariant and the
\* action properties need to know about it.
RowStep(id) ==
  \/ /\ id \in minting' <=> id \in minting
     /\ \/ rows'[id] = rows[id]
        \/ Issuing(id) /\ rows'[id] # None /\ rows'[id].claimed_at = None
        \/ /\ Open(id)
           /\ rows'[id] # None =>
                rows'[id].claimed_at # None /\ rows'[id].minted_at = rows[id].minted_at
        \/ /\ Claimed(id)
           /\ KeepsClaim(id)
           /\ rows'[id].minted_at = rows[id].minted_at
  \/ /\ id \in minting'
     /\ Claimed(id) /\ KeepsClaim(id)
     /\ rows[id].minted_at = None
     /\ rows'[id].minted_at # None

LEMMA StoreRows ==
  ASSUME IInv, NEW call \in inflight,
         issue(call) \/ claim(call) \/ poll(call) \/ mark_bound(call),
         NEW id \in Requests
  PROVE  RowStep(id)
<1>0. TypeOK /\ user_version = 1
  BY DEF IInv, NotServingYet, TypeOK
<1>1. /\ call.id \in Requests /\ call.now \in Times
      /\ call.now # None
      /\ call.op = "issue" => call.device \in Devices
  BY <1>0, CallType, PairingAssumption DEF Times
<1>2. CASE issue(call)
  <2>1. NewRow(call.device, call.now) # None
    BY <1>1, <1>2, NewRowType DEF issue
  <2>2. rows'[id] = IF id = call.id THEN NewRow(call.device, call.now)
                    ELSE IF id \in SupersededBy(call.device) THEN None
                    ELSE rows[id]
    BY <1>2 DEF issue
  <2>3. NewRow(call.device, call.now).claimed_at = None
    BY DEF NewRow
  <2>4. Issuing(call.id) /\ minting' = minting
    BY <1>2 DEF issue, Issuing
  <2> QED BY <2>1, <2>2, <2>3, <2>4 DEF RowStep, SupersededBy
<1>3. CASE claim(call)
  <2>1. minting' = minting
    BY <1>3 DEF claim
  <2>2. CASE ~(id = call.id /\ Claimable(call.id, call.now))
    BY <1>0, <1>3, <2>1, <2>2 DEF claim, RowStep, TypeOK
  <2>3. CASE id = call.id /\ Claimable(call.id, call.now)
    <3>1. Open(id) /\ rows[id] \in Row
      BY <1>0, <2>3, RowType DEF Claimable, Open
    <3>2. rows'[id] = [rows[id] EXCEPT !.claimed_at = call.now,
                                       !.operator_omni = call.operator]
      BY <1>0, <1>3, <2>3 DEF claim, TypeOK
    <3>3. call.operator \in Operators
      BY <1>0, <1>3, CallType DEF claim
    <3>4. rows'[id] \in Row
      BY <1>1, <3>1, <3>2, <3>3 DEF Row, Opt
    <3>5. rows'[id].claimed_at = call.now /\ rows'[id].minted_at = rows[id].minted_at
      BY <3>1, <3>2 DEF Row
    <3> QED BY <1>1, <2>1, <3>1, <3>4, <3>5, PairingAssumption DEF RowStep
  <2> QED BY <2>2, <2>3
<1>4. CASE poll(call)
  <2>1. CASE ~(id = call.id /\ Mintable(call.id, call.device, call.now))
    BY <1>0, <1>4, <2>1 DEF poll, RowStep, TypeOK
  <2>2. CASE id = call.id /\ Mintable(call.id, call.device, call.now)
    <3>1. Claimed(id) /\ rows[id] \in Row /\ rows[id].minted_at = None
      BY <1>0, <2>2, RowType DEF Mintable, Claimed
    <3>2. rows'[id] = [rows[id] EXCEPT !.minted_at = call.now]
      BY <1>0, <1>4, <2>2 DEF poll, Retrieved, TypeOK
    <3>3. id \in minting'
      BY <1>4, <2>2 DEF poll
    <3>4. rows'[id] \in Row
      BY <1>1, <3>1, <3>2 DEF Row, Opt
    <3>5. /\ rows'[id].minted_at = call.now
          /\ rows'[id].bound_at = rows[id].bound_at
          /\ \A f \in {"device_pubkey", "expires_at", "claimed_at", "operator_omni"} :
               rows'[id][f] = rows[id][f]
      BY <3>1, <3>2 DEF Row
    <3> QED BY <1>1, <3>1, <3>3, <3>4, <3>5, PairingAssumption DEF RowStep, KeepsClaim
  <2> QED BY <2>1, <2>2
<1>5. CASE mark_bound(call)
  <2> DEFINE hit == /\ Claimed(call.id)
                    /\ rows[call.id].operator_omni = call.operator
                    /\ rows[call.id].bound_at = None
  <2>1. minting' = minting
    BY <1>5 DEF mark_bound
  <2>2. CASE ~(id = call.id /\ hit)
    BY <1>0, <1>5, <2>1, <2>2 DEF mark_bound, RowStep, TypeOK
  <2>3. CASE id = call.id /\ hit
    <3>1. Claimed(id) /\ rows[id] \in Row /\ rows[id].bound_at = None
      BY <1>0, <2>3, RowType DEF Claimed
    <3>2. rows'[id] = [rows[id] EXCEPT !.bound_at = call.now]
      BY <1>0, <1>5, <2>3 DEF mark_bound, TypeOK
    <3>3. rows'[id] \in Row
      BY <1>1, <3>1, <3>2 DEF Row, Opt
    <3>4. /\ rows'[id].minted_at = rows[id].minted_at
          /\ \A f \in {"device_pubkey", "expires_at", "claimed_at", "operator_omni"} :
               rows'[id][f] = rows[id][f]
      BY <3>1, <3>2 DEF Row
    <3> QED BY <2>1, <3>1, <3>3, <3>4, PairingAssumption DEF RowStep, KeepsClaim
  <2> QED BY <2>2, <2>3
<1> QED BY <1>2, <1>3, <1>4, <1>5

LEMMA StoreKeepsInv ==
  ASSUME IInv, NEW call \in inflight,
         issue(call) \/ claim(call) \/ poll(call) \/ mark_bound(call)
  PROVE  FreshIds' /\ PastRecorded' /\ NotServingYet'
<1>1. /\ inflight' \in {inflight, inflight \ {call}}
      /\ call.op = "issue" => call \notin inflight'
      /\ UNCHANGED <<used, user_version, serving, mints, legacy, declined>>
  BY DEF issue, claim, poll, mark_bound, Return, history
<1>2. \A id \in Requests : RowStep(id)
  BY StoreRows
<1>3. NotServingYet'
  BY <1>1 DEF IInv, NotServingYet
<1>4. PastRecorded'
  <2>1. ASSUME NEW id \in Requests
        PROVE  /\ mints[id] \in {0, 1}
               /\ mints[id] = 1 /\ rows'[id] # None => rows'[id].minted_at # None
               /\ id \in minting' => /\ mints[id] = 0
                                     /\ rows'[id] # None => rows'[id].minted_at # None
               /\ id \in legacy => /\ mints[id] = 0
                                   /\ id \notin minting'
                                   /\ rows'[id] # None => rows'[id].claimed_at # None
                                   /\ rows'[id] # None /\ user_version = 1
                                        => rows'[id].minted_at # None
               /\ id \in declined => rows'[id] = None
    <3>1. RowStep(id)
      BY <1>2
    <3>2. Issuing(id) => NoPast(id)
      BY DEF IInv, FreshIds
    <3>3. user_version = 1
      BY DEF IInv, NotServingYet, TypeOK
    <3> QED BY <3>1, <3>2, <3>3
            DEF RowStep, KeepsClaim, IInv, PastRecorded, NoPast, Present, Claimed, Open
  <2>2. /\ legacy \subseteq Requests /\ declined \subseteq Requests
        /\ minting' \subseteq Requests
    <3>1. minting' \subseteq minting \cup {call.id} /\ call.id \in Requests
      BY CallType DEF issue, claim, poll, mark_bound, IInv
    <3> QED BY <3>1 DEF IInv, TypeOK
  <2> QED BY <1>1, <2>1, <2>2 DEF PastRecorded, Present, Claimed
<1>5. FreshIds'
  <2>1. ASSUME NEW id \in Requests, NoPast(id), ~Issuing(id)'
        PROVE  Issuing(id) \/ NoPast(id)'
    <3>1. RowStep(id)
      BY <1>2
    <3> QED BY <1>1, <2>1, <3>1 DEF RowStep, NoPast, Open, Claimed, Present
  <2>2. ASSUME NEW id \in Requests, Issuing(id)'
        PROVE  NoPast(id)'
    <3>1. PICK c \in inflight : c \in inflight' /\ c.op = "issue" /\ c.id = id
      BY <1>1, <2>2 DEF Issuing
    <3>2. ~(call.op = "issue" /\ call.id = id)
      BY <1>1, <3>1 DEF IInv, FreshIds
    <3>3. NoPast(id)
      BY <3>1 DEF IInv, FreshIds, Issuing
    <3>4. rows'[id] = None /\ id \notin minting'
      <4>1. CASE issue(call)
        BY <3>2, <3>3, <4>1 DEF issue, NoPast, SupersededBy, Open, Present
      <4>2. CASE claim(call)
        BY <3>3, <4>2 DEF claim, NoPast, Claimable, Open, Present, IInv, TypeOK
      <4>3. CASE poll(call)
        BY <3>3, <4>3 DEF poll, NoPast, Mintable, Claimed, Present, IInv, TypeOK
      <4>4. CASE mark_bound(call)
        BY <3>3, <4>4 DEF mark_bound, NoPast, Claimed, Present, IInv, TypeOK
      <4> QED BY <4>1, <4>2, <4>3, <4>4
    <3> QED BY <1>1, <3>3, <3>4 DEF NoPast
  <2>3. ASSUME NEW id \in Requests \ used
        PROVE  NoPast(id)' /\ ~Issuing(id)'
    <3>1. NoPast(id) /\ ~Issuing(id)
      BY DEF IInv, FreshIds
    <3>2. ~Issuing(id)'
      BY <1>1, <3>1 DEF Issuing
    <3> QED BY <2>1, <3>1, <3>2
  <2>4. \A c, e \in inflight' :
          c.op = "issue" /\ e.op = "issue" /\ c.id = e.id => c = e
    BY <1>1 DEF IInv, FreshIds
  <2> QED BY <1>1, <2>2, <2>3, <2>4 DEF FreshIds
<1> QED BY <1>3, <1>4, <1>5

LEMMA EnterKeepsInv ==
  ASSUME IInv, NEW call, Enter(call), UNCHANGED used, call.op # "issue"
  PROVE  FreshIds' /\ PastRecorded' /\ NotServingYet'
<1>1. /\ inflight' = inflight \cup {call}
      /\ UNCHANGED <<rows, used, user_version, serving, minting, mints, legacy, declined>>
      /\ serving
  BY DEF Enter, history
<1>2. \A id \in Requests : Issuing(id)' => Issuing(id)
  BY <1>1 DEF Issuing
<1>3. FreshIds'
  BY <1>1, <1>2 DEF IInv, FreshIds, NoPast
<1> QED BY <1>1, <1>3 DEF IInv, PastRecorded, NotServingYet, Present, Claimed

LEMMA IInvNext ==
  ASSUME IInv, [Next]_vars
  PROVE  IInv'
<1>0. TypeOK /\ TypeOK'
  BY TypeNext DEF IInv
<1> SUFFICES FreshIds' /\ PastRecorded' /\ NotServingYet'
  BY <1>0 DEF IInv
<1>1. CASE open
  <2>1. /\ inflight = {} /\ UNCHANGED <<used, inflight, minting, history>>
        /\ user_version' = 1
    BY <1>1 DEF open, IInv, NotServingYet
  <2>2. ASSUME NEW id \in Requests
        PROVE  /\ rows'[id] = None <=> rows[id] = None
               /\ rows[id] # None => /\ rows'[id].claimed_at = rows[id].claimed_at
                                     /\ rows[id].minted_at # None
                                          => rows'[id].minted_at = rows[id].minted_at
               /\ Claimed(id) /\ user_version = 0 => rows'[id].minted_at # None
    <3>1. CASE user_version < 1 /\ Claimed(id) /\ rows[id].minted_at = None
      <4>1. rows'[id] = [rows[id] EXCEPT !.minted_at = rows[id].claimed_at]
        BY <1>1, <3>1 DEF open, Migrated
      <4>2. rows[id] \in Row
        BY <1>0, <3>1, RowType DEF Claimed
      <4>3. rows'[id] \in Row
        BY <4>1, <4>2 DEF Row
      <4> QED BY <3>1, <4>1, <4>2, <4>3, PairingAssumption DEF Row, Claimed, Present
    <3>2. CASE ~(user_version < 1 /\ Claimed(id) /\ rows[id].minted_at = None)
      BY <1>1, <3>2 DEF open, Migrated, TypeOK
    <3> QED BY <3>1, <3>2
  <2>3. NotServingYet'
    BY <1>1, <2>1 DEF open, NotServingYet
  <2>4. FreshIds'
    BY <2>1, <2>2 DEF IInv, FreshIds, NoPast, Issuing, history
  <2>5. PastRecorded'
    <3>1. \A id \in legacy : id \in Requests
      BY <1>0 DEF TypeOK
    <3>2. \A id \in declined : id \in Requests
      BY <1>0 DEF TypeOK
    <3>3. user_version \in {0, 1}
      BY <1>0 DEF TypeOK
    <3>4. UNCHANGED <<minting, mints, legacy, declined>> /\ minting \subseteq Requests
      BY <1>0, <2>1 DEF history, TypeOK
    <3> QED BY <2>1, <2>2, <3>1, <3>2, <3>3, <3>4
            DEF IInv, PastRecorded, Present, Claimed
  <2> QED BY <2>3, <2>4, <2>5
<1>2. CASE Crash
  BY <1>2 DEF Crash, IInv, FreshIds, NoPast, Issuing, PastRecorded, NotServingYet,
              Present, Claimed, db, history
<1>3. ASSUME UNCHANGED <<rows, used, user_version, serving, inflight, minting, history>>
      PROVE  FreshIds' /\ PastRecorded' /\ NotServingYet'
  BY <1>3 DEF IInv, FreshIds, NoPast, Issuing, PastRecorded, NotServingYet,
              Present, Claimed, history
<1>4. ASSUME NEW d \in Devices, pairing_request(d)
      PROVE  FreshIds' /\ PastRecorded' /\ NotServingYet'
  <2>1. PICK id \in Requests \ used :
          /\ Enter([op |-> "issue", id |-> id, device |-> d, now |-> clock])
          /\ used' = used \cup {id}
    BY <1>4 DEF pairing_request
  <2> DEFINE call == [op |-> "issue", id |-> id, device |-> d, now |-> clock]
  <2>2. /\ inflight' = inflight \cup {call}
        /\ UNCHANGED <<rows, user_version, serving, minting, mints, legacy, declined>>
        /\ serving
    BY <2>1 DEF Enter, history
  <2>3. call.op = "issue" /\ call.id = id
    OBVIOUS
  <2> HIDE DEF call
  <2>4. NoPast(id) /\ ~Issuing(id)
    BY DEF IInv, FreshIds
  <2>5. \A i \in Requests : Issuing(i)' => Issuing(i) \/ i = id
    BY <2>2, <2>3 DEF Issuing
  <2>6. \A i \in Requests : NoPast(i) => NoPast(i)'
    BY <2>2 DEF NoPast
  <2>7. \A c, e \in inflight' :
          c.op = "issue" /\ e.op = "issue" /\ c.id = e.id => c = e
    BY <2>2, <2>3, <2>4 DEF IInv, FreshIds, Issuing
  <2>8. FreshIds'
    BY <2>1, <2>4, <2>5, <2>6, <2>7 DEF IInv, FreshIds
  <2> QED BY <2>2, <2>8 DEF IInv, PastRecorded, NotServingYet, Present, Claimed
<1>5. ASSUME NEW d \in Devices, NEW id \in Requests, pairing_poll(d, id)
      PROVE  FreshIds' /\ PastRecorded' /\ NotServingYet'
  <2>1. [op |-> "poll", id |-> id, device |-> d, now |-> clock].op # "issue"
    OBVIOUS
  <2> QED BY <1>5, <2>1, EnterKeepsInv DEF pairing_poll
<1>6. ASSUME NEW o \in Operators, NEW id \in Requests,
             pairing_claim(o, id) \/ ack_binding(o, id)
      PROVE  FreshIds' /\ PastRecorded' /\ NotServingYet'
  <2>1. [op |-> "claim", id |-> id, operator |-> o, now |-> clock].op # "issue"
    OBVIOUS
  <2>2. [op |-> "mark_bound", id |-> id, operator |-> o, now |-> clock].op # "issue"
    OBVIOUS
  <2> QED BY <1>6, <2>1, <2>2, EnterKeepsInv DEF pairing_claim, ack_binding
<1>7. ASSUME NEW o \in Operators, NEW id \in Requests, decline(o, id)
      PROVE  FreshIds' /\ PastRecorded' /\ NotServingYet'
  <2>1. /\ Present(id)
        /\ rows' = [rows EXCEPT ![id] = None]
        /\ declined' = declined \cup {id}
        /\ UNCHANGED <<used, user_version, serving, inflight, minting, mints, legacy>>
    BY <1>7 DEF decline, AfterDecline
  <2>2. ~Issuing(id) /\ id \in used
    BY <2>1 DEF IInv, FreshIds, NoPast, Present
  <2>3. \A i \in Requests : i # id => rows'[i] = rows[i]
    BY <1>0, <2>1 DEF TypeOK
  <2>4. rows'[id] = None
    BY <1>0, <2>1 DEF TypeOK
  <2>5. \A i \in Requests : NoPast(i) /\ i # id => NoPast(i)'
    BY <2>1, <2>3 DEF NoPast
  <2>6. FreshIds'
    BY <2>1, <2>2, <2>5 DEF IInv, FreshIds, Issuing
  <2>7. /\ legacy \subseteq Requests /\ declined \subseteq Requests
        /\ minting \subseteq Requests
    BY <1>0 DEF TypeOK
  <2>8. PastRecorded'
    BY <2>1, <2>3, <2>4, <2>7 DEF IInv, PastRecorded, Present, Claimed
  <2> QED BY <2>1, <2>6, <2>8 DEF IInv, NotServingYet
<1>8. CASE purge_expired
  <2>1. /\ \A id \in Requests : rows'[id] \in {rows[id], None}
        /\ UNCHANGED <<used, user_version, serving, inflight, minting, mints, legacy,
                       declined>>
    BY <1>8 DEF purge_expired, history
  <2>2. /\ legacy \subseteq Requests /\ declined \subseteq Requests
        /\ minting \subseteq Requests
    BY <1>0 DEF TypeOK
  <2>3. FreshIds'
    BY <2>1 DEF IInv, FreshIds, NoPast, Issuing
  <2>4. PastRecorded'
    BY <2>1, <2>2 DEF IInv, PastRecorded, Present, Claimed
  <2> QED BY <2>1, <2>3, <2>4 DEF IInv, NotServingYet
<1>9. CASE Tick
  BY <1>3, <1>9 DEF Tick, db
<1>10. CASE UNCHANGED vars
  BY <1>3, <1>10 DEF vars, db
<1>11. CASE Handlers
  BY <1>4, <1>5, <1>6, <1>7, <1>11 DEF Handlers
<1>12. CASE Store
  BY <1>12, StoreKeepsInv DEF Store
<1>13. ASSUME NEW id \in minting, mint_agent_session_jwt(id)
       PROVE  FreshIds' /\ PastRecorded' /\ NotServingYet'
  <2>1. /\ minting' = minting \ {id}
        /\ mints' = [mints EXCEPT ![id] = @ + 1]
        /\ UNCHANGED <<rows, used, user_version, serving, inflight, legacy, declined>>
    BY <1>13 DEF mint_agent_session_jwt, db
  <2>2. id \in Requests /\ mints[id] = 0 /\ (Present(id) => rows[id].minted_at # None)
        /\ id \notin legacy
    BY <1>0 DEF IInv, TypeOK, PastRecorded
  <2>3. mints'[id] = 1 /\ \A i \in Requests \ {id} : mints'[i] = mints[i]
    BY <1>0, <2>1, <2>2 DEF TypeOK
  <2>4. ~NoPast(id)
    BY DEF NoPast
  <2>5. \A i \in Requests : NoPast(i) => NoPast(i)'
    BY <2>1, <2>3, <2>4 DEF NoPast
  <2>6. FreshIds'
    BY <2>1, <2>5 DEF IInv, FreshIds, Issuing
  <2>7. /\ legacy \subseteq Requests /\ declined \subseteq Requests
        /\ minting \subseteq Requests
    BY <1>0 DEF TypeOK
  <2>8. PastRecorded'
    BY <2>1, <2>2, <2>3, <2>7 DEF IInv, PastRecorded, Present, Claimed
  <2> QED BY <2>1, <2>6, <2>8 DEF IInv, NotServingYet
<1> QED BY <1>1, <1>2, <1>8, <1>9, <1>10, <1>11, <1>12, <1>13 DEF Next

LEMMA IInvCorrect == Spec => []IInv
<1>1. IInv /\ [Next]_vars => IInv'
  BY IInvNext
<1> QED BY IInvInit, <1>1, PTL DEF Spec

\* At most one J1_agent is minted from a request, for any number of devices,
\* masters, concurrent handlers, crashes and restarts (pairing_requests.rs poll).
THEOREM SingleRetrieval == Spec => []OneMintPerRequest
<1>1. IInv => OneMintPerRequest
  BY DEF IInv, PastRecorded, OneMintPerRequest
<1> QED BY <1>1, IInvCorrect, PTL

\* A request that was claimed before the upgrade never mints in the upgraded
\* broker (pairing_requests.rs init_schema).
THEOREM MigrationConsumes == Spec => []LegacyNeverMints
<1>1. IInv => LegacyNeverMints
  BY DEF IInv, PastRecorded, LegacyNeverMints
<1> QED BY <1>1, IInvCorrect, PTL
-----------------------------------------------------------------------------
\* Nobody wins the retrieval of a declined request, a poll in flight at the
\* time of the decline included (pairing_requests.rs decline and poll).
THEOREM DeclineIsFinal == Spec => NoRetrievalAfterDecline
<1>1. ASSUME IInv, [Next]_vars, NEW id \in declined, id \in minting'
      PROVE  id \in minting
  <2>1. id \in Requests /\ rows[id] = None
    BY <1>1 DEF IInv, TypeOK, PastRecorded
  <2>2. CASE Store
    <3>1. PICK call \in inflight :
            issue(call) \/ claim(call) \/ poll(call) \/ mark_bound(call)
      BY <2>2 DEF Store
    <3>2. RowStep(id)
      BY <1>1, <2>1, <3>1, StoreRows
    <3> QED BY <1>1, <2>1, <3>2 DEF RowStep, Claimed, Present
  <2>3. CASE Handlers
    BY <1>1, <2>3 DEF Handlers, pairing_request, pairing_poll, pairing_claim,
                ack_binding, decline, Enter
  <2> QED BY <1>1, <2>2, <2>3
          DEF Next, open, Crash, Tick, purge_expired, vars,
              mint_agent_session_jwt
<1>2. IInv /\ [Next]_vars
        => [\A id \in declined : id \in minting' => id \in minting]_vars
  BY <1>1
<1> QED BY <1>2, IInvCorrect, PTL DEF Spec, NoRetrievalAfterDecline

\* A claim is final: only its operator's decline removes the row, and nothing
\* ever changes who claimed it or undoes a retrieval or a bind
\* (pairing_requests.rs issue, claim, poll, mark_bound and purge_expired).
THEOREM ClaimsStand == Spec => ClaimIsFinal
<1> DEFINE Keeps(id) ==
             \/ rows'[id] = None /\ id \in declined' \ declined
             \/ /\ rows'[id] # None
                /\ \A f \in {"device_pubkey", "expires_at", "claimed_at", "operator_omni"} :
                     rows'[id][f] = rows[id][f]
                /\ \A f \in {"minted_at", "bound_at"} :
                     rows[id][f] # None => rows'[id][f] = rows[id][f]
<1>1. ASSUME IInv, [Next]_vars, NEW id \in Requests, Claimed(id)
      PROVE  Keeps(id)
  <2>0. TypeOK /\ rows[id] # None
    BY <1>1 DEF IInv, Claimed, Present
  <2>1. ASSUME rows'[id] = rows[id] PROVE Keeps(id)
    BY <2>0, <2>1
  <2>2. CASE Store
    <3>1. PICK call \in inflight :
            issue(call) \/ claim(call) \/ poll(call) \/ mark_bound(call)
      BY <2>2 DEF Store
    <3>2. RowStep(id)
      BY <1>1, <3>1, StoreRows
    <3>3. ~Issuing(id) /\ ~Open(id)
      BY <1>1 DEF IInv, FreshIds, NoPast, Claimed, Open, Present
    <3>4. \/ rows'[id] = rows[id]
          \/ /\ KeepsClaim(id)
             /\ rows[id].minted_at # None => rows'[id].minted_at = rows[id].minted_at
      BY <3>2, <3>3 DEF RowStep
    <3> QED BY <2>1, <3>4 DEF KeepsClaim
  <2>3. ASSUME NEW o \in Operators, NEW i \in Requests, decline(o, i)
        PROVE  Keeps(id)
    <3>1. CASE i = id
      <4>1. rows'[id] = None /\ id \in declined'
        BY <2>0, <2>3, <3>1 DEF decline, AfterDecline, TypeOK
      <4>2. id \notin declined
        BY <1>1, <2>0 DEF IInv, PastRecorded
      <4> QED BY <4>1, <4>2
    <3>2. CASE i # id
      BY <2>0, <2>1, <2>3, <3>2 DEF decline, TypeOK
    <3> QED BY <3>1, <3>2
  <2>4. CASE open
    <3>1. CASE user_version < 1 /\ rows[id].minted_at = None
      <4>1. rows'[id] = [rows[id] EXCEPT !.minted_at = rows[id].claimed_at]
        BY <1>1, <2>4, <3>1 DEF open, Migrated
      <4>2. rows[id] \in Row
        BY <1>1, <2>0, RowType DEF Claimed
      <4>3. rows'[id] \in Row
        BY <4>1, <4>2 DEF Row
      <4> QED BY <3>1, <4>1, <4>2, <4>3, PairingAssumption DEF Row
    <3>2. CASE ~(user_version < 1 /\ rows[id].minted_at = None)
      BY <2>1, <2>4, <3>2 DEF open, Migrated
    <3> QED BY <3>1, <3>2
  <2>5. CASE purge_expired
    BY <1>1, <2>1, <2>5 DEF purge_expired, Purgeable, Open, Claimed
  <2>6. CASE rows' = rows
    BY <2>1, <2>6
  <2>7. CASE Handlers
    BY <2>3, <2>6, <2>7 DEF Handlers, pairing_request, pairing_poll, pairing_claim,
                 ack_binding, Enter
  <2> QED BY <1>1, <2>2, <2>4, <2>5, <2>6, <2>7
          DEF Next, Crash, Tick, vars, db, mint_agent_session_jwt
<1> HIDE DEF Keeps
<1>2. IInv /\ [Next]_vars => [\A id \in Requests : Claimed(id) => Keeps(id)]_vars
  BY <1>1
<1> USE DEF Keeps
<1> QED BY <1>2, IInvCorrect, PTL DEF Spec, ClaimIsFinal

\* A device never has two open requests, whichever of its concurrent requests
\* reaches the table first (pairing_requests.rs issue).
THEOREM OneOpenRequest == Spec => []OneOpenRequestPerDevice
<1>0. Init => OneOpenRequestPerDevice
  BY DEF Init, OneOpenRequestPerDevice, Open, Present
<1>1. ASSUME IInv, OneOpenRequestPerDevice, [Next]_vars
      PROVE  OneOpenRequestPerDevice'
  <2>t. TypeOK
    BY <1>1 DEF IInv
  \* An open row of the new state is an open row of the old one.
  <2>1. ASSUME \A id \in Requests : Open(id)' =>
                 Open(id) /\ rows'[id].device_pubkey = rows[id].device_pubkey
        PROVE  OneOpenRequestPerDevice'
    BY <1>1, <2>1 DEF OneOpenRequestPerDevice
  <2>2. CASE rows' = rows
    BY <2>1, <2>2 DEF Open, Present
  <2>3. ASSUME NEW call \in inflight, issue(call)
        PROVE  OneOpenRequestPerDevice'
    <3>1. call.id \in Requests /\ NewRow(call.device, call.now).device_pubkey = call.device
      BY <2>t, CallType DEF NewRow
    <3>2. \A id \in Requests : rows'[id] =
                IF id = call.id THEN NewRow(call.device, call.now)
                ELSE IF id \in SupersededBy(call.device) THEN None
                ELSE rows[id]
      BY <2>3 DEF issue
    <3>3. \A id \in Requests \ {call.id} : Open(id)' =>
            /\ Open(id) /\ rows'[id] = rows[id]
            /\ rows[id].device_pubkey # call.device
      BY <3>2 DEF Open, Present, SupersededBy
    <3>4. rows'[call.id].device_pubkey = call.device
      BY <3>1, <3>2
    <3> QED BY <1>1, <3>1, <3>3, <3>4 DEF OneOpenRequestPerDevice
  <2>4. ASSUME NEW call \in inflight, claim(call) \/ poll(call) \/ mark_bound(call)
        PROVE  OneOpenRequestPerDevice'
    <3>1. ASSUME NEW id \in Requests, Open(id)'
          PROVE  rows'[id] = rows[id]
      <4>1. CASE claim(call)
        <5>1. CASE id = call.id /\ Claimable(call.id, call.now)
          <6>1. /\ rows[id] \in Row
                /\ rows'[id] = [rows[id] EXCEPT !.claimed_at = call.now,
                                               !.operator_omni = call.operator]
            BY <2>t, <4>1, <5>1, RowType DEF claim, Claimable, Open, TypeOK
          <6>2. call.now # None
            BY <2>t, CallType, PairingAssumption DEF Times
          <6>3. rows'[id].claimed_at # None
            BY <6>1, <6>2 DEF Row
          <6> QED BY <3>1, <6>3 DEF Open
        <5>2. CASE ~(id = call.id /\ Claimable(call.id, call.now))
          BY <2>t, <4>1, <5>2 DEF claim, TypeOK
        <5> QED BY <5>1, <5>2
      <4>2. CASE poll(call)
        <5>1. CASE id = call.id /\ Mintable(call.id, call.device, call.now)
          <6>1. /\ rows[id] \in Row /\ rows[id].claimed_at # None
                /\ rows'[id] = [rows[id] EXCEPT !.minted_at = call.now]
            BY <2>t, <4>2, <5>1, RowType DEF poll, Retrieved, Mintable, Claimed, TypeOK
          <6>2. rows'[id].claimed_at # None
            BY <6>1 DEF Row
          <6> QED BY <3>1, <6>2 DEF Open
        <5>2. CASE ~(id = call.id /\ Mintable(call.id, call.device, call.now))
          BY <2>t, <4>2, <5>2 DEF poll, TypeOK
        <5> QED BY <5>1, <5>2
      <4>3. CASE mark_bound(call)
        <5>1. CASE id = call.id /\ Claimed(id)
          <6>1. /\ rows[id] \in Row /\ rows[id].claimed_at # None
                /\ \/ rows'[id] = [rows[id] EXCEPT !.bound_at = call.now]
                   \/ rows'[id] = rows[id]
            BY <2>t, <4>3, <5>1, RowType DEF mark_bound, Claimed, TypeOK
          <6>2. rows'[id].claimed_at # None
            BY <6>1 DEF Row
          <6> QED BY <3>1, <6>2 DEF Open
        <5>2. CASE ~(id = call.id /\ Claimed(id))
          BY <2>t, <4>3, <5>2 DEF mark_bound, TypeOK
        <5> QED BY <5>1, <5>2
      <4> QED BY <2>4, <4>1, <4>2, <4>3
    <3>2. \A id \in Requests : Open(id)' =>
            Open(id) /\ rows'[id].device_pubkey = rows[id].device_pubkey
      BY <3>1 DEF Open, Present
    <3> QED BY <2>1, <3>2
  <2>5. CASE open
    <3>1. ASSUME NEW id \in Requests, Open(id)'
          PROVE  rows'[id] = rows[id]
      <4>1. CASE user_version < 1 /\ Claimed(id) /\ rows[id].minted_at = None
        <5>1. /\ rows[id] \in Row /\ rows[id].claimed_at # None
              /\ rows'[id] = [rows[id] EXCEPT !.minted_at = rows[id].claimed_at]
          BY <2>t, <2>5, <4>1, RowType DEF open, Migrated, Claimed
        <5>2. rows'[id].claimed_at # None
          BY <5>1 DEF Row
        <5> QED BY <3>1, <5>2 DEF Open
      <4>2. CASE ~(user_version < 1 /\ Claimed(id) /\ rows[id].minted_at = None)
        BY <2>5, <4>2 DEF open, Migrated
      <4> QED BY <4>1, <4>2
    <3>2. \A id \in Requests : Open(id)' =>
            Open(id) /\ rows'[id].device_pubkey = rows[id].device_pubkey
      BY <3>1 DEF Open, Present
    <3> QED BY <2>1, <3>2
  <2>6. ASSUME \A id \in Requests : rows'[id] \in {rows[id], None}
        PROVE  OneOpenRequestPerDevice'
    BY <2>1, <2>6 DEF Open, Present
  <2>7. ASSUME NEW o \in Operators, NEW id \in Requests, decline(o, id)
        PROVE  OneOpenRequestPerDevice'
    BY <2>t, <2>6, <2>7 DEF decline, AfterDecline, TypeOK
  <2>8. CASE purge_expired
    BY <2>6, <2>8 DEF purge_expired
  <2>9. CASE Handlers
    BY <2>2, <2>7, <2>9 DEF Handlers, pairing_request, pairing_poll, pairing_claim,
                 ack_binding, Enter
  <2>10. CASE Store
    BY <2>3, <2>4, <2>10 DEF Store
  <2> QED BY <1>1, <2>2, <2>5, <2>8, <2>9, <2>10
          DEF Next, Crash, Tick, vars, db, mint_agent_session_jwt
<1>2. IInv /\ OneOpenRequestPerDevice /\ [Next]_vars => OneOpenRequestPerDevice'
  BY <1>1
<1> QED BY <1>0, <1>2, IInvCorrect, PTL DEF Spec
=============================================================================
