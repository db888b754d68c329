---------------------------- MODULE AccessProofs ----------------------------
(***************************************************************************)
(* Theorems about what a sandbox is given to work with: the co-signature   *)
(* of its device (Delegation) and its model key (RelayKeys and Relay), for *)
(* any number of devices, sandboxes, requests, keys and concurrent         *)
(* handlers, and any budgets and bounds.                                   *)
(*                                                                         *)
(* Delegation.  The sign handler verifies against one reading of the row   *)
(* and writes into another.  What carries the check over is PendingBinds:  *)
(* a handler's request has been drawn, so no later request can put another *)
(* row under its id, and what it verified fits the row if the row is still *)
(* there.                                                                  *)
(*                                                                         *)
(* RelayKeys.  A failed write leaves memory and file apart, and a restart  *)
(* takes up the file.  Sound says of a list of rows that it fits what the  *)
(* broker was told, and KeysIInv says it of both lists, so that either may *)
(* become the one that is served.                                          *)
(*                                                                         *)
(* Relay.  Covered adds to what is recorded the most that the turns past   *)
(* their check may still cost; a check makes room for its own turn because *)
(* it sees less than the budget recorded.                                  *)
(***************************************************************************)
EXTENDS Delegation, Relay, FiniteSetTheorems, WellFoundedInduction, TLAPS
-----------------------------------------------------------------------------
(* The delegation rendezvous.                                              *)

\* A signature under way was verified against the row it will be written to.
PendingBinds ==
  \A s \in Signers : sign[s] # NoSign =>
    /\ rows[sign[s].req].state # "unused"
    /\ Has(sign[s].req) => sign[s].sig.sandbox = rows[sign[s].req].sandbox

IInv == DelegationInv /\ PendingBinds

AllRows == Open \cup Signed \cup {Unused, Gone}

\* The state of a row tells what kind of record it is.
LEMMA RowKinds ==
  ASSUME NEW x \in AllRows
  PROVE  /\ x.state = "open" => x \in Open
         /\ x.state = "signed" => x \in Signed
         /\ x.state = "unused" <=> x = Unused
         /\ x.state \in {"open", "signed", "unused", "gone"}
<1>1. CASE x \in Open
  BY <1>1 DEF Open, Unused
<1>2. CASE x \in Signed
  BY <1>2 DEF Signed, Unused
<1>3. CASE x = Unused
  BY <1>3 DEF Unused
<1>4. CASE x = Gone
  BY <1>4 DEF Gone, Unused
<1> QED BY <1>1, <1>2, <1>3, <1>4 DEF AllRows

LEMMA InitInv == Init => IInv
<1> SUFFICES ASSUME Init PROVE IInv
  OBVIOUS
<1>1. \A r \in Requests : rows[r] = Unused /\ rows[r].state = "unused"
  BY DEF Init, Unused
<1>2. \A s \in Signers : sign[s] = NoSign
  BY DEF Init
<1>3. TypeOK
  BY <1>1, <1>2, DelegationAssumption DEF Init, TypeOK
<1>4. OneOpenRequest /\ SignatureBindsRequest
  BY <1>1 DEF OneOpenRequest, SignatureBindsRequest
<1> QED BY <1>2, <1>3, <1>4 DEF IInv, DelegationInv, PendingBinds

\* A request draws a fresh id and clears what would stand beside it.
LEMMA RequestInv ==
  ASSUME IInv, NEW r \in Requests, NEW d \in Devices, NEW b \in Sandboxes,
         delegation_request(r, d, b)
  PROVE  IInv'
<1> DEFINE new == [state |-> "open", device |-> d, sandbox |-> b,
                   expires |-> now + ReqTtl]
<1>0. TypeOK /\ OneOpenRequest /\ SignatureBindsRequest /\ PendingBinds
  BY DEF IInv, DelegationInv
<1>1. /\ rows[r] = Unused /\ UNCHANGED <<now, sign>>
      /\ rows' = [q \in Requests |->
            IF q = r THEN new
            ELSE IF Dropped(q, d, b) THEN Gone ELSE rows[q]]
  BY DEF delegation_request
<1>2. now + ReqTtl \in 0..(MaxTime + ReqTtl)
  BY <1>0, DelegationAssumption DEF TypeOK
<1>3. new \in Open /\ new.state = "open"
  BY <1>2 DEF Open
<1>4. \A q \in Requests :
        \/ q = r /\ rows'[q] = new
        \/ q # r /\ rows'[q] = Gone /\ Dropped(q, d, b)
        \/ q # r /\ rows'[q] = rows[q] /\ ~Dropped(q, d, b)
  BY <1>1
<1>5. Gone.state = "gone"
  BY DEF Gone
<1>6. TypeOK'
  <2>1. rows' \in [Requests -> Open \cup Signed \cup {Unused, Gone}]
    BY <1>0, <1>1, <1>3 DEF TypeOK
  <2>2. \A q \in Requests : rows'[q].state = "signed" => rows'[q].at < rows'[q].expires
    BY <1>0, <1>3, <1>4, <1>5 DEF TypeOK
  <2> QED BY <1>0, <1>1, <2>1, <2>2 DEF TypeOK
<1>7. OneOpenRequest'
  <2> SUFFICES ASSUME NEW p \in Requests, NEW q \in Requests,
                      rows'[p].state = "open", rows'[q].state = "open",
                      rows'[p].device = rows'[q].device,
                      rows'[p].sandbox = rows'[q].sandbox
               PROVE  p = q
    BY DEF OneOpenRequest
  <2>1. new.device = d /\ new.sandbox = b
    OBVIOUS
  <2>2. CASE p = r /\ q # r
    BY <1>4, <1>5, <2>1, <2>2 DEF Dropped
  <2>3. CASE q = r /\ p # r
    BY <1>4, <1>5, <2>1, <2>3 DEF Dropped
  <2>4. CASE p # r /\ q # r
    BY <1>0, <1>4, <1>5, <2>4 DEF OneOpenRequest
  <2> QED BY <2>2, <2>3, <2>4
<1>8. SignatureBindsRequest'
  BY <1>0, <1>3, <1>4, <1>5 DEF SignatureBindsRequest
<1>9. PendingBinds'
  <2> SUFFICES ASSUME NEW s \in Signers, sign[s] # NoSign
               PROVE  /\ rows'[sign[s].req].state # "unused"
                      /\ rows'[sign[s].req].state \in {"open", "signed"} =>
                           sign[s].sig.sandbox = rows'[sign[s].req].sandbox
    BY <1>1 DEF PendingBinds, Has
  <2>1. sign[s].req \in Requests
    BY <1>0 DEF TypeOK, Handling
  <2>2. rows[sign[s].req].state # "unused" /\ rows[r].state = "unused"
    BY <1>0, <1>1 DEF PendingBinds, Unused
  <2> QED BY <1>0, <1>4, <1>5, <2>1, <2>2 DEF PendingBinds, Has
<1> QED BY <1>6, <1>7, <1>8, <1>9 DEF IInv, DelegationInv

LEMMA TargetInv ==
  ASSUME IInv, NEW s \in Signers, NEW r \in Requests, NEW d \in Devices,
         NEW sig \in Sigs, sign_target(s, r, d, sig)
  PROVE  IInv'
<1> DEFINE h == [req |-> r, device |-> d, now |-> now, sig |-> sig]
<1>0. TypeOK /\ OneOpenRequest /\ SignatureBindsRequest /\ PendingBinds
  BY DEF IInv, DelegationInv
<1>1. /\ sign' = [sign EXCEPT ![s] = h] /\ UNCHANGED <<now, rows>>
      /\ rows[r].state = "open" /\ sig.sandbox = rows[r].sandbox
  BY DEF sign_target, Verifies
<1>2. h \in Handling
  BY <1>0 DEF Handling, TypeOK
<1>3. TypeOK'
  BY <1>0, <1>1, <1>2 DEF TypeOK
<1>4. PendingBinds'
  BY <1>0, <1>1 DEF PendingBinds, Has, TypeOK
<1> QED BY <1>0, <1>1, <1>3, <1>4
        DEF IInv, DelegationInv, OneOpenRequest, SignatureBindsRequest

\* The write of a signature that was verified earlier.
LEMMA RecordInv ==
  ASSUME IInv, NEW s \in Signers, record_signature(s)
  PROVE  IInv'
<1> DEFINE r == sign[s].req
           new == [state |-> "signed", device |-> rows[r].device,
                   sandbox |-> rows[r].sandbox, expires |-> rows[r].expires,
                   at |-> sign[s].now, sig |-> sign[s].sig]
<1>0. TypeOK /\ OneOpenRequest /\ SignatureBindsRequest /\ PendingBinds
  BY DEF IInv, DelegationInv
<1>1. /\ sign[s] # NoSign /\ sign' = [sign EXCEPT ![s] = NoSign] /\ UNCHANGED now
      /\ rows' = IF Recordable(s) THEN [rows EXCEPT ![r] = new] ELSE rows
  BY DEF record_signature, SignedAt
<1>2. /\ sign[s] \in Handling /\ r \in Requests
      /\ sign[s].now \in 0..MaxTime /\ sign[s].sig \in Sigs
  BY <1>0, <1>1 DEF TypeOK, Handling
<1>3. \A p \in Signers : sign'[p] # NoSign => p # s /\ sign'[p] = sign[p]
  BY <1>0, <1>1 DEF TypeOK
<1>4. CASE ~Recordable(s)
  <2>1. TypeOK'
    BY <1>0, <1>1, <1>4 DEF TypeOK
  <2>2. PendingBinds'
    BY <1>0, <1>1, <1>3, <1>4 DEF PendingBinds, Has
  <2> QED BY <1>0, <1>1, <1>4, <2>1, <2>2
          DEF IInv, DelegationInv, OneOpenRequest, SignatureBindsRequest
<1>5. CASE Recordable(s)
  <2>1. rows[r].state = "open" /\ rows[r].expires > sign[s].now
    BY <1>5 DEF Recordable
  <2>2. rows[r] \in Open
    BY <1>0, <1>2, <2>1, RowKinds DEF TypeOK, AllRows
  <2>3. new \in Signed /\ new.at < new.expires /\ new.state = "signed"
    BY <1>2, <2>1, <2>2, DelegationAssumption DEF Open, Signed
  <2>4. /\ rows'[r] = new
        /\ \A q \in Requests \ {r} : rows'[q] = rows[q]
    BY <1>0, <1>1, <1>2, <1>5 DEF TypeOK
  <2>5. TypeOK'
    BY <1>0, <1>1, <1>2, <1>5, <2>3, <2>4 DEF TypeOK
  <2>6. OneOpenRequest'
    BY <1>0, <2>3, <2>4 DEF OneOpenRequest
  <2>7. sign[s].sig.sandbox = rows[r].sandbox
    BY <1>0, <1>1, <2>1 DEF PendingBinds, Has
  <2>8. SignatureBindsRequest'
    BY <1>0, <2>4, <2>7 DEF SignatureBindsRequest
  <2>9. PendingBinds'
    <3> SUFFICES ASSUME NEW p \in Signers, sign'[p] # NoSign
                 PROVE  /\ rows'[sign[p].req].state # "unused"
                        /\ rows'[sign[p].req].state \in {"open", "signed"} =>
                             sign[p].sig.sandbox = rows'[sign[p].req].sandbox
      BY <1>3 DEF PendingBinds, Has
    <3>1. sign[p].req \in Requests
      BY <1>0, <1>3 DEF TypeOK, Handling
    <3> QED BY <1>0, <1>3, <2>1, <2>3, <2>4, <3>1 DEF PendingBinds, Has
  <2> QED BY <2>5, <2>6, <2>8, <2>9 DEF IInv, DelegationInv
<1> QED BY <1>4, <1>5

LEMMA NextInv == IInv /\ [Next]_vars => IInv'
<1> SUFFICES ASSUME IInv, [Next]_vars PROVE IInv'
  OBVIOUS
<1>0. TypeOK /\ OneOpenRequest /\ SignatureBindsRequest /\ PendingBinds
  BY DEF IInv, DelegationInv
<1>1. CASE Crash
  BY <1>0, <1>1 DEF Crash, IInv, DelegationInv, TypeOK, OneOpenRequest,
                    SignatureBindsRequest, PendingBinds
<1>2. CASE Tick
  <2>1. now' \in 0..MaxTime
    BY <1>0, <1>2, DelegationAssumption DEF Tick, TypeOK
  <2> QED BY <1>0, <1>2, <2>1 DEF Tick, IInv, DelegationInv, TypeOK,
             OneOpenRequest, SignatureBindsRequest, PendingBinds, Has
<1>3. CASE UNCHANGED vars
  BY <1>0, <1>3 DEF vars, IInv, DelegationInv, TypeOK, OneOpenRequest,
                    SignatureBindsRequest, PendingBinds, Has
<1> QED BY <1>1, <1>2, <1>3, RequestInv, TargetInv, RecordInv DEF Next

\* The table of requests: one open row per device and sandbox, and every
\* signature binds the sandbox key of its own row, however sign handlers,
\* repeated requests, expiry and crashes interleave (delegation.rs:208-252).
THEOREM TableCorrect == Spec => []DelegationInv
<1>1. IInv => DelegationInv
  BY DEF IInv
<1> QED BY <1>1, InitInv, NextInv, PTL DEF Spec

\* The first co-signature stands: no second one overwrites it and no later
\* request removes it (agent_delegations.rs:288-335).
THEOREM FirstSignatureStands == Spec => SignedIsFinal
<1>1. IInv /\ [Next]_vars
        => [\A r \in Requests : rows[r].state = "signed" => rows'[r] = rows[r]]_vars
  <2> SUFFICES ASSUME IInv, Next, NEW r \in Requests, rows[r].state = "signed"
               PROVE  rows'[r] = rows[r]
    OBVIOUS
  <2>0. rows = [q \in Requests |-> rows[q]]
    BY DEF IInv, DelegationInv, TypeOK
  <2>1. ASSUME NEW q \in Requests, NEW d \in Devices, NEW b \in Sandboxes,
               delegation_request(q, d, b)
        PROVE  rows'[r] = rows[r]
    BY <2>1 DEF delegation_request, Dropped, Unused
  <2>2. ASSUME NEW s \in Signers, record_signature(s)
        PROVE  rows'[r] = rows[r]
    BY <2>0, <2>2 DEF record_signature, Recordable
  <2>3. ASSUME NEW s \in Signers, NEW q \in Requests, NEW d \in Devices,
               NEW sig \in Sigs, sign_target(s, q, d, sig)
        PROVE  rows'[r] = rows[r]
    BY <2>3 DEF sign_target
  <2> QED BY <2>1, <2>2, <2>3 DEF Next, Crash, Tick
<1> QED BY <1>1, InitInv, NextInv, PTL DEF Spec, SignedIsFinal
-----------------------------------------------------------------------------
(* Finite sets.                                                            *)

\* A set of numbers has a least one.
LEMMA LeastNumber ==
  ASSUME NEW T, T \subseteq Nat, T # {}
  PROVE  \E x \in T : \A y \in T : x <= y
<1>1. PICK R : R = OpToRel(<, Nat)
  OBVIOUS
<1>2. IsWellFoundedOn(R, Nat)
  BY <1>1, NatLessThanWellFounded
<1>3. \A x, y \in Nat : x < y => <<x, y>> \in R
  BY <1>1 DEF OpToRel
<1>4. PICK x \in T : \A y \in T : ~(<<y, x>> \in R)
  BY <1>2, WFMin
<1>5. \A y \in T : ~(y < x)
  BY <1>3, <1>4
<1> QED BY <1>5

\* Among finite sets there is one without a smaller one.
LEMMA SmallestSet ==
  ASSUME NEW S, IsFiniteSet(S), NEW F, F \subseteq SUBSET S, F # {}
  PROVE  \E T \in F : \A U \in SUBSET T : U # T => U \notin F
<1>1. \A T \in SUBSET S : IsFiniteSet(T) /\ Cardinality(T) \in Nat
  BY FS_Subset, FS_CardinalityType
<1> DEFINE sizes == {Cardinality(T) : T \in F}
<1>2. sizes \subseteq Nat /\ sizes # {}
  BY <1>1
<1>3. PICK n \in sizes : \A m \in sizes : n <= m
  BY <1>2, LeastNumber
<1>4. PICK T \in F : Cardinality(T) = n
  BY <1>3
<1>5. ASSUME NEW U \in SUBSET T, U # T, U \in F PROVE FALSE
  <2>1. Cardinality(U) <= Cardinality(T) /\ Cardinality(U) # Cardinality(T)
    BY <1>1, <1>5, FS_Subset
  <2>2. Cardinality(U) \in sizes
    BY <1>5
  <2> QED BY <1>1, <1>3, <1>4, <1>5, <2>1, <2>2
<1> QED BY <1>4, <1>5
-----------------------------------------------------------------------------
(* Sums over a finite set.                                                 *)

Some(T) == CHOOSE x \in T : TRUE

\* What MapThenSumSet computes on the way: g adds up f over every part of S.
Sums(f, S, g) ==
  g = [T \in SUBSET S |-> IF T = {} THEN 0 ELSE f[Some(T)] + g[T \ {Some(T)}]]

LEMMA SomeOf == ASSUME NEW T, T # {} PROVE Some(T) \in T
BY DEF Some

\* There is such a g, by the number of elements it is right for.
LEMMA SumsExist ==
  ASSUME NEW S, IsFiniteSet(S), NEW f \in [S -> Nat]
  PROVE  \E g : Sums(f, S, g)
<1> DEFINE Adds(g, n) ==
      \A T \in SUBSET S : Cardinality(T) <= n =>
        g[T] = IF T = {} THEN 0 ELSE f[Some(T)] + g[T \ {Some(T)}]
    G == [SUBSET S -> Nat]
    bad == {n \in Nat : ~\E g \in G : Adds(g, n)}
<1>1. \A T \in SUBSET S : IsFiniteSet(T) /\ Cardinality(T) \in Nat
  BY FS_Subset, FS_CardinalityType
<1>2. \A T \in SUBSET S : T # {} =>
        /\ Some(T) \in S /\ f[Some(T)] \in Nat
        /\ T \ {Some(T)} \in SUBSET S
        /\ Cardinality(T \ {Some(T)}) = Cardinality(T) - 1
  <2> SUFFICES ASSUME NEW T \in SUBSET S, T # {}
               PROVE  /\ Some(T) \in S /\ f[Some(T)] \in Nat
                      /\ T \ {Some(T)} \in SUBSET S
                      /\ Cardinality(T \ {Some(T)}) = Cardinality(T) - 1
    OBVIOUS
  <2>1. Some(T) \in T
    BY SomeOf
  <2> QED BY <1>1, <2>1, FS_RemoveElement
<1>3. ASSUME NEW n \in Nat, NEW g \in G, Adds(g, n)
      PROVE  \E h \in G : Adds(h, n + 1)
  <2> DEFINE h == [T \in SUBSET S |-> IF Cardinality(T) = n + 1
                                      THEN f[Some(T)] + g[T \ {Some(T)}] ELSE g[T]]
  <2>1. \A T \in SUBSET S : Cardinality(T) = n + 1 => T # {}
    <3>1. Cardinality({}) = 0
      BY FS_EmptySet
    <3>2. n + 1 # 0
      OBVIOUS
    <3> QED BY <3>1, <3>2
  <2>2. h \in G
    BY <1>2, <2>1
  <2>3. ASSUME NEW T \in SUBSET S, Cardinality(T) <= n + 1
        PROVE  h[T] = IF T = {} THEN 0 ELSE f[Some(T)] + h[T \ {Some(T)}]
    <3>1. CASE Cardinality(T) = n + 1
      <4>1. T # {} /\ T \ {Some(T)} \in SUBSET S /\ Cardinality(T \ {Some(T)}) # n + 1
        BY <1>2, <2>1, <3>1
      <4> QED BY <3>1, <4>1
    <3>2. CASE Cardinality(T) # n + 1
      <4>1. Cardinality(T) <= n /\ h[T] = g[T]
        BY <1>1, <2>3, <3>2
      <4>2. g[T] = IF T = {} THEN 0 ELSE f[Some(T)] + g[T \ {Some(T)}]
        BY <1>3, <4>1
      <4>3. T # {} => h[T \ {Some(T)}] = g[T \ {Some(T)}]
        BY <1>1, <1>2, <4>1
      <4> QED BY <4>1, <4>2, <4>3
    <3> QED BY <3>1, <3>2
  <2> HIDE DEF h
  <2> QED BY <2>2, <2>3
<1>4. \E g \in G : Adds(g, 0)
  <2> DEFINE g == [T \in SUBSET S |-> 0]
  <2>1. g \in G
    OBVIOUS
  <2>2. \A T \in SUBSET S : Cardinality(T) <= 0 => T = {}
    BY <1>1, FS_EmptySet
  <2>3. Adds(g, 0)
    BY <2>2
  <2> QED BY <2>1, <2>3
<1>5. bad = {}
  <2> SUFFICES ASSUME bad # {} PROVE FALSE
    OBVIOUS
  <2>0. bad \subseteq Nat
    OBVIOUS
  <2>1. PICK n \in bad : \A m \in bad : n <= m
    <3> HIDE DEF bad
    <3> QED BY <2>0, LeastNumber
  <2>2. n # 0
    BY <1>4, <2>1
  <2>3. n - 1 \in Nat /\ n - 1 \notin bad
    <3> HIDE DEF bad
    <3> QED BY <2>0, <2>1, <2>2
  <2>4. PICK g \in G : Adds(g, n - 1)
    BY <2>3
  <2>5. \E h \in G : Adds(h, (n - 1) + 1)
    BY <1>3, <2>3, <2>4
  <2>6. (n - 1) + 1 = n
    BY <2>1
  <2>7. \E h \in G : Adds(h, n)
    <3> HIDE DEF Adds, G
    <3> QED BY <2>5, <2>6
  <2> QED BY <2>1, <2>7
<1>6. PICK g \in G : Adds(g, Cardinality(S))
  BY <1>1, <1>5
<1>7. \A T \in SUBSET S : Cardinality(T) <= Cardinality(S)
  BY FS_Subset
<1>8. \A T \in SUBSET S : g[T] = IF T = {} THEN 0 ELSE f[Some(T)] + g[T \ {Some(T)}]
  BY <1>6, <1>7
<1>9. Sums(f, S, g)
  BY <1>6, <1>8 DEF Sums
<1> QED BY <1>9

LEMMA TotalIs ==
  ASSUME NEW S, IsFiniteSet(S), NEW f \in [S -> Nat]
  PROVE  \E g : Sums(f, S, g) /\ Total(f, S) = g[S]
<1>1. Total(f, S) = (CHOOSE g : Sums(f, S, g))[S]
  BY Zenon DEF Total, MapThenSumSet, MapThenFoldSet, Sums, Some
<1>2. Sums(f, S, CHOOSE g : Sums(f, S, g))
  BY SumsExist, Zenon
<1> QED BY <1>1, <1>2, Zenon

\* Two functions that differ at one point: the difference is carried into the
\* sum of every part that has the point.
LEMMA SumsDiffer ==
  ASSUME NEW S, IsFiniteSet(S), NEW f \in [S -> Nat], NEW h \in [S -> Nat],
         NEW a, NEW b, Sums(f, S, a), Sums(h, S, b),
         NEW x, \A y \in S : y # x => h[y] = f[y]
  PROVE  \A T \in SUBSET S :
           /\ a[T] \in Nat /\ b[T] \in Nat
           /\ x \in T => b[T] = a[T] + h[x] - f[x]
           /\ x \notin T => b[T] = a[T]
<1> DEFINE Good(T) == /\ a[T] \in Nat /\ b[T] \in Nat
                      /\ x \in T => b[T] = a[T] + h[x] - f[x]
                      /\ x \notin T => b[T] = a[T]
           F == {T \in SUBSET S : ~Good(T)}
<1> SUFFICES ASSUME F # {} PROVE FALSE
  OBVIOUS
<1>0. F \subseteq SUBSET S
  OBVIOUS
<1>1. PICK T \in F : \A U \in SUBSET T : U # T => U \notin F
  <2> HIDE DEF F
  <2> QED BY <1>0, SmallestSet
<1>2. /\ a[T] = IF T = {} THEN 0 ELSE f[Some(T)] + a[T \ {Some(T)}]
      /\ b[T] = IF T = {} THEN 0 ELSE h[Some(T)] + b[T \ {Some(T)}]
  BY DEF Sums
<1>3. T # {}
  BY <1>1, <1>2
<1>4. PICK y : y = Some(T)
  OBVIOUS
<1>5. y \in T /\ y \in S
  BY <1>1, <1>3, <1>4, SomeOf
<1>6. Good(T \ {y})
  BY <1>1, <1>5
<1>7. a[T] = f[y] + a[T \ {y}] /\ b[T] = h[y] + b[T \ {y}]
  BY <1>2, <1>3, <1>4
<1>8. f[y] \in Nat /\ h[y] \in Nat
  BY <1>5
<1>9. Good(T)
  <2>1. CASE y = x
    BY <1>5, <1>6, <1>7, <1>8, <2>1
  <2>2. CASE y # x
    <3>1. h[y] = f[y]
      BY <1>5, <2>2
    <3>2. x \in T => h[x] \in Nat /\ f[x] \in Nat
      BY <1>1
    <3> QED BY <1>5, <1>6, <1>7, <1>8, <2>2, <3>1, <3>2
  <2> QED BY <2>1, <2>2
<1> QED BY <1>1, <1>9

\* A sum changes by as much as the one term that changes.
LEMMA TotalChange ==
  ASSUME NEW S, IsFiniteSet(S), NEW f \in [S -> Nat], NEW h \in [S -> Nat],
         NEW x \in S, \A y \in S : y # x => h[y] = f[y]
  PROVE  /\ Total(f, S) \in Nat
         /\ Total(h, S) = Total(f, S) + h[x] - f[x]
<1>1. PICK a : Sums(f, S, a) /\ Total(f, S) = a[S]
  BY TotalIs
<1>2. PICK b : Sums(h, S, b) /\ Total(h, S) = b[S]
  BY TotalIs
<1>3. a[S] \in Nat /\ b[S] = a[S] + h[x] - f[x]
  BY <1>1, <1>2, SumsDiffer
<1> QED BY <1>1, <1>2, <1>3

LEMMA TotalZero ==
  ASSUME NEW S, IsFiniteSet(S), NEW f \in [S -> Nat], \A x \in S : f[x] = 0
  PROVE  Total(f, S) = 0
<1>1. PICK a : Sums(f, S, a) /\ Total(f, S) = a[S]
  BY TotalIs
<1> DEFINE F == {T \in SUBSET S : a[T] # 0}
<1>2. F = {}
  <2> SUFFICES ASSUME F # {} PROVE FALSE
    OBVIOUS
  <2>0. F \subseteq SUBSET S
    OBVIOUS
  <2>1. PICK T \in F : \A U \in SUBSET T : U # T => U \notin F
    <3> HIDE DEF F
    <3> QED BY <2>0, SmallestSet
  <2>2. a[T] = IF T = {} THEN 0 ELSE f[Some(T)] + a[T \ {Some(T)}]
    BY <1>1, <2>1 DEF Sums
  <2>3. CASE T # {}
    <3>1. Some(T) \in T /\ Some(T) \in S
      BY <2>1, <2>3, SomeOf
    <3>2. a[T \ {Some(T)}] = 0 /\ f[Some(T)] = 0
      BY <2>1, <3>1
    <3> QED BY <2>1, <2>2, <2>3, <3>2
  <2> QED BY <2>1, <2>2, <2>3
<1> QED BY <1>1, <1>2

LEMMA TotalNat ==
  ASSUME NEW S, IsFiniteSet(S), NEW f \in [S -> Nat]
  PROVE  Total(f, S) \in Nat
<1>1. PICK a : Sums(f, S, a) /\ Total(f, S) = a[S]
  BY TotalIs
<1>2. a[S] \in Nat
  BY <1>1, SumsDiffer
<1> QED BY <1>1, <1>2
-----------------------------------------------------------------------------
(* The key registry.                                                       *)

\* The positions of a finite set are numbered from 1 without a gap.
LEMMA NthOf ==
  ASSUME NEW S, IsFiniteSet(S), S \subseteq Nat
  PROVE  /\ Cardinality(S) \in Nat
         /\ \A n \in 1..Cardinality(S) : Nth(S, n) \in S
         /\ \A m, n \in 1..Cardinality(S) : Nth(S, m) = Nth(S, n) => m = n
         /\ \A k \in S : \E n \in 1..Cardinality(S) : Nth(S, n) = k
<1> DEFINE Upto(k) == {j \in S : j <= k}
           rank == [k \in S |-> Cardinality(Upto(k))]
           N == Cardinality(S)
<1>1. N \in Nat
  BY FS_CardinalityType
<1>2. \A k \in S : IsFiniteSet(Upto(k)) /\ Cardinality(Upto(k)) \in Nat
                   /\ Cardinality(Upto(k)) <= N
  BY FS_Subset, FS_CardinalityType
<1>3. \A k \in S : Cardinality(Upto(k)) # 0
  <2> SUFFICES ASSUME NEW k \in S PROVE Cardinality(Upto(k)) # 0
    OBVIOUS
  <2>1. k \in Upto(k)
    OBVIOUS
  <2> HIDE DEF Upto
  <2> QED BY <1>2, <2>1, FS_EmptySet
<1>4. ASSUME NEW j \in S, NEW k \in S, j < k
      PROVE  Cardinality(Upto(j)) # Cardinality(Upto(k))
  <2>1. Upto(j) \subseteq Upto(k)
    <3> SUFFICES ASSUME NEW i \in S, i <= j PROVE i <= k
      OBVIOUS
    <3>1. i \in Nat /\ j \in Nat /\ k \in Nat
      OBVIOUS
    <3> QED BY <1>4, <3>1
  <2>2. k \in Upto(k) /\ k \notin Upto(j)
    BY <1>4
  <2> HIDE DEF Upto
  <2> QED BY <1>2, <2>1, <2>2, FS_Subset
<1>5. \A j, k \in S : rank[j] = rank[k] => j = k
  <2> SUFFICES ASSUME NEW j \in S, NEW k \in S, rank[j] = rank[k], j # k PROVE FALSE
    OBVIOUS
  <2>1. j < k \/ k < j
    OBVIOUS
  <2> HIDE DEF Upto
  <2> QED BY <1>4, <2>1
<1>6. rank \in [S -> 1..N]
  <2> HIDE DEF Upto, N
  <2> QED BY <1>1, <1>2, <1>3
<1>7. rank \in Injection(S, 1..N)
  BY <1>5, <1>6 DEF Injection, IsInjective
<1>8. IsFiniteSet(1..N) /\ Cardinality(1..N) = N
  BY <1>1, FS_Interval
<1>9. rank \in Surjection(S, 1..N)
  <2> HIDE DEF rank
  <2> QED BY <1>7, <1>8, FS_Injection
<1>10. \A n \in 1..N : \E k \in S : rank[k] = n
  BY <1>9 DEF Surjection
<1>11. \A n \in 1..N : Nth(S, n) \in S /\ rank[Nth(S, n)] = n
  <2> SUFFICES ASSUME NEW n \in 1..N
               PROVE  Nth(S, n) \in S /\ rank[Nth(S, n)] = n
    OBVIOUS
  <2>1. PICK k \in S : Cardinality({j \in S : j <= k}) = n
    BY <1>10
  <2>2. Nth(S, n) \in S /\ Cardinality({j \in S : j <= Nth(S, n)}) = n
    BY <2>1, Zenon DEF Nth
  <2> QED BY <2>2
<1> HIDE DEF rank, N
<1>12. \A k \in S : rank[k] \in 1..N /\ Nth(S, rank[k]) = k
  BY <1>5, <1>6, <1>11
<1> QED BY <1>1, <1>11, <1>12 DEF N

\* What a list of rows has whatever order it is in: the rows, no secret twice.
Distinct(list) ==
  /\ list \in Seq(Rows)
  /\ \A j, k \in DOMAIN list : list[j].secret = list[k].secret => j = k

LEMMA RowFields ==
  ASSUME NEW list \in Seq(Rows), NEW k \in DOMAIN list
  PROVE  /\ list[k] \in Rows /\ list[k].id \in Ids
         /\ list[k].secret \in 1..MaxSecrets /\ list[k].off \in BOOLEAN
<1>1. list[k] \in Rows
  OBVIOUS
<1> QED BY <1>1 DEF Rows

\* The first of a set of positions is one of them.
LEMMA MinOf ==
  ASSUME NEW S, S \subseteq Nat, S # {}
  PROVE  Min(S) \in S
BY LeastNumber DEF Min

\* After a provision: the new row, and the old rows of the other ids.
LEMMA PlacedRows ==
  ASSUME Distinct(keys), NEW row \in Rows,
         \A k \in DOMAIN keys : keys[k].secret # row.secret
  PROVE  /\ Distinct(Placed(row))
         /\ \A n \in DOMAIN Placed(row) :
              \/ Placed(row)[n] = row
              \/ \E k \in DOMAIN keys : Placed(row)[n] = keys[k] /\ keys[k].id # row.id
         /\ \E n \in DOMAIN Placed(row) : Placed(row)[n] = row
         /\ \A k \in DOMAIN keys : keys[k].id # row.id =>
              \E n \in DOMAIN Placed(row) : Placed(row)[n] = keys[k]
<1> DEFINE at == {k \in DOMAIN keys : keys[k].id = row.id}
           kept == {k \in DOMAIN keys : k \in at => k = Min(at)}
           RowAt(k) == IF k \in at THEN row ELSE keys[k]
           N == Cardinality(kept)
           new == Placed(row)
<1>0. keys \in Seq(Rows) /\ DOMAIN keys = 1..Len(keys) /\ Len(keys) \in Nat
  BY DEF Distinct
<1>1. CASE at = {}
  <2>1. new = Append(keys, row)
    BY <1>1, Zenon DEF Placed
  <2>2. /\ new \in Seq(Rows) /\ DOMAIN new = 1..(Len(keys) + 1)
        /\ \A k \in DOMAIN keys : new[k] = keys[k]
        /\ new[Len(keys) + 1] = row
    BY <1>0, <2>1
  <2> HIDE DEF new
  <2>3. \A n \in DOMAIN new : n \in DOMAIN keys \/ n = Len(keys) + 1
    BY <1>0, <2>2
  <2>4. \A k \in DOMAIN keys : k \in DOMAIN new /\ k # Len(keys) + 1
    BY <1>0, <2>2
  <2>5. Distinct(new)
    BY <2>2, <2>3, <2>4 DEF Distinct
  <2>6. \A k \in DOMAIN keys : keys[k].id # row.id
    BY <1>1
  <2>7. Len(keys) + 1 \in DOMAIN new
    BY <1>0, <2>2
  <2> QED BY <2>2, <2>3, <2>4, <2>5, <2>6, <2>7 DEF new
<1>2. CASE at # {}
  <2>1. Min(at) \in at
    BY <1>0, <1>2, MinOf
  <2>2. new = [n \in 1..N |-> RowAt(Nth(kept, n))]
    BY <1>2, Zenon DEF Placed
  <2>3. IsFiniteSet(kept) /\ kept \subseteq Nat
    <3>1. IsFiniteSet(DOMAIN keys)
      BY <1>0, FS_Interval
    <3>2. kept \subseteq DOMAIN keys
      OBVIOUS
    <3> HIDE DEF kept
    <3> QED BY <1>0, <3>1, <3>2, FS_Subset
  <2>4. /\ \A k \in kept : RowAt(k) \in Rows
        /\ \A k \in kept : RowAt(k) = row \/ (RowAt(k) = keys[k] /\ keys[k].id # row.id)
        /\ Min(at) \in kept /\ RowAt(Min(at)) = row
        /\ \A k \in DOMAIN keys : keys[k].id # row.id => k \in kept /\ RowAt(k) = keys[k]
    <3>1. \A k \in DOMAIN keys : keys[k] \in Rows
      BY <1>0
    <3>2. \A k \in kept : k \in DOMAIN keys
      OBVIOUS
    <3>3. \A k \in kept : RowAt(k) \in Rows
      BY <3>1, <3>2
    <3>4. ASSUME NEW k \in kept
          PROVE  RowAt(k) = row \/ (RowAt(k) = keys[k] /\ keys[k].id # row.id)
      <4>1. k \notin at => keys[k].id # row.id
        BY <3>2
      <4> HIDE DEF at
      <4> QED BY <4>1
    <3>5. Min(at) \in kept /\ RowAt(Min(at)) = row
      BY <2>1
    <3>6. \A k \in DOMAIN keys : keys[k].id # row.id => k \in kept /\ RowAt(k) = keys[k]
      OBVIOUS
    <3> QED BY <3>3, <3>4, <3>5, <3>6
  <2>5. \A j, k \in kept : RowAt(j).secret = RowAt(k).secret => j = k
    BY <2>1 DEF Distinct
  <2>6. kept \subseteq DOMAIN keys
    OBVIOUS
  <2> HIDE DEF kept, RowAt, new, at
  <2>7. /\ N \in Nat
        /\ \A n \in 1..N : Nth(kept, n) \in kept
        /\ \A m, n \in 1..N : Nth(kept, m) = Nth(kept, n) => m = n
        /\ \A k \in kept : \E n \in 1..N : Nth(kept, n) = k
    BY <2>3, NthOf
  <2> HIDE DEF N
  <2>8. /\ new \in Seq(Rows) /\ DOMAIN new = 1..N
        /\ \A n \in 1..N : new[n] = RowAt(Nth(kept, n))
    BY <2>2, <2>4, <2>7
  <2>9. Distinct(new)
    BY <2>5, <2>7, <2>8 DEF Distinct
  <2>10. \A k \in kept : \E n \in DOMAIN new : new[n] = RowAt(k)
    BY <2>7, <2>8
  <2>11. \A n \in DOMAIN new :
           \/ new[n] = row
           \/ \E k \in DOMAIN keys : new[n] = keys[k] /\ keys[k].id # row.id
    BY <2>4, <2>6, <2>7, <2>8
  <2>12. \E n \in DOMAIN new : new[n] = row
    BY <2>4, <2>10
  <2>13. \A k \in DOMAIN keys : keys[k].id # row.id =>
           \E n \in DOMAIN new : new[n] = keys[k]
    BY <2>4, <2>10
  <2> QED BY <2>9, <2>11, <2>12, <2>13 DEF new
<1> QED BY <1>1, <1>2

\* A list of rows that fits the secrets handed out so far, what the broker was
\* told and what it saw revoked.
Sound(list, last, seen, dead) ==
  /\ Distinct(list)
  /\ \A k \in DOMAIN list : list[k].secret <= last
  /\ \A id \in Ids :
       /\ Live(list, id) \cap dead = {}
       /\ seen[id] \in 1..MaxSecrets => Live(list, id) = {seen[id]}
       /\ seen[id] = Off => Live(list, id) = {}

Views == [Ids -> 1..MaxSecrets \cup {Boot, Unsure, Off}]

KeysIInv ==
  /\ failed \in BOOLEAN /\ minted \in 0..MaxSecrets /\ crashes \in 0..MaxCrashes
  /\ view \in Views
  /\ revoked \subseteq 1..minted
  /\ ServesWhatIsPersisted
  /\ Sound(keys, minted, view, revoked) /\ Sound(disk, minted, view, revoked)

LEMMA LiveIn ==
  ASSUME NEW list, NEW id, NEW s
  PROVE  s \in Live(list, id) <=>
           \E k \in DOMAIN list : list[k].id = id /\ ~list[k].off /\ list[k].secret = s
BY DEF Live

LEMMA LiveApart ==
  ASSUME NEW list, Distinct(list), NEW p, NEW q, p # q
  PROVE  Live(list, p) \cap Live(list, q) = {}
BY LiveIn DEF Distinct

LEMMA LiveBound ==
  ASSUME NEW list, Distinct(list), NEW last \in 0..MaxSecrets,
         \A k \in DOMAIN list : list[k].secret <= last, NEW id
  PROVE  Live(list, id) \subseteq 1..last
<1> SUFFICES ASSUME NEW s \in Live(list, id) PROVE s \in 1..last
  OBVIOUS
<1>1. PICK k \in DOMAIN list : list[k].secret = s
  BY LiveIn
<1>2. list[k].secret \in 1..MaxSecrets /\ list[k].secret <= last
  BY RowFields DEF Distinct
<1> QED BY <1>1, <1>2, KeysAssumption

\* A change of an id: the rows of the others stay, and the answer is the one
\* live secret of it, a fresh one, or says that there is none.
Replaces(old, list, m, last, id, answer) ==
  /\ m \in 0..MaxSecrets /\ last \in 0..MaxSecrets /\ m <= last
  /\ Distinct(list) /\ \A k \in DOMAIN list : list[k].secret <= last
  /\ \A q \in Ids : q # id => Live(list, q) = Live(old, q)
  /\ \/ answer = Off /\ Live(list, id) = {}
     \/ answer = last /\ m < last /\ Live(list, id) = {last}

\* What the change leaves is sound for a broker that is told the answer; and
\* both lists are for one that is left unsure.
LEMMA SoundAfter ==
  ASSUME NEW old, NEW list, NEW m, NEW last, NEW seen \in Views, NEW dead, NEW id \in Ids,
         NEW answer, dead \subseteq 1..m, Sound(old, m, seen, dead),
         Replaces(old, list, m, last, id, answer)
  PROVE  /\ Sound(list, last, [seen EXCEPT ![id] = answer],
                  dead \cup (Live(old, id) \ {answer}))
         /\ Sound(list, last, [seen EXCEPT ![id] = Unsure], dead)
         /\ Sound(old, last, [seen EXCEPT ![id] = Unsure], dead)
         /\ dead \cup (Live(old, id) \ {answer}) \subseteq 1..last
<1> USE DEF Views, Replaces
<1>1. /\ Distinct(old)
      /\ \A q \in Ids : /\ Live(old, q) \cap dead = {}
                        /\ seen[q] \in 1..MaxSecrets => Live(old, q) = {seen[q]}
                        /\ seen[q] = Off => Live(old, q) = {}
  BY DEF Sound
<1>2. \A q \in Ids : Live(old, q) \subseteq 1..m
  BY LiveBound DEF Sound
<1>3. \A k \in DOMAIN old : old[k].secret <= last
  <2> SUFFICES ASSUME NEW k \in DOMAIN old PROVE old[k].secret <= last
    OBVIOUS
  <2>1. old[k].secret \in 1..MaxSecrets /\ old[k].secret <= m
    BY RowFields DEF Distinct, Sound
  <2> QED BY <2>1, KeysAssumption
<1>4. Live(list, id) \cap (1..m) = {}
  BY KeysAssumption
<1>5. dead \cup (Live(old, id) \ {answer}) \subseteq 1..last
  <2>1. 1..m \subseteq 1..last
    BY KeysAssumption
  <2> QED BY <1>2, <2>1
<1>6. \A q \in Ids : Live(list, q) \cap dead = {}
  BY <1>1, <1>4
<1>7. \A q \in Ids : Live(list, q) \cap (dead \cup (Live(old, id) \ {answer})) = {}
  <2> SUFFICES ASSUME NEW q \in Ids
               PROVE  Live(list, q) \cap (Live(old, id) \ {answer}) = {}
    BY <1>6
  <2>1. CASE q = id
    BY <1>2, <1>4, <2>1
  <2>2. CASE q # id
    BY <1>1, <2>2, LiveApart
  <2> QED BY <2>1, <2>2
<1>8. Off \notin 1..MaxSecrets /\ Unsure \notin 1..MaxSecrets /\ Unsure # Off
  BY DEF Off, Unsure
<1>9. ASSUME NEW q \in Ids
       PROVE  /\ [seen EXCEPT ![id] = answer][q] \in 1..MaxSecrets =>
                   Live(list, q) = {[seen EXCEPT ![id] = answer][q]}
              /\ [seen EXCEPT ![id] = answer][q] = Off => Live(list, q) = {}
  <2>1. CASE q = id
    <3>1. [seen EXCEPT ![id] = answer][q] = answer
      BY <2>1
    <3>2. answer = Off => Live(list, id) = {}
      BY KeysAssumption DEF Off
    <3>3. answer \in 1..MaxSecrets => Live(list, id) = {answer}
      BY <1>8
    <3> QED BY <2>1, <3>1, <3>2, <3>3
  <2>2. CASE q # id
    BY <1>1, <2>2
  <2> QED BY <2>1, <2>2
<1>10. ASSUME NEW q \in Ids, NEW l, q # id => Live(l, q) = Live(old, q)
       PROVE  /\ [seen EXCEPT ![id] = Unsure][q] \in 1..MaxSecrets =>
                   Live(l, q) = {[seen EXCEPT ![id] = Unsure][q]}
              /\ [seen EXCEPT ![id] = Unsure][q] = Off => Live(l, q) = {}
  <2>1. CASE q = id
    BY <1>8, <2>1
  <2>2. CASE q # id
    BY <1>1, <1>10, <2>2
  <2> QED BY <2>1, <2>2
<1>11. Sound(list, last, [seen EXCEPT ![id] = answer],
             dead \cup (Live(old, id) \ {answer}))
  BY <1>7, <1>9 DEF Sound
<1>12. Sound(list, last, [seen EXCEPT ![id] = Unsure], dead)
  BY <1>6, <1>10 DEF Sound
<1>13. Sound(old, last, [seen EXCEPT ![id] = Unsure], dead)
  BY <1>1, <1>3, <1>10 DEF Sound
<1> QED BY <1>5, <1>11, <1>12, <1>13

\* The three ends of a change.
LEMMA WriteThroughInv ==
  ASSUME KeysIInv, ~failed, NEW id \in Ids, NEW list, NEW answer,
         Replaces(keys, list, minted, minted', id, answer),
         write_through(id, list, answer)
  PROVE  KeysIInv'
<1>0. minted' \in 0..MaxSecrets
  BY DEF Replaces
<1>1. /\ failed \in BOOLEAN /\ crashes \in 0..MaxCrashes
      /\ view \in Views /\ revoked \subseteq 1..minted
      /\ keys = disk /\ Sound(keys, minted, view, revoked)
  BY DEF KeysIInv, ServesWhatIsPersisted
<1>2. /\ Sound(list, minted', [view EXCEPT ![id] = answer],
               revoked \cup (Live(keys, id) \ {answer}))
      /\ Sound(list, minted', [view EXCEPT ![id] = Unsure], revoked)
      /\ Sound(keys, minted', [view EXCEPT ![id] = Unsure], revoked)
      /\ answer \in 1..MaxSecrets \cup {Off}
      /\ revoked \cup (Live(keys, id) \ {answer}) \subseteq 1..minted'
  <2>1. Sound(list, minted', [view EXCEPT ![id] = answer],
              revoked \cup (Live(keys, id) \ {answer}))
    BY <1>1, SoundAfter, Zenon
  <2>2. Sound(list, minted', [view EXCEPT ![id] = Unsure], revoked)
    BY <1>1, SoundAfter, Zenon
  <2>3. Sound(keys, minted', [view EXCEPT ![id] = Unsure], revoked)
    BY <1>1, SoundAfter, Zenon
  <2>4. answer \in 1..MaxSecrets \cup {Off}
    BY KeysAssumption DEF Replaces
  <2>5. revoked \cup (Live(keys, id) \ {answer}) \subseteq 1..minted'
    BY <1>1, SoundAfter, Zenon
  <2> QED BY <2>1, <2>2, <2>3, <2>4, <2>5
<1>3. revoked \subseteq 1..minted'
  BY <1>2
<1>4. [view EXCEPT ![id] = answer] \in Views /\ [view EXCEPT ![id] = Unsure] \in Views
  BY <1>1, <1>2 DEF Views
<1>5. CASE /\ Commits(list)
           /\ view' = [view EXCEPT ![id] = answer]
           /\ revoked' = revoked \cup (Live(keys, id) \ {answer})
           /\ UNCHANGED crashes
  <2>1. keys' = list /\ disk' = list /\ failed' = failed
    BY <1>5 DEF Commits
  <2> QED BY <1>0, <1>1, <1>2, <1>4, <1>5, <2>1 DEF KeysIInv, ServesWhatIsPersisted
<1>6. CASE /\ WriteFails(list)
           /\ view' = [view EXCEPT ![id] = Unsure]
           /\ UNCHANGED <<revoked, crashes>>
  <2>1. keys' = keys /\ (disk' = keys \/ disk' = list) /\ failed' = TRUE
    BY <1>1, <1>6 DEF WriteFails
  <2> QED BY <1>0, <1>1, <1>2, <1>3, <1>4, <1>6, <2>1 DEF KeysIInv, ServesWhatIsPersisted
<1>7. CASE /\ Dies(list)
           /\ view' = [view EXCEPT ![id] = Unsure]
           /\ UNCHANGED revoked
  <2>1. (disk' = keys \/ disk' = list) /\ keys' = disk' /\ failed' = FALSE
    BY <1>1, <1>7 DEF Dies
  <2>2. crashes' \in 0..MaxCrashes
    BY <1>1, <1>7, KeysAssumption DEF Dies
  <2> QED BY <1>0, <1>1, <1>2, <1>3, <1>4, <1>7, <2>1, <2>2
          DEF KeysIInv, ServesWhatIsPersisted
<1> QED BY <1>5, <1>6, <1>7 DEF write_through

LEMMA ProvisionInv ==
  ASSUME KeysIInv, NEW id \in Ids, NEW b \in Budgets, provision(id, b)
  PROVE  KeysIInv'
<1> DEFINE row == [id |-> id, secret |-> minted', off |-> FALSE, budget |-> b]
           list == Placed(row)
<1>1. /\ ~failed /\ minted \in 0..MaxSecrets /\ Distinct(keys)
      /\ \A k \in DOMAIN keys : keys[k].secret <= minted
  BY DEF KeysIInv, Sound, provision
<1>2. /\ minted' = minted + 1 /\ minted' \in 1..MaxSecrets
      /\ write_through(id, list, minted')
  BY <1>1, KeysAssumption DEF provision
<1>3. row \in Rows /\ row.id = id /\ row.secret = minted' /\ ~row.off
  BY <1>2 DEF Rows
<1>4. \A k \in DOMAIN keys : keys[k].secret \in 1..MaxSecrets
  BY <1>1, RowFields DEF Distinct
<1>5. \A k \in DOMAIN keys : keys[k].secret # row.secret /\ keys[k].secret <= minted'
  BY <1>1, <1>2, <1>3, <1>4
<1> HIDE DEF row
<1>6. /\ Distinct(list)
      /\ \A n \in DOMAIN list :
           \/ list[n] = row
           \/ \E k \in DOMAIN keys : list[n] = keys[k] /\ keys[k].id # row.id
      /\ \E n \in DOMAIN list : list[n] = row
      /\ \A k \in DOMAIN keys : keys[k].id # row.id =>
           \E n \in DOMAIN list : list[n] = keys[k]
  BY <1>1, <1>3, <1>5, PlacedRows
<1> HIDE DEF list
<1>7. \A k \in DOMAIN list : list[k].secret <= minted'
  BY <1>2, <1>3, <1>5, <1>6
<1>8. Live(list, id) = {minted'}
  <2>1. minted' \in Live(list, id)
    BY <1>3, <1>6, LiveIn
  <2>2. ASSUME NEW s \in Live(list, id) PROVE s = minted'
    BY <1>3, <1>6, LiveIn
  <2> QED BY <2>1, <2>2
<1>9. ASSUME NEW q \in Ids, q # id PROVE Live(list, q) = Live(keys, q)
  <2>1. ASSUME NEW s \in Live(list, q) PROVE s \in Live(keys, q)
    BY <1>3, <1>6, <1>9, LiveIn
  <2>2. ASSUME NEW s \in Live(keys, q) PROVE s \in Live(list, q)
    BY <1>3, <1>6, <1>9, LiveIn
  <2> QED BY <2>1, <2>2
<1>10. minted' \in 0..MaxSecrets /\ minted <= minted' /\ minted < minted'
  BY <1>1, <1>2
<1>11. Replaces(keys, list, minted, minted', id, minted')
  BY <1>1, <1>6, <1>7, <1>8, <1>9, <1>10 DEF Replaces
<1> QED BY <1>1, <1>2, <1>11, WriteThroughInv

LEMMA DisableInv ==
  ASSUME KeysIInv, NEW id \in Ids, disable(id)
  PROVE  KeysIInv'
<1> DEFINE list == Disabled(id)
<1>1. /\ ~failed /\ minted \in 0..MaxSecrets /\ Distinct(keys) /\ minted' = minted
      /\ \A k \in DOMAIN keys : keys[k].secret <= minted
  BY DEF KeysIInv, Sound, disable
<1>2. CASE Live(keys, id) # {}
  <2>1. write_through(id, list, Off)
    BY <1>2 DEF disable
  <2>2. \A k \in DOMAIN keys : keys[k] \in Rows
    BY <1>1 DEF Distinct
  <2>3. list \in Seq(Rows) /\ DOMAIN list = DOMAIN keys
    <3>1. keys \in Seq(Rows) /\ DOMAIN keys = 1..Len(keys) /\ Len(keys) \in Nat
      BY <1>1 DEF Distinct
    <3>2. \A k \in DOMAIN keys : [keys[k] EXCEPT !.off = TRUE] \in Rows
      BY <2>2 DEF Rows
    <3> QED BY <2>2, <3>1, <3>2 DEF Disabled
  <2>4. \A k \in DOMAIN keys :
          /\ list[k].id = keys[k].id /\ list[k].secret = keys[k].secret
          /\ keys[k].id = id => list[k].off
          /\ keys[k].id # id => list[k] = keys[k]
    BY <2>2 DEF Disabled, Rows
  <2> HIDE DEF list
  <2>5. Distinct(list) /\ \A k \in DOMAIN list : list[k].secret <= minted'
    BY <1>1, <2>3, <2>4 DEF Distinct
  <2>6. Live(list, id) = {}
    BY <2>3, <2>4 DEF Live
  <2>7. ASSUME NEW q \in Ids, q # id PROVE Live(list, q) = Live(keys, q)
    <3>1. ASSUME NEW s \in Live(list, q) PROVE s \in Live(keys, q)
      BY <2>3, <2>4, <2>7, LiveIn
    <3>2. ASSUME NEW s \in Live(keys, q) PROVE s \in Live(list, q)
      BY <2>3, <2>4, <2>7, LiveIn
    <3> QED BY <3>1, <3>2
  <2>8. minted' \in 0..MaxSecrets /\ minted <= minted'
    BY <1>1
  <2>9. Replaces(keys, list, minted, minted', id, Off)
    BY <1>1, <2>5, <2>6, <2>7, <2>8 DEF Replaces
  <2> QED BY <1>1, <2>1, <2>9, WriteThroughInv
<1>3. CASE Live(keys, id) = {}
  <2>1. /\ view' = [view EXCEPT ![id] = Off]
        /\ UNCHANGED <<keys, disk, failed, crashes, revoked>>
    BY <1>3 DEF disable
  <2>2. Sound(keys, minted, view', revoked)
    <3>1. \A q \in Ids : view'[q] = IF q = id THEN Off ELSE view[q]
      BY <2>1 DEF KeysIInv, Views
    <3>2. Off \notin 1..MaxSecrets
      BY DEF Off
    <3> QED BY <1>3, <3>1, <3>2 DEF KeysIInv, Sound
  <2>3. view' \in Views
    BY <2>1 DEF KeysIInv, Views
  <2>4. keys = disk
    BY <1>1 DEF KeysIInv, ServesWhatIsPersisted
  <2> QED BY <1>1, <2>1, <2>2, <2>3, <2>4 DEF KeysIInv, ServesWhatIsPersisted
<1> QED BY <1>2, <1>3

LEMMA RestartInv == ASSUME KeysIInv, Restart PROVE KeysIInv'
<1>1. crashes' \in 0..MaxCrashes
  BY KeysAssumption DEF KeysIInv, Restart
<1> QED BY <1>1 DEF KeysIInv, Restart, ServesWhatIsPersisted

LEMMA KeysInitInv == KeysInit => KeysIInv
<1> SUFFICES ASSUME KeysInit PROVE KeysIInv
  OBVIOUS
<1>1. PICK n \in 0..(MaxSecrets - 1) :
        /\ minted = n /\ disk \in [1..n -> Rows]
        /\ \A k \in 1..n : disk[k].secret = k
  BY DEF KeysInit
<1>2. n \in Nat /\ minted \in 0..MaxSecrets /\ crashes \in 0..MaxCrashes
  BY <1>1, KeysAssumption DEF KeysInit
<1>3. Distinct(disk) /\ \A k \in DOMAIN disk : disk[k].secret <= minted
  BY <1>1, <1>2 DEF Distinct
<1>4. \A id \in Ids : view[id] = Boot
  BY DEF KeysInit
<1>5. Boot \notin 1..MaxSecrets /\ Boot # Off
  BY DEF Boot, Off
<1>6. Sound(disk, minted, view, revoked)
  BY <1>3, <1>4, <1>5 DEF Sound, KeysInit
<1>7. view \in Views
  BY DEF KeysInit, Views
<1> QED BY <1>2, <1>6, <1>7 DEF KeysInit, KeysIInv, ServesWhatIsPersisted

LEMMA KeysStepInv == KeysIInv /\ [Change \/ Restart]_keyVars => KeysIInv'
<1> SUFFICES ASSUME KeysIInv, [Change \/ Restart]_keyVars PROVE KeysIInv'
  OBVIOUS
<1>1. CASE UNCHANGED keyVars
  BY <1>1 DEF keyVars, KeysIInv, ServesWhatIsPersisted
<1>2. CASE Change
  <2>1. PICK id \in Ids : disable(id) \/ \E b \in Budgets : provision(id, b)
    BY <1>2 DEF Change
  <2> QED BY <2>1, DisableInv, ProvisionInv
<1> QED BY <1>1, <1>2, RestartInv

\* The invariant gives both properties of the registry.
LEMMA KeysFromInv == KeysIInv => KeysInv /\ RevokedStaysRevoked
<1> SUFFICES ASSUME KeysIInv PROVE KeysInv /\ RevokedStaysRevoked
  OBVIOUS
<1>1. revoked \subseteq 1..MaxSecrets
  BY KeysAssumption DEF KeysIInv
<1>2. KeysTypeOK
  BY <1>1 DEF KeysIInv, Views, KeysTypeOK, Sound, Distinct
<1>3. BrokerViewHolds
  BY DEF KeysIInv, BrokerViewHolds, Sound
<1>4. RevokedStaysRevoked
  BY DEF KeysIInv, RevokedStaysRevoked, Sound
<1> QED BY <1>2, <1>3, <1>4 DEF KeysIInv, KeysInv

\* The registry keeps its promises whatever fails, crashes, restarts or is
\* retried: memory, file and the broker's record agree, and what was revoked
\* stays dead (keys.rs:143-279, protected_file.rs:102-193).
THEOREM RegistryCorrect == KeysSpec => [](KeysInv /\ RevokedStaysRevoked)
BY KeysInitInv, KeysStepInv, KeysFromInv, PTL DEF KeysSpec

\* Seen through its keys the relay is the registry: no handler of a turn touches
\* them, and a crash does to them what the registry allows (relay.rs, keys.rs).
THEOREM RelayKeepsRegistry == RelaySpec => KeysSpec
<1>1. RelayInit => KeysInit
  BY DEF RelayInit
<1>2. [RelayNext]_relayVars => [Change \/ Restart]_keyVars
  <2> SUFFICES ASSUME [RelayNext]_relayVars PROVE (Change \/ Restart) \/ UNCHANGED keyVars
    OBVIOUS
  <2>1. CASE UNCHANGED relayVars
    BY <2>1 DEF relayVars
  <2>2. CASE Keys
    BY <2>2 DEF Keys, KeyStep
  <2>3. ASSUME NEW t \in Turns, Turn(t) PROVE UNCHANGED keyVars
    BY <2>3 DEF Turn, authenticate_live, Check, UpstreamFails, UpstreamAnswers,
       record, BodyFails, Audited, AuditFails, HangUp
  <2> QED BY <2>1, <2>2, <2>3 DEF RelayNext
<1> QED BY <1>1, <1>2, PTL DEF RelaySpec, KeysSpec
-----------------------------------------------------------------------------
(* The turns.                                                              *)

\* A turn past its check, or without one, that may still burn tokens.
Spends(x) == x.step \in {"sent", "body"} /\ Handlers[x.kind].burns

Spending == {t \in Turns : Spends(turn[t])}

\* A turn past the check may still cost what a turn can cost at most.
Covered ==
  used + MaxTokens * Cardinality(Spending) <= Budget - 1 + MaxTokens * Cardinality(Turns)

Costs == [t \in Turns |-> turn[t].cost]
Dues == [t \in Turns |-> turn[t].due]

\* What was answered and what is still to be answered has been recorded.
Owed == answered + Total(Dues, Turns) <= used

\* Tokens are in flight between the answer and its record only.
CostFits(x) == x.cost > 0 => x.step = "body" /\ Handlers[x.kind].burns

TurnTypes ==
  /\ turn \in [Turns -> Busy \cup {Idle}]
  /\ meter \in [Ids -> Nat] /\ started \in 0..MaxTurns
  /\ burned \in Nat /\ lost \in Nat /\ answered \in Nat

RelayIInv ==
  /\ KeysIInv /\ TurnTypes /\ Owed
  /\ burned = used + lost + Total(Costs, Turns)
  /\ \A t \in Turns : CostFits(turn[t])
  /\ Covered

LEMMA TurnFields ==
  ASSUME NEW x \in Busy \cup {Idle}
  PROVE  /\ x.cost \in 0..MaxTokens /\ x.cost \in Nat /\ x.due \in Nat
         /\ x.step # "idle" => x \in Busy /\ x.kind \in Kinds /\ x.id \in Ids
         /\ x.step = "idle" => x = Idle
         /\ x.step \in {"idle", "check", "sent", "body", "audit"}
<1>1. CASE x \in Busy
  BY <1>1, RelayAssumption DEF Busy
<1>2. CASE x = Idle
  BY <1>2, RelayAssumption DEF Idle
<1> QED BY <1>1, <1>2

LEMMA IdleFields ==
  /\ Idle.cost = 0 /\ Idle.due = 0 /\ Idle.step = "idle"
  /\ ~Spends(Idle) /\ CostFits(Idle)
BY DEF Idle, Spends, CostFits

LEMMA UsedNat == ASSUME meter \in [Ids -> Nat] PROVE used \in Nat
BY TotalNat, RelayAssumption DEF used

\* What the answers in flight cost and owe, after one request has moved.
LEMMA CostStep ==
  ASSUME turn \in [Turns -> Busy \cup {Idle}], NEW t \in Turns,
         NEW x \in Busy \cup {Idle}, turn' = [turn EXCEPT ![t] = x]
  PROVE  /\ Total(Costs, Turns) \in Nat /\ Total(Dues, Turns) \in Nat
         /\ Total(Costs', Turns) = Total(Costs, Turns) + x.cost - turn[t].cost
         /\ Total(Dues', Turns) = Total(Dues, Turns) + x.due - turn[t].due
<1>1. IsFiniteSet(Turns)
  BY RelayAssumption
<1>2. \A y \in Busy \cup {Idle} : y.cost \in Nat /\ y.due \in Nat
  BY TurnFields
<1>3. Costs \in [Turns -> Nat] /\ Dues \in [Turns -> Nat]
  BY <1>2 DEF Costs, Dues
<1>4. Costs' \in [Turns -> Nat] /\ Dues' \in [Turns -> Nat]
  BY <1>2 DEF Costs, Dues
<1>5. /\ Costs[t] = turn[t].cost /\ Costs'[t] = x.cost
      /\ \A p \in Turns : p # t => Costs'[p] = Costs[p]
  BY DEF Costs
<1>6. /\ Dues[t] = turn[t].due /\ Dues'[t] = x.due
      /\ \A p \in Turns : p # t => Dues'[p] = Dues[p]
  BY DEF Dues
<1> HIDE DEF Costs, Dues
<1>7. PICK c, d : c = Costs' /\ d = Dues'
  OBVIOUS
<1>8. Total(Costs, Turns) \in Nat /\ Total(c, Turns) = Total(Costs, Turns) + c[t] - Costs[t]
  BY <1>1, <1>3, <1>4, <1>5, <1>7, TotalChange
<1>9. Total(Dues, Turns) \in Nat /\ Total(d, Turns) = Total(Dues, Turns) + d[t] - Dues[t]
  BY <1>1, <1>3, <1>4, <1>6, <1>7, TotalChange
<1> QED BY <1>5, <1>6, <1>7, <1>8, <1>9

LEMMA SpendingStep ==
  ASSUME turn \in [Turns -> Busy \cup {Idle}], NEW t \in Turns,
         NEW x \in Busy \cup {Idle}, turn' = [turn EXCEPT ![t] = x]
  PROVE  /\ Cardinality(Spending) \in Nat /\ Cardinality(Spending') \in Nat
         /\ Cardinality(Turns) \in Nat /\ Cardinality(Spending') <= Cardinality(Turns)
         /\ (Spends(x) => Spends(turn[t])) =>
              Cardinality(Spending') <= Cardinality(Spending)
         /\ Spends(turn[t]) /\ ~Spends(x) =>
              Cardinality(Spending') = Cardinality(Spending) - 1
<1>1. \A p \in Turns : turn'[p] = IF p = t THEN x ELSE turn[p]
  OBVIOUS
<1>2. Spending' = {p \in Turns : Spends(turn'[p])}
  BY DEF Spending, Spends
<1>3. Spending' \subseteq Turns /\ Spending \subseteq Turns
  BY <1>2 DEF Spending
<1>4. /\ IsFiniteSet(Spending) /\ IsFiniteSet(Spending')
      /\ Cardinality(Spending) \in Nat /\ Cardinality(Spending') \in Nat
      /\ Cardinality(Turns) \in Nat /\ Cardinality(Spending') <= Cardinality(Turns)
  BY <1>3, RelayAssumption, FS_Subset, FS_CardinalityType
<1>5. ASSUME Spends(x) => Spends(turn[t])
      PROVE  Cardinality(Spending') <= Cardinality(Spending)
  <2>1. Spending' \subseteq Spending
    BY <1>1, <1>2, <1>5 DEF Spending
  <2> QED BY <1>4, <2>1, FS_Subset
<1>6. ASSUME Spends(turn[t]), ~Spends(x)
      PROVE  Cardinality(Spending') = Cardinality(Spending) - 1
  <2>1. Spending' = Spending \ {t} /\ t \in Spending
    BY <1>1, <1>2, <1>6 DEF Spending
  <2> QED BY <1>4, <2>1, FS_RemoveElement
<1> QED BY <1>4, <1>5, <1>6

LEMMA Products ==
  ASSUME NEW a \in Nat, NEW c \in Nat, NEW d \in Nat
  PROVE  /\ a * c \in Nat
         /\ c <= d => a * c <= a * d
         /\ a * (c + 1) = a * c + a
OBVIOUS

\* One request moves and the books with it.
LEMMA TurnStepInv ==
  ASSUME RelayIInv, NEW t \in Turns, NEW x \in Busy \cup {Idle},
         turn' = [turn EXCEPT ![t] = x], UNCHANGED keyVars,
         TurnTypes', CostFits(x),
         burned' - used' - lost' = burned - used - lost + x.cost - turn[t].cost,
         answered' + x.due - used' <= answered + turn[t].due - used,
         \/ used' = used /\ (Spends(x) => Spends(turn[t]))
         \/ used' = used /\ used < Budget
         \/ used' = used + turn[t].cost /\ Spends(turn[t]) /\ ~Spends(x)
  PROVE  RelayIInv'
<1>1. /\ KeysIInv /\ TurnTypes /\ Covered /\ Owed
      /\ burned = used + lost + Total(Costs, Turns)
      /\ \A p \in Turns : CostFits(turn[p])
  BY DEF RelayIInv
<1>2. turn \in [Turns -> Busy \cup {Idle}] /\ used \in Nat /\ used' \in Nat
  BY <1>1, UsedNat, TotalNat, RelayAssumption DEF TurnTypes, used
<1>3. KeysIInv'
  BY <1>1, KeysStepInv
<1>4. /\ turn[t].cost \in 0..MaxTokens /\ x.cost \in Nat
      /\ turn[t].due \in Nat /\ x.due \in Nat
  BY <1>2, TurnFields
<1>5. burned' = used' + lost' + Total(Costs', Turns)
  <2>1. /\ Total(Costs, Turns) \in Nat
        /\ Total(Costs', Turns) = Total(Costs, Turns) + x.cost - turn[t].cost
    BY <1>2, CostStep
  <2>2. burned \in Nat /\ lost \in Nat /\ burned' \in Nat /\ lost' \in Nat
    BY <1>1 DEF TurnTypes
  <2> QED BY <1>1, <1>2, <1>4, <2>1, <2>2
<1>6. \A p \in Turns : CostFits(turn'[p])
  BY <1>1, <1>2
<1>8. Owed'
  <2>1. /\ Total(Dues, Turns) \in Nat
        /\ Total(Dues', Turns) = Total(Dues, Turns) + x.due - turn[t].due
    BY <1>2, CostStep
  <2>2. answered \in Nat /\ answered' \in Nat
    BY <1>1 DEF TurnTypes
  <2>3. answered + Total(Dues, Turns) <= used
    BY <1>1 DEF Owed
  <2>4. answered' + Total(Dues', Turns) <= used'
    BY <1>2, <1>4, <2>1, <2>2, <2>3
  <2> QED BY <2>4 DEF Owed
<1>7. Covered'
  <2> DEFINE c == Cardinality(Spending)
             d == Cardinality(Spending')
             n == Cardinality(Turns)
  <2>1. /\ c \in Nat /\ d \in Nat /\ n \in Nat /\ d <= n
        /\ (Spends(x) => Spends(turn[t])) => d <= c
        /\ Spends(turn[t]) /\ ~Spends(x) => d = c - 1
    BY <1>2, SpendingStep
  <2>2. used + MaxTokens * c <= Budget - 1 + MaxTokens * n
    BY <1>1 DEF Covered
  <2>3. MaxTokens \in Nat /\ Budget \in Nat
    BY RelayAssumption
  <2> SUFFICES used' + MaxTokens * d <= Budget - 1 + MaxTokens * n
    BY DEF Covered
  <2> HIDE DEF c, d, n
  <2>4. MaxTokens * c \in Nat /\ MaxTokens * d \in Nat /\ MaxTokens * n \in Nat
    BY <2>1, <2>3, Products
  <2>5. CASE used' = used /\ (Spends(x) => Spends(turn[t]))
    <3>1. MaxTokens * d <= MaxTokens * c
      BY <2>1, <2>3, <2>5, Products
    <3> QED BY <1>2, <2>2, <2>3, <2>4, <2>5, <3>1
  <2>6. CASE used' = used /\ used < Budget
    <3>1. MaxTokens * d <= MaxTokens * n
      BY <2>1, <2>3, Products
    <3> QED BY <1>2, <2>3, <2>4, <2>6, <3>1
  <2>7. CASE used' = used + turn[t].cost /\ Spends(turn[t]) /\ ~Spends(x)
    <3>1. c = d + 1
      BY <2>1, <2>7
    <3>2. MaxTokens * c = MaxTokens * d + MaxTokens
      BY <2>1, <2>3, <3>1, Products
    <3>3. turn[t].cost \in Nat /\ turn[t].cost <= MaxTokens
      BY <1>4, <2>3
    <3> QED BY <1>2, <2>2, <2>3, <2>4, <2>7, <3>2, <3>3
  <2> QED BY <2>5, <2>6, <2>7
<1> QED BY <1>3, <1>5, <1>6, <1>7, <1>8 DEF RelayIInv

\* With every request idle and nothing recorded the books are empty.
Fresh == turn = [t \in Turns |-> Idle] /\ meter = [id \in Ids |-> 0]

Empty ==
  /\ used = 0 /\ Total(Costs, Turns) = 0 /\ Total(Dues, Turns) = 0 /\ Covered
  /\ \A t \in Turns : CostFits(turn[t])

LEMMA EmptyBooks == Fresh => Empty
<1> SUFFICES ASSUME Fresh PROVE Empty
  OBVIOUS
<1> USE DEF Fresh
<1>1. meter \in [Ids -> Nat] /\ \A id \in Ids : meter[id] = 0
  OBVIOUS
<1>2. used = 0
  BY <1>1, TotalZero, RelayAssumption DEF used
<1>3. /\ Costs \in [Turns -> Nat] /\ \A t \in Turns : Costs[t] = 0
      /\ Dues \in [Turns -> Nat] /\ \A t \in Turns : Dues[t] = 0
  BY IdleFields DEF Costs, Dues
<1>4. Total(Costs, Turns) = 0 /\ Total(Dues, Turns) = 0
  BY <1>3, TotalZero, RelayAssumption
<1>5. Spending = {}
  BY IdleFields DEF Spending
<1>6. Cardinality(Spending) = 0 /\ Cardinality(Turns) \in Nat
  BY <1>5, FS_EmptySet, FS_CardinalityType, RelayAssumption
<1>7. MaxTokens \in Nat /\ Budget \in Nat \ {0} /\ MaxTokens * Cardinality(Turns) \in Nat
  BY <1>6, RelayAssumption, Products
<1>8. MaxTokens * 0 = 0
  BY <1>7
<1>9. Covered
  BY <1>2, <1>6, <1>7, <1>8 DEF Covered
<1> QED BY <1>2, <1>4, <1>9, IdleFields DEF Empty

LEMMA RelayFacts ==
  ASSUME RelayIInv
  PROVE  /\ KeysIInv /\ TurnTypes /\ used \in Nat
         /\ turn \in [Turns -> Busy \cup {Idle}]
         /\ \A t \in Turns : CostFits(turn[t]) /\ turn[t] \in Busy \cup {Idle}
BY UsedNat DEF RelayIInv, TurnTypes

\* A request moves on or ends: what it has cost stays in flight or is lost,
\* what it owes stays owed, is given or is given up.
LEMMA MovesInv ==
  ASSUME RelayIInv, NEW t \in Turns, NEW x \in Busy \cup {Idle},
         turn' = [turn EXCEPT ![t] = x], CostFits(x),
         UNCHANGED <<keyVars, meter, started, burned>>,
         lost' = lost + turn[t].cost - x.cost, x.cost <= turn[t].cost,
         answered' \in {answered, answered + turn[t].due - x.due},
         x.due <= turn[t].due,
         (Spends(x) => Spends(turn[t])) \/ used < Budget
  PROVE  RelayIInv'
<1>1. TurnTypes /\ used \in Nat /\ turn[t] \in Busy \cup {Idle}
  BY RelayFacts
<1>2. /\ turn[t].cost \in Nat /\ x.cost \in Nat
      /\ turn[t].due \in Nat /\ x.due \in Nat
  BY <1>1, TurnFields
<1>3. used' = used
  BY DEF used
<1>4. /\ burned \in Nat /\ lost \in Nat /\ lost' \in Nat
      /\ answered \in Nat /\ answered' \in Nat
  BY <1>1, <1>2 DEF TurnTypes
<1>5. TurnTypes'
  BY <1>1, <1>4 DEF TurnTypes
<1>6. answered' + x.due - used' <= answered + turn[t].due - used
  BY <1>1, <1>2, <1>3, <1>4
<1>7. burned' - used' - lost' = burned - used - lost + x.cost - turn[t].cost
  BY <1>1, <1>2, <1>3, <1>4
<1>8. UNCHANGED keyVars
  OBVIOUS
<1> QED BY <1>3, <1>5, <1>6, <1>7, <1>8, TurnStepInv

\* The same, for a request that neither costs nor owes more or less.
LEMMA FreeMoveInv ==
  ASSUME RelayIInv, NEW t \in Turns, NEW x \in Busy \cup {Idle},
         turn' = [turn EXCEPT ![t] = x], x.cost = turn[t].cost, CostFits(x),
         x.due <= turn[t].due, UNCHANGED <<keyVars, meter, started, books>>,
         (Spends(x) => Spends(turn[t])) \/ used < Budget
  PROVE  RelayIInv'
<1>1. TurnTypes /\ turn[t] \in Busy \cup {Idle}
  BY RelayFacts
<1>2. turn[t].cost \in Nat
  BY <1>1, TurnFields
<1>3. UNCHANGED <<keyVars, meter, started, burned>> /\ UNCHANGED <<lost, answered>>
  BY DEF books
<1>4. lost' = lost + turn[t].cost - x.cost /\ x.cost <= turn[t].cost
  BY <1>1, <1>2, <1>3 DEF TurnTypes
<1>5. answered' \in {answered, answered + turn[t].due - x.due}
  BY <1>1, <1>3 DEF TurnTypes
<1> QED BY <1>3, <1>4, <1>5, MovesInv

\* What a step name and no cost make of a request.
LEMMA Stepped ==
  ASSUME RelayIInv, NEW t \in Turns, turn[t].step # "idle",
         NEW s \in {"check", "sent", "body", "audit"}
  PROVE  /\ [turn[t] EXCEPT !.step = s] \in Busy
         /\ [turn[t] EXCEPT !.step = s].step = s
         /\ [turn[t] EXCEPT !.step = s].cost = turn[t].cost
         /\ [turn[t] EXCEPT !.step = s].due = turn[t].due
         /\ [turn[t] EXCEPT !.step = s].kind = turn[t].kind
         /\ [turn EXCEPT ![t].step = s] = [turn EXCEPT ![t] = [turn[t] EXCEPT !.step = s]]
<1>1. turn[t] \in Busy
  BY RelayFacts, TurnFields
<1> QED BY <1>1 DEF Busy

\* An answer costs something only from the upstream's report to the record.
LEMMA CostOnlyThere ==
  ASSUME RelayIInv, NEW t \in Turns, turn[t].step # "body"
  PROVE  turn[t].cost = 0
<1>1. CostFits(turn[t]) /\ turn[t].cost \in Nat
  BY RelayFacts, TurnFields
<1> QED BY <1>1 DEF CostFits

LEMMA EndsInv ==
  ASSUME RelayIInv, NEW t \in Turns, Ends(t), turn[t].step # "body",
         UNCHANGED <<keyVars, meter, started, books>>
  PROVE  RelayIInv'
<1>1. turn' = [turn EXCEPT ![t] = Idle] /\ Idle \in Busy \cup {Idle}
  BY DEF Ends
<1>2. /\ Idle.cost = turn[t].cost /\ CostFits(Idle) /\ ~Spends(Idle)
      /\ Idle.due <= turn[t].due
  BY CostOnlyThere, IdleFields, RelayFacts, TurnFields
<1> QED BY <1>1, <1>2, FreeMoveInv

LEMMA BurnsGated ==
  ASSUME NEW k \in Kinds
  PROVE  Handlers[k].burns => Handlers[k].gated
<1>1. k \in DOMAIN Handlers
  BY RelayAssumption
<1>2. k \in {"chat", "stream", "embed", "decide", "search", "transcribe", "speak"}
  BY <1>1 DEF Handlers
<1>3. Handlers[k] \in {handle_chat, handle_embeddings, handle_systemone, handle_search,
                       handle_transcribe, handle_speak}
  BY <1>2 DEF Handlers
<1>4. \A h \in {handle_chat, handle_embeddings, handle_systemone, handle_search,
               handle_transcribe, handle_speak} :
        h.burns => h.gated
  BY DEF handle_chat, handle_embeddings, handle_systemone, handle_search,
         handle_transcribe, handle_speak
<1> QED BY <1>3, <1>4

LEMMA AuthenticateInv ==
  ASSUME RelayIInv, NEW t \in Turns, NEW kind \in Kinds, NEW k \in DOMAIN keys,
         authenticate_live(t, kind, keys[k])
  PROVE  RelayIInv'
<1> DEFINE x == [step |-> IF Handlers[kind].gated THEN "check" ELSE "sent",
                 kind |-> kind, id |-> keys[k].id, cost |-> 0, due |-> 0]
<1>1. /\ turn[t] = Idle /\ turn' = [turn EXCEPT ![t] = x]
      /\ started < MaxTurns /\ started' = started + 1
      /\ UNCHANGED <<keyVars, meter, burned, lost, answered>>
  BY DEF authenticate_live, books
<1>2. keys[k].id \in Ids
  BY RelayFacts, RowFields DEF KeysIInv, Sound, Distinct
<1>3. x \in Busy /\ x.cost = 0 /\ x.due = 0 /\ ~Spends(x) /\ CostFits(x)
  <2>1. Handlers[kind].burns => Handlers[kind].gated
    BY BurnsGated
  <2>2. 0 \in 0..MaxTokens
    BY RelayAssumption
  <2> QED BY <1>2, <2>1, <2>2 DEF Busy, Spends, CostFits
<1>4. TurnTypes /\ used \in Nat
  BY RelayFacts
<1>5. started' \in 0..MaxTurns
  BY <1>1, <1>4, RelayAssumption DEF TurnTypes
<1> HIDE DEF x
<1>6. TurnTypes'
  BY <1>1, <1>3, <1>4, <1>5 DEF TurnTypes
<1>7. used' = used
  BY <1>1 DEF used
<1>8. /\ burned' - used' - lost' = burned - used - lost + x.cost - turn[t].cost
      /\ answered' + x.due - used' <= answered + turn[t].due - used
  BY <1>1, <1>3, <1>4, <1>7, IdleFields DEF TurnTypes
<1>9. UNCHANGED keyVars
  BY <1>1
<1> QED BY <1>1, <1>3, <1>6, <1>7, <1>8, <1>9, TurnStepInv

LEMMA CheckInv == ASSUME RelayIInv, NEW t \in Turns, Check(t) PROVE RelayIInv'
<1>1. turn[t].step = "check" /\ UNCHANGED <<keyVars, meter, started, books>>
  BY DEF Check
<1>2. CASE Within(turn[t].id)
  <2> DEFINE x == [turn[t] EXCEPT !.step = "sent"]
  <2>1. turn' = [turn EXCEPT ![t].step = "sent"] /\ used < Budget
    BY <1>2 DEF Check, Within
  <2>2. /\ x \in Busy /\ x.cost = turn[t].cost /\ x.due = turn[t].due
        /\ turn' = [turn EXCEPT ![t] = x]
    BY <1>1, <2>1, Stepped
  <2>3. x.cost = 0 /\ x.due <= turn[t].due
    BY <1>1, <2>2, CostOnlyThere, RelayFacts, TurnFields
  <2> HIDE DEF x
  <2>4. CostFits(x)
    BY <2>3 DEF CostFits
  <2> QED BY <1>1, <2>1, <2>2, <2>3, <2>4, FreeMoveInv
<1>3. CASE ~Within(turn[t].id)
  BY <1>1, <1>3, EndsInv DEF Check
<1> QED BY <1>2, <1>3

LEMMA UpstreamInv == ASSUME RelayIInv, NEW t \in Turns, UpstreamFails(t) PROVE RelayIInv'
BY EndsInv DEF UpstreamFails

LEMMA AnswersInv ==
  ASSUME RelayIInv, NEW t \in Turns, NEW cost \in 0..MaxTokens, UpstreamAnswers(t, cost)
  PROVE  RelayIInv'
<1> DEFINE x == [turn[t] EXCEPT !.step = "body", !.cost = cost]
<1>1. /\ turn[t].step = "sent" /\ (cost > 0 => Handlers[turn[t].kind].burns)
      /\ turn' = [turn EXCEPT ![t].step = "body", ![t].cost = cost]
      /\ burned' = burned + cost
      /\ UNCHANGED <<keyVars, meter, started, lost, answered>>
  BY DEF UpstreamAnswers
<1>2. TurnTypes /\ used \in Nat /\ turn[t] \in Busy /\ turn[t].due \in Nat
  BY <1>1, RelayFacts, TurnFields
<1>3. /\ x \in Busy /\ x.step = "body" /\ x.cost = cost /\ x.kind = turn[t].kind
      /\ x.due = turn[t].due
  BY <1>2 DEF Busy
<1>4. turn' = [turn EXCEPT ![t] = x]
  BY <1>1, <1>2 DEF TurnTypes
<1>5. turn[t].cost = 0
  BY <1>1, CostOnlyThere
<1> HIDE DEF x
<1>6. CostFits(x) /\ (Spends(x) => Spends(turn[t]))
  BY <1>1, <1>3 DEF CostFits, Spends
<1>7. cost \in Nat /\ burned \in Nat /\ lost \in Nat /\ answered \in Nat
  BY <1>2, RelayAssumption DEF TurnTypes
<1>8. TurnTypes'
  <2>1. burned' \in Nat
    BY <1>1, <1>7
  <2>2. turn' \in [Turns -> Busy \cup {Idle}]
    BY <1>2, <1>3, <1>4 DEF TurnTypes
  <2> QED BY <1>1, <1>2, <2>1, <2>2 DEF TurnTypes
<1>9. used' = used /\ UNCHANGED keyVars
  BY <1>1 DEF used
<1>10. /\ burned' - used' - lost' = burned - used - lost + x.cost - turn[t].cost
       /\ answered' + x.due - used' <= answered + turn[t].due - used
  BY <1>1, <1>2, <1>3, <1>5, <1>7, <1>9
<1> QED BY <1>3, <1>4, <1>6, <1>8, <1>9, <1>10, TurnStepInv

\* What a recorded or broken-off answer leaves behind.
Charged(t, due) == [turn[t] EXCEPT !.step = "audit", !.cost = 0, !.due = due]

LEMMA ChargedFields ==
  ASSUME RelayIInv, NEW t \in Turns, turn[t].step = "body", NEW due \in 0..MaxTokens
  PROVE  /\ Charged(t, due) \in Busy
         /\ Charged(t, due).cost = 0 /\ Charged(t, due).due = due
         /\ ~Spends(Charged(t, due)) /\ CostFits(Charged(t, due))
<1> DEFINE x == Charged(t, due)
<1>1. turn[t] \in Busy
  BY RelayFacts, TurnFields
<1>2. x \in Busy /\ x.step = "audit" /\ x.cost = 0 /\ x.due = due
  <2>1. 0 \in 0..MaxTokens
    BY RelayAssumption
  <2> QED BY <1>1, <2>1 DEF Busy, Charged
<1> HIDE DEF x
<1>3. ~Spends(x) /\ CostFits(x)
  BY <1>2 DEF Spends, CostFits
<1> QED BY <1>2, <1>3 DEF x

LEMMA ChargeInv == ASSUME RelayIInv, NEW t \in Turns, record(t) PROVE RelayIInv'
<1> DEFINE due == IF turn[t].kind = "stream" THEN 0 ELSE turn[t].cost
           x == Charged(t, due)
           id == turn[t].id
<1>0. turn[t] \in Busy /\ turn \in [Turns -> Busy \cup {Idle}] /\ turn[t].step = "body"
  BY RelayFacts, TurnFields DEF record
<1>1. /\ meter' = [meter EXCEPT ![id] = @ + turn[t].cost]
      /\ turn' = [turn EXCEPT ![t] = x]
      /\ UNCHANGED <<keyVars, started, burned, lost>>
  BY <1>0 DEF record, Metered, Charged
<1>2. /\ TurnTypes /\ used \in Nat /\ id \in Ids
      /\ turn[t].cost \in Nat /\ turn[t].cost \in 0..MaxTokens /\ turn[t].due \in Nat
      /\ turn[t].kind \in Kinds /\ CostFits(turn[t])
  BY <1>0, RelayFacts, TurnFields
<1>3. due \in 0..MaxTokens /\ answered' + due = answered + turn[t].cost
  <2>1. answered \in Nat /\ 0 \in 0..MaxTokens
    BY <1>2, RelayAssumption DEF TurnTypes
  <2> QED BY <1>2, <2>1 DEF record
<1>4. /\ x \in Busy /\ x.cost = 0 /\ x.due = due /\ ~Spends(x) /\ CostFits(x)
  BY <1>0, <1>3, ChargedFields
<1>5. answered \in Nat /\ answered' \in Nat
  BY <1>2 DEF TurnTypes, record
<1> HIDE DEF due, x, id
<1>6. /\ meter \in [Ids -> Nat] /\ meter' \in [Ids -> Nat]
      /\ meter'[id] = meter[id] + turn[t].cost
  BY <1>1, <1>2 DEF TurnTypes
<1>7. \A q \in Ids : q # id => meter'[q] = meter[q]
  BY <1>1, <1>6
<1>8. used' = used + turn[t].cost
  <2>1. PICK m : m = meter'
    OBVIOUS
  <2>2. Total(m, Ids) = Total(meter, Ids) + m[id] - meter[id]
    BY <1>2, <1>6, <1>7, <2>1, RelayAssumption, TotalChange
  <2>3. used = Total(meter, Ids) /\ used' = Total(m, Ids)
    BY <2>1 DEF used
  <2> QED BY <1>2, <1>6, <2>1, <2>2, <2>3
<1>9. TurnTypes' /\ UNCHANGED keyVars
  BY <1>1, <1>2, <1>4, <1>5, <1>6 DEF TurnTypes
<1>10. burned' - used' - lost' = burned - used - lost + x.cost - turn[t].cost
  BY <1>1, <1>2, <1>4, <1>8 DEF TurnTypes
<1>11. answered' + x.due - used' <= answered + turn[t].due - used
  <2>1. due \in Nat
    BY <1>3, RelayAssumption
  <2> QED BY <1>2, <1>3, <1>4, <1>5, <1>8, <2>1
<1>12. CASE Handlers[turn[t].kind].burns
  <2>1. Spends(turn[t])
    BY <1>0, <1>12 DEF Spends
  <2> QED BY <1>1, <1>4, <1>8, <1>9, <1>10, <1>11, <2>1, TurnStepInv
<1>13. CASE ~Handlers[turn[t].kind].burns
  <2>1. turn[t].cost = 0
    BY <1>2, <1>13 DEF CostFits
  <2>2. used' = used
    BY <1>2, <1>8, <2>1
  <2> QED BY <1>1, <1>4, <1>9, <1>10, <1>11, <2>2, TurnStepInv
<1> QED BY <1>12, <1>13

LEMMA BodyFailsInv == ASSUME RelayIInv, NEW t \in Turns, BodyFails(t) PROVE RelayIInv'
<1>1. /\ turn[t].step = "body" /\ lost' = lost + turn[t].cost
      /\ UNCHANGED <<keyVars, meter, started, burned>>
      /\ answered' = answered
  BY DEF BodyFails
<1>2. /\ lost \in Nat /\ turn[t].cost \in Nat
      /\ turn[t] \in Busy /\ turn[t].due \in 0..MaxTokens
      /\ turn \in [Turns -> Busy \cup {Idle}]
  BY <1>1, RelayFacts, TurnFields DEF TurnTypes, Busy
<1>3. PICK x \in Busy \cup {Idle} :
        /\ x.cost = 0 /\ x.due <= turn[t].due /\ ~Spends(x) /\ CostFits(x)
        /\ turn' = [turn EXCEPT ![t] = x]
  <2>1. CASE turn[t].kind = "stream"
    <3> DEFINE x == Charged(t, turn[t].due)
    <3>1. turn' = [turn EXCEPT ![t] = x]
      BY <1>2, <2>1 DEF BodyFails, Charged, Busy
    <3>2. x \in Busy /\ x.cost = 0 /\ x.due = turn[t].due /\ ~Spends(x) /\ CostFits(x)
      BY <1>1, <1>2, ChargedFields
    <3>3. x.due <= turn[t].due
      BY <1>2, <3>2, RelayAssumption
    <3> HIDE DEF x
    <3> QED BY <3>1, <3>2, <3>3, Zenon
  <2>2. CASE turn[t].kind # "stream"
    BY <1>2, <2>2, IdleFields, RelayAssumption DEF BodyFails, Ends
  <2> QED BY <2>1, <2>2
<1>4. lost' = lost + turn[t].cost - x.cost /\ x.cost <= turn[t].cost
  BY <1>1, <1>2, <1>3
<1> QED BY <1>1, <1>2, <1>3, <1>4, MovesInv

LEMMA HangUpInv == ASSUME RelayIInv, NEW t \in Turns, HangUp(t) PROVE RelayIInv'
<1>1. /\ turn' = [turn EXCEPT ![t] = Idle] /\ lost' = lost + turn[t].cost
      /\ UNCHANGED <<keyVars, meter, started, burned>>
      /\ answered' = answered
  BY DEF HangUp, Ends
<1>2. /\ lost \in Nat
      /\ turn[t].cost \in Nat /\ turn[t].due \in Nat
  BY <1>1, RelayFacts, TurnFields DEF TurnTypes
<1>3. /\ lost' = lost + turn[t].cost - Idle.cost /\ Idle.cost <= turn[t].cost
      /\ Idle.due <= turn[t].due
  BY <1>1, <1>2, IdleFields
<1>4. Idle \in Busy \cup {Idle}
  OBVIOUS
<1> QED BY <1>1, <1>2, <1>3, <1>4, IdleFields, MovesInv

LEMMA AuditInv ==
  ASSUME RelayIInv, NEW t \in Turns, Audited(t) \/ AuditFails(t) PROVE RelayIInv'
<1>0. TurnTypes
  BY RelayFacts
<1>1. /\ turn[t].step = "audit" /\ turn' = [turn EXCEPT ![t] = Idle]
      /\ UNCHANGED <<keyVars, meter, started, burned>> /\ lost' = lost
      /\ answered' \in {answered, answered + turn[t].due}
  BY DEF Audited, AuditFails, Ends
<1>2. turn[t].cost = 0 /\ turn[t].due \in Nat /\ turn[t].kind \in Kinds
  BY <1>1, CostOnlyThere, RelayFacts, TurnFields
<1>3. /\ lost' = lost + turn[t].cost - Idle.cost /\ Idle.cost <= turn[t].cost
      /\ answered' \in {answered, answered + turn[t].due - Idle.due}
      /\ Idle.due <= turn[t].due
  BY <1>0, <1>1, <1>2, IdleFields DEF TurnTypes
<1>4. Idle \in Busy \cup {Idle}
  OBVIOUS
<1> QED BY <1>1, <1>3, <1>4, IdleFields, MovesInv

\* A crash or a restart forgets the turns and the meter with them.
LEMMA ForgottenInv ==
  ASSUME RelayIInv, KeysIInv', Forgotten
  PROVE  RelayIInv'
<1>1. /\ turn' = [t \in Turns |-> Idle] /\ meter' = [id \in Ids |-> 0]
      /\ burned' = 0 /\ lost' = 0 /\ answered' = 0
      /\ UNCHANGED started
  BY DEF Forgotten
<1>2. TurnTypes'
  BY <1>1, RelayFacts DEF TurnTypes
<1>3. Fresh' => Empty'
  BY EmptyBooks, PTL
<1>4. Empty'
  BY <1>1, <1>3 DEF Fresh
<1> QED BY <1>1, <1>2, <1>4 DEF Empty, Owed, RelayIInv

LEMMA RelayInitInv == RelayInit => RelayIInv
<1> SUFFICES ASSUME RelayInit PROVE RelayIInv
  OBVIOUS
<1>1. KeysIInv
  BY KeysInitInv DEF RelayInit
<1>2. started \in 0..MaxTurns
  BY RelayAssumption DEF RelayInit
<1>3. TurnTypes
  BY <1>2 DEF RelayInit, TurnTypes
<1>4. Empty
  BY EmptyBooks DEF RelayInit, Fresh
<1> QED BY <1>1, <1>3, <1>4 DEF RelayInit, Empty, Owed, RelayIInv

LEMMA RelayStepInv == RelayIInv /\ [RelayNext]_relayVars => RelayIInv'
<1> SUFFICES ASSUME RelayIInv, [RelayNext]_relayVars PROVE RelayIInv'
  OBVIOUS
<1>1. ASSUME KeysIInv', UNCHANGED turnVars PROVE RelayIInv'
  <2>1. /\ TurnTypes' /\ used' = used /\ Costs' = Costs /\ Dues' = Dues
        /\ Spending' = Spending
    BY <1>1, RelayFacts DEF turnVars, books, TurnTypes, used, Costs, Dues,
       Spending, Spends
  <2>2. Covered' /\ Owed'
    BY <1>1, <2>1 DEF RelayIInv, Covered, Owed, turnVars, books
  <2> QED BY <1>1, <2>1, <2>2 DEF RelayIInv, turnVars, books
<1>2. CASE UNCHANGED relayVars
  <2>1. KeysIInv'
    BY <1>2, RelayFacts, KeysStepInv DEF relayVars
  <2> QED BY <1>1, <1>2, <2>1 DEF relayVars
<1>3. CASE Keys
  <2>1. KeysIInv'
    BY <1>3, RelayFacts, KeysStepInv DEF Keys, KeyStep
  <2> QED BY <1>1, <1>3, <2>1, ForgottenInv DEF Keys
<1>4. ASSUME NEW t \in Turns, Turn(t) PROVE RelayIInv'
  BY <1>4, AuthenticateInv, CheckInv, UpstreamInv, AnswersInv, ChargeInv,
     BodyFailsInv, AuditInv, HangUpInv DEF Turn
<1> QED BY <1>2, <1>3, <1>4 DEF RelayNext

LEMMA RelayFromInv == RelayIInv => RelayInv /\ OverspendBounded
<1> SUFFICES ASSUME RelayIInv PROVE RelayInv /\ OverspendBounded
  OBVIOUS
<1>1. RelayTypeOK
  BY KeysFromInv DEF RelayIInv, TurnTypes, RelayTypeOK, KeysInv
<1>2. Accounted /\ AnsweredIsMetered
  BY DEF RelayIInv, Accounted, Costs, AnsweredIsMetered, Owed, Dues
<1>3. OverspendBounded
  <2>1. Spending \subseteq Turns /\ IsFiniteSet(Turns) /\ used \in Nat
    BY RelayFacts, RelayAssumption DEF Spending
  <2>2. Cardinality(Spending) \in Nat /\ Cardinality(Turns) \in Nat
    BY <2>1, FS_Subset, FS_CardinalityType
  <2>3. MaxTokens \in Nat /\ Budget \in Nat
    BY RelayAssumption
  <2>4. MaxTokens * Cardinality(Spending) \in Nat /\ MaxTokens * Cardinality(Turns) \in Nat
    BY <2>2, <2>3, Products
  <2> QED BY <2>1, <2>3, <2>4 DEF RelayIInv, Covered, OverspendBounded
<1> QED BY <1>1, <1>2, <1>3 DEF RelayIInv, RelayInv

\* Every token the upstream reported is recorded, in flight or lost with a body
\* that was not read to its end, and no whole answer is given or owed that is
\* not on the meter: with an auditor or without, for any number of turns side
\* by side (relay.rs:1156 and 1170).
THEOREM BooksBalance == RelaySpec => []RelayInv
BY RelayInitInv, RelayStepInv, RelayFromInv, PTL DEF RelaySpec

\* Turns side by side overspend the user's budget by no more than what each of
\* them may cost once (relay.rs:1051, meter.rs).
THEOREM OverspendIsBounded == RelaySpec => []OverspendBounded
BY RelayInitInv, RelayStepInv, RelayFromInv, PTL DEF RelaySpec

\* The registry's invariant, with turns running on its keys (keys.rs:3 and 140).
THEOREM RegistryHolds == RelaySpec => []KeysInv
BY RegistryCorrect, RelayKeepsRegistry, PTL

\* A secret that was replaced or disabled by an answered call never serves a
\* turn again (keys.rs:138 and 206).
THEOREM RevocationStands == RelaySpec => []RevokedStaysRevoked
BY RegistryCorrect, RelayKeepsRegistry, PTL
=============================================================================
