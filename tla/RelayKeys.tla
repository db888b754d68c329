------------------------------ MODULE RelayKeys ------------------------------
(***************************************************************************)
(* The live key registry of the model relay (agentkeys-gate, keys.rs): the *)
(* rows in memory, the keys file every change is written through to, and   *)
(* the latch that refuses all requests once a write failed.                *)
(*                                                                         *)
(* A change holds the write lock from its check to its commit, so it is    *)
(* one step to every other request; what may come between its parts is a   *)
(* failed write or a crash.  Ids are canonical: two spellings of an id in  *)
(* the boot file are two rows of one id.                                   *)
(***************************************************************************)
EXTENDS Integers, Sequences, FiniteSets, FiniteSetsExt

CONSTANTS
  Ids,         \* key ids
  Budgets,     \* per-key budgets a provision may carry
  MaxSecrets,  \* bound: secrets in the boot file and minted later
  MaxCrashes   \* bound

ASSUME KeysAssumption == MaxSecrets \in Nat /\ MaxCrashes \in Nat

Rows == [id : Ids, secret : 1..MaxSecrets, off : BOOLEAN, budget : Budgets]

VARIABLES
  keys,     \* the rows that authenticate
  disk,     \* the keys file
  failed,   \* persistence_failed
  minted,   \* secrets used so far
  crashes,
  view,     \* history: what the broker was last told of a key id
  revoked   \* history: secrets replaced or disabled by an answered call

keyVars == <<keys, disk, failed, minted, crashes, view, revoked>>

Boot == 0     \* never touched since the boot file
Unsure == -1  \* the last change was not answered
Off == -2     \* disabled

\* Types; no secret is in two rows.
KeysTypeOK ==
  /\ keys \in Seq(Rows) /\ disk \in Seq(Rows)
  /\ failed \in BOOLEAN /\ minted \in 0..MaxSecrets /\ crashes \in 0..MaxCrashes
  /\ view \in [Ids -> 1..MaxSecrets \cup {Boot, Unsure, Off}]
  /\ revoked \subseteq 1..MaxSecrets
  /\ \A j, k \in DOMAIN keys : keys[j].secret = keys[k].secret => j = k

Live(rows, id) ==
  {rows[k].secret : k \in {j \in DOMAIN rows : rows[j].id = id /\ ~rows[j].off}}
-----------------------------------------------------------------------------
\* canonicalize_boot_keys: any row list, an id in two rows included.
KeysInit ==
  /\ \E n \in 0..MaxSecrets - 1 :
       /\ minted = n
       /\ disk \in {r \in [1..n -> Rows] :
                      \A k \in 1..n : r[k].secret = k}
  /\ keys = disk
  /\ failed = FALSE /\ crashes = 0
  /\ view = [id \in Ids |-> Boot]
  /\ revoked = {}

Commits(rows) == keys' = rows /\ disk' = rows /\ UNCHANGED failed

\* Mutant of WriteFails: the failure is reported and nothing is latched.
WriteFailsOpen(rows) == keys' = keys /\ disk' \in {disk, rows} /\ UNCHANGED failed

\* Before the rename the file is as it was, after it (the directory cannot be
\* synced) it is the new one; memory keeps the committed rows.
WriteFails(rows) == keys' = keys /\ disk' \in {disk, rows} /\ failed' = TRUE

\* The process dies around the rename and boots from what the file holds.
Dies(rows) ==
  /\ crashes < MaxCrashes /\ crashes' = crashes + 1
  /\ disk' \in {disk, rows} /\ keys' = disk' /\ failed' = FALSE

\* The three ends of a change of key id, the answer the broker gets included.
write_through(id, rows, answer) ==
  \/ /\ Commits(rows)
     /\ view' = [view EXCEPT ![id] = answer]
     /\ revoked' = revoked \cup (Live(keys, id) \ {answer})
     /\ UNCHANGED crashes
  \/ /\ WriteFails(rows)
     /\ view' = [view EXCEPT ![id] = Unsure]
     /\ UNCHANGED <<revoked, crashes>>
  \/ /\ Dies(rows)
     /\ view' = [view EXCEPT ![id] = Unsure]
     /\ UNCHANGED revoked

\* Mutant of Placed: the first row of the id is replaced, the others stay.
PlacedFirst(row) ==
  LET at == {k \in DOMAIN keys : keys[k].id = row.id}
  IN IF at = {} THEN Append(keys, row)
     ELSE [keys EXCEPT ![Min(at)] = row]

\* The n-th smallest of a set of positions.
Nth(S, n) == CHOOSE k \in S : Cardinality({j \in S : j <= k}) = n

\* The first row of the id is replaced and its others are dropped.
Placed(row) ==
  LET at == {k \in DOMAIN keys : keys[k].id = row.id}
      kept == {k \in DOMAIN keys : k \in at => k = Min(at)}
      row_at(k) == IF k \in at THEN row ELSE keys[k]
  IN IF at = {} THEN Append(keys, row)
     ELSE [n \in 1..Cardinality(kept) |-> row_at(Nth(kept, n))]

provision(id, budget) ==
  /\ ~failed /\ minted < MaxSecrets
  /\ minted' = minted + 1
  /\ write_through(id, Placed([id |-> id, secret |-> minted', off |-> FALSE,
                               budget |-> budget]), minted')

Disabled(id) ==
  [k \in DOMAIN keys |-> IF keys[k].id = id THEN [keys[k] EXCEPT !.off = TRUE]
                                            ELSE keys[k]]

\* An id without a live row is answered without a write.
disable(id) ==
  /\ ~failed
  /\ IF Live(keys, id) # {} THEN write_through(id, Disabled(id), Off)
     ELSE /\ view' = [view EXCEPT ![id] = Off]
          /\ UNCHANGED <<keys, disk, failed, crashes, revoked>>
  /\ UNCHANGED minted

\* from_config at the next start.
Restart ==
  /\ crashes < MaxCrashes /\ crashes' = crashes + 1
  /\ keys' = disk /\ failed' = FALSE
  /\ UNCHANGED <<disk, minted, view, revoked>>

authenticate(row) == ~failed /\ ~row.off /\ \E k \in DOMAIN keys : keys[k] = row

\* The budget of the first row of the id, a disabled one included.
budget_for_key(id) ==
  LET at == {k \in DOMAIN keys : keys[k].id = id}
  IN IF at = {} THEN {}
     ELSE {keys[Min(at)].budget}

Change == \E id \in Ids : disable(id) \/ \E b \in Budgets : provision(id, b)

KeysSpec == KeysInit /\ [][Change \/ Restart]_keyVars
-----------------------------------------------------------------------------
(* Properties.                                                             *)

\* While requests are served, a restart would change nothing about them: what
\* authenticates is what the file holds (keys.rs:3, "write-through-persisted
\* to the SAME keys file so restarts re-hydrate").
ServesWhatIsPersisted == ~failed => keys = disk

\* A secret that an answered call replaced or disabled stays dead, whatever
\* fails, crashes or is retried later (keys.rs:138, "a re-provision rotates
\* the secret", and keys.rs:206).
RevokedStaysRevoked ==
  \A s \in revoked, id \in Ids : s \notin Live(keys, id) \cup Live(disk, id)

\* The broker's record of a key is the relay's: the secret it was handed last
\* is the one live secret of the id, none after a disable, whichever rows the
\* boot file had (keys.rs:140, "ONE live secret per id").
BrokerViewHolds ==
  \A id \in Ids :
    /\ view[id] \in 1..MaxSecrets => Live(keys, id) = {view[id]}
    /\ view[id] = Off => Live(keys, id) = {}

\* The registry, its file and the broker agree: types with no secret in two
\* rows, the file holds what is served, and the secret handed out last is the
\* live one (keys.rs:3 and 140).
KeysInv == KeysTypeOK /\ ServesWhatIsPersisted /\ BrokerViewHolds
=============================================================================
