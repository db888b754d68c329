------------------------------ MODULE OneShot ------------------------------
(***************************************************************************)
(* What every login store of the broker promises of a credential it hands  *)
(* out (a magic link, an OAuth state, a SIWE nonce, a passkey challenge):  *)
(* one call at most comes to own it, only its owner may turn it into a     *)
(* session, at most once, and a credential that was dropped never returns. *)
(***************************************************************************)
CONSTANT Ids   \* credentials

VARIABLE st    \* credential -> where it stands

OneShotInit == st = [i \in Ids |-> "absent"]

Issue(i) == st[i] = "absent" /\ st' = [st EXCEPT ![i] = "open"]

Own(i) == st[i] = "open" /\ st' = [st EXCEPT ![i] = "owned"]

Grant(i) == st[i] = "owned" /\ st' = [st EXCEPT ![i] = "granted"]

\* Owners give up or die, any number of them in one step.
Drop(S) ==
  /\ \A i \in S : st[i] = "owned"
  /\ st' = [i \in Ids |-> IF i \in S THEN "dropped" ELSE st[i]]

OneShotNext ==
  \/ \E i \in Ids : Issue(i) \/ Own(i) \/ Grant(i)
  \/ \E S \in SUBSET Ids : Drop(S)

OneShotSpec == OneShotInit /\ [][OneShotNext]_st
=============================================================================
