-------------------------------- MODULE Feed --------------------------------
(***************************************************************************)
(* One channel feed, from publish to turn: the channel worker that stores  *)
(* events and holds long polls (agentkeys-worker-channel), the broker's    *)
(* wake of a hibernating app (handlers/wake.rs) and the feed poller of the *)
(* daemon in its sandbox (chat_loop.rs), which hands events to the app.    *)
(*                                                                         *)
(* An event id is the worker's clock and a counter, taken before the event *)
(* is stored; a poll carries a cursor and reads what sorts after it.  A    *)
(* crash of the worker loses its handlers and restarts the counter.        *)
(*                                                                         *)
(* Only inbound turns are modelled: replies and lifecycle reports share    *)
(* the feed and are filtered out.  Caps, blobs, the deletion of a channel  *)
(* and a clock that runs backwards are left out.                           *)
(***************************************************************************)
EXTENDS Integers, Sequences, FiniteSets

CONSTANTS
  Publishers,  \* concurrent publish handlers
  PageSize,    \* MAX_LIST_KEYS of one listing
  WakeTail,    \* WAKE_REPLAY_TAIL
  Margin,      \* MARGIN_MS of wake_replay_since
  MaxTime,     \* bound: the clock stops here
  MaxEvents,   \* bound: events stored
  MaxSeq,      \* bound: events numbered by one run of the worker
  MaxCrashes,  \* bound: crashes of the worker
  MaxBoots     \* bound: starts of the sandbox or of its poller

Ids == [ts : 1..MaxTime, seq : 0..MaxSeq]
Start == [ts |-> 0, seq |-> 0]        \* the empty cursor sorts before all

NoWake == 0      \* the daemon reads a window of 0 as none

ASSUME FeedAssumption ==
  /\ PageSize \in Nat \ {0} /\ WakeTail \in Nat \ {0}
  /\ Margin \in Nat /\ MaxTime \in Nat /\ MaxTime > Margin
  /\ MaxEvents \in Nat /\ MaxSeq \in Nat
  /\ MaxCrashes \in Nat /\ MaxBoots \in Nat

VARIABLES
  clock,
  seq,       \* SEQ
  feed,      \* stored events, in the order their puts landed
  pub,       \* publish handler -> its step and event
  wakes,     \* wake requests on their way to the broker
  box,       \* "off", "creating" or "up": the app's sandbox
  since,     \* AGENTKEYS_WAKE_SINCE_MS it was created with, or NoWake
  cursor,    \* of the poller
  ready,     \* fast_forwarded
  poll,      \* the poll in flight: its step and what it listed
  notified,  \* its waiter was signalled
  unsignalled,  \* history: stored while it waits, their publisher then dropped
  crashes, boots,
  handed,    \* history: events this sandbox handed to the app
  twice,     \* history: those it handed again
  skipped    \* history: events its first read passed over

worker == <<seq, feed, pub, wakes>>
poller == <<cursor, ready, poll, notified, unsignalled>>
history == <<handed, twice, skipped>>
vars == <<clock, worker, box, since, poller, crashes, boots, history>>

Stored == {feed[k] : k \in DOMAIN feed}
Lt(a, b) == a.ts < b.ts \/ (a.ts = b.ts /\ a.seq < b.seq)
After(c) == {e \in Stored : Lt(c, e)}

Quiet == [step |-> "idle", id |-> Start]
NoPoll == [step |-> "idle", got |-> {}]

\* Types, and no key is ever stored twice: a put is refused when it exists.
TypeOK ==
  /\ clock \in 1..MaxTime /\ seq \in 0..(MaxSeq + 1)
  /\ feed \in Seq(Ids) /\ Len(feed) = Cardinality(Stored)
  /\ pub \in [Publishers -> [step : {"put", "signal"}, id : Ids] \cup {Quiet}]
  /\ wakes \subseteq Ids
  /\ box \in {"off", "creating", "up"} /\ since \in NoWake..MaxTime
  /\ cursor \in Ids \cup {Start} /\ ready \in BOOLEAN
  /\ poll \in [step : {"idle", "list", "listed", "wait", "relist", "answer"},
               got : SUBSET Ids]
  /\ notified \in BOOLEAN
  /\ crashes \in 0..MaxCrashes /\ boots \in 0..MaxBoots
  /\ handed \subseteq Ids /\ twice \subseteq Ids /\ skipped \subseteq Ids
  /\ unsignalled \subseteq Ids
-----------------------------------------------------------------------------
Init ==
  /\ clock = Margin + 1 /\ seq = 0 /\ feed = <<>>
  /\ pub = [p \in Publishers |-> Quiet]
  /\ wakes = {}
  /\ box = "off" /\ since = NoWake
  /\ cursor = Start /\ ready = FALSE /\ poll = NoPoll /\ notified = FALSE
  /\ crashes = 0 /\ boots = 0
  /\ handed = {} /\ twice = {} /\ skipped = {} /\ unsignalled = {}

(* The worker.                                                             *)

\* The id is taken, then the event is encrypted and put.  Only this step reads
\* the clock, so the time that passes before it passes here.
channel_publish(p) ==
  /\ pub[p] = Quiet /\ seq <= MaxSeq
  /\ Len(feed) + Cardinality({q \in Publishers : pub[q].step = "put"}) < MaxEvents
  /\ clock' \in clock..MaxTime
  /\ pub' = [pub EXCEPT ![p] =
               [step |-> "put", id |-> [ts |-> clock', seq |-> seq]]]
  /\ seq' = seq + 1
  /\ UNCHANGED <<feed, wakes, box, since, poller, crashes, boots, history>>

Puttable(id) == id \notin Stored

Put(p) ==
  /\ pub[p].step = "put" /\ Puttable(pub[p].id)
  /\ feed' = Append(feed, pub[p].id)
  /\ pub' = [pub EXCEPT ![p].step = "signal"]
  /\ UNCHANGED <<clock, seq, wakes, box, since, poller, crashes, boots, history>>

\* The store refuses or is down: nothing is signalled.
PutFails(p) ==
  /\ pub[p].step = "put"
  /\ pub' = [pub EXCEPT ![p] = Quiet]
  /\ UNCHANGED <<clock, seq, feed, wakes, box, since, poller, crashes, boots,
                 history>>

\* The poll in flight has a waiter.
Waiting == poll.step \in {"list", "listed", "wait"}

\* After the audit receipt: every waiter of the feed is notified, whether the
\* receipt came or not, and a wake request is sent on its own.
signal(p) ==
  /\ pub[p].step = "signal"
  /\ notified' = (notified \/ Waiting)
  /\ wakes' = wakes \cup {pub[p].id}
  /\ pub' = [pub EXCEPT ![p] = Quiet]
  /\ UNCHANGED <<clock, seq, feed, box, since, cursor, ready, poll, unsignalled,
                 crashes, boots, history>>

\* The handler is awaiting the audit receipt when its caller hangs up: it is
\* dropped there, the event is stored and nobody is told.
PublisherDropped(p) ==
  /\ pub[p].step = "signal"
  /\ unsignalled' = IF Waiting THEN unsignalled \cup {pub[p].id} ELSE unsignalled
  /\ pub' = [pub EXCEPT ![p] = Quiet]
  /\ UNCHANGED <<clock, seq, feed, wakes, box, since, cursor, ready, poll,
                 notified, crashes, boots, history>>

\* Mutant of Register: a signal that came before the wait is forgotten.
RegisterLate == poll' = [poll EXCEPT !.step = "wait"] /\ notified' = FALSE

\* The waiter was enabled before the listing and keeps an earlier signal.
Register == poll' = [poll EXCEPT !.step = "wait"] /\ UNCHANGED notified

Rank(e, S) == Cardinality({d \in S : Lt(d, e)})

\* A first read asks for the tail over all pages, later ones for one page.
channel_list_after ==
  LET S == After(cursor)
      n == IF since # NoWake THEN WakeTail ELSE 1
  IN IF ready THEN {e \in S : Rank(e, S) < PageSize}
              ELSE {e \in S : Rank(e, S) >= Cardinality(S) - n}

Answer(S) == poll' = [step |-> "answer", got |-> S]

\* The read of all pages is one step.
List ==
  /\ poll.step = "list"
  /\ poll' = [step |-> "listed", got |-> channel_list_after]
  /\ UNCHANGED <<clock, worker, box, since, cursor, ready, notified,
                 unsignalled, crashes, boots, history>>

\* The first read does not wait (wait_seconds is 0 until fast_forwarded).
channel_poll ==
  /\ poll.step = "listed"
  /\ IF poll.got = {} /\ ready THEN Register
     ELSE Answer(poll.got) /\ UNCHANGED notified
  /\ UNCHANGED <<clock, worker, box, since, cursor, ready, unsignalled, crashes,
                 boots, history>>

\* Mutant of WaitOver: only a signal ends the wait.
WaitOverSignalled == notified

\* Woken, or the timeout of the wait passed: it may pass at any moment.
WaitOver == TRUE

WaitEnds ==
  /\ poll.step = "wait" /\ WaitOver
  /\ poll' = [poll EXCEPT !.step = "relist"]
  /\ UNCHANGED <<clock, worker, box, since, cursor, ready, notified,
                 unsignalled, crashes, boots, history>>

Relist ==
  /\ poll.step = "relist"
  /\ Answer(channel_list_after)
  /\ UNCHANGED <<clock, worker, box, since, cursor, ready, notified,
                 unsignalled, crashes, boots, history>>

NoMorePoll == poll' = NoPoll /\ notified' = FALSE /\ unsignalled' = {}

WorkerCrash ==
  /\ crashes < MaxCrashes
  /\ crashes' = crashes + 1
  /\ pub' = [p \in Publishers |-> Quiet]
  /\ seq' = 0 /\ NoMorePoll
  /\ UNCHANGED <<clock, feed, wakes, box, since, cursor, ready, boots, history>>
-----------------------------------------------------------------------------
(* The broker's wake, and whatever else starts and stops the sandbox.      *)

wake_replay_since(id) == IF id.ts > Margin THEN id.ts - Margin ELSE 0

Forget ==
  /\ cursor' = Start /\ ready' = FALSE /\ NoMorePoll

\* A running sandbox is left alone, a create under way is joined, otherwise
\* one is created with the replay window.
sandbox_wake(id) ==
  /\ id \in wakes
  /\ wakes' = wakes \ {id}
  /\ IF box = "off" THEN box' = "creating" /\ since' = wake_replay_since(id)
                    ELSE UNCHANGED <<box, since>>
  /\ UNCHANGED <<clock, seq, feed, pub, poller, crashes, boots, history>>

WakeFails(id) ==
  /\ id \in wakes
  /\ wakes' = wakes \ {id}
  /\ UNCHANGED <<clock, seq, feed, pub, box, since, poller, crashes, boots,
                 history>>

\* The create ends, or a sandbox is started for another reason; its daemon
\* boots with an empty cursor.
Boot(since0) ==
  /\ boots < MaxBoots
  /\ boots' = boots + 1
  /\ box' = "up" /\ since' = since0
  /\ Forget
  /\ UNCHANGED <<clock, worker, crashes, history>>

Created == box = "creating" /\ Boot(since)
ensure_for_delegate == box = "off" /\ Boot(NoWake)

CreateFails ==
  /\ box = "creating"
  /\ box' = "off" /\ since' = NoWake
  /\ UNCHANGED <<clock, worker, poller, crashes, boots, history>>

Stop ==
  /\ box = "up"
  /\ box' = "off" /\ since' = NoWake /\ Forget
  /\ handed' = {} /\ twice' = {} /\ skipped' = {}
  /\ UNCHANGED <<clock, worker, crashes, boots>>
-----------------------------------------------------------------------------
(* The daemon's poller.                                                    *)

\* The worker registers the waiter, then lists.
poll_feed ==
  /\ box = "up" /\ poll.step = "idle"
  /\ poll' = [step |-> "list", got |-> {}]
  /\ notified' = FALSE /\ unsignalled' = {}
  /\ UNCHANGED <<clock, worker, box, since, cursor, ready, crashes, boots,
                 history>>

\* Mutant of Advance: the cursor is taken from the end of the feed.
AdvanceToEnd(S) == IF S = {} THEN cursor
                   ELSE CHOOSE e \in Stored : \A d \in Stored : ~Lt(e, d)

Advance(S) == IF S = {} THEN cursor ELSE CHOOSE e \in S : \A d \in S : ~Lt(e, d)

\* Mutant of wake_replay: the whole first read is replayed.
ReplayAll(S) == S

\* What a first read hands on: nothing, or the turns since the wake window.
wake_replay(S) == {e \in S : since # NoWake /\ e.ts >= since}

Receive ==
  LET S == poll.got
      T == IF ready THEN S ELSE wake_replay(S)
  IN /\ poll.step = "answer"
     /\ cursor' = Advance(S)
     /\ ready' = TRUE
     /\ handed' = handed \cup T
     /\ twice' = twice \cup (T \cap handed)
     /\ skipped' = IF ready THEN skipped
                   ELSE skipped \cup {e \in Stored : ~Lt(cursor', e)}
     /\ NoMorePoll
     /\ UNCHANGED <<clock, worker, box, since, crashes, boots>>

\* A listing, a read or the connection fails: the poller backs off and polls
\* again from the same cursor.
PollFails ==
  /\ poll.step # "idle"
  /\ NoMorePoll
  /\ UNCHANGED <<clock, worker, box, since, cursor, ready, crashes, boots,
                 history>>

\* The feed is unbound and bound again: the poller is aborted and a new one
\* starts in the running sandbox.
reconcile_pollers ==
  /\ box = "up" /\ boots < MaxBoots
  /\ boots' = boots + 1
  /\ Forget
  /\ UNCHANGED <<clock, worker, box, since, crashes, history>>

Publish(p) == \/ channel_publish(p) \/ Put(p) \/ PutFails(p)
              \/ signal(p) \/ PublisherDropped(p)

Polling == List \/ channel_poll \/ WaitEnds \/ Relist \/ poll_feed \/ Receive

Next ==
  \/ \E p \in Publishers : Publish(p)
  \/ Polling
  \/ PollFails
  \/ WorkerCrash
  \/ \E id \in wakes : sandbox_wake(id) \/ WakeFails(id)
  \/ Created \/ CreateFails \/ ensure_for_delegate \/ Stop
  \/ reconcile_pollers

Spec == Init /\ [][Next]_vars

\* A poll goes on until it is answered: the wait has a timeout, and a poll
\* that is retried for ever succeeds in the end.
FairSpec ==
  /\ Spec
  /\ WF_vars(poll_feed)
  /\ SF_vars(List) /\ SF_vars(channel_poll) /\ SF_vars(WaitEnds)
  /\ SF_vars(Relist) /\ SF_vars(Receive)
-----------------------------------------------------------------------------
(* Properties.                                                             *)

\* A poll never sleeps over an event that was signalled: while it waits
\* unnotified, an event past its cursor has a publisher that has yet to signal
\* (wakeup.rs:40, "retained across the initial read race",
\* local-storage.md:60).  The one exception is an event whose publisher was
\* dropped between the put and the signal (handlers.rs:102): it is left to the
\* timeout of the wait, or to the next signal of the feed.
NoLostWakeup ==
  poll.step = "wait" /\ ~notified =>
    \A e \in After(cursor) \ unsignalled :
      \E p \in Publishers : pub[p] = [step |-> "signal", id |-> e]

Overtaken(e) ==
  \E i, j \in DOMAIN feed : i < j /\ feed[j] = e /\ Lt(e, feed[i])

\* A poller that has caught up passes over no event, unless a later id was
\* stored first: the id is taken before the put (handlers.rs:181).
MissedOnlyIfOvertaken ==
  ready => \A e \in Stored \ (After(cursor) \cup handed \cup skipped) :
             Overtaken(e)

\* A sandbox that was not created by a wake never answers a turn twice, not
\* even when its poller is restarted (chat_loop.rs:1034).
ColdBootAnswersOnce == since = NoWake => twice = {}

\* A poller that runs on catches up with its feed again and again, page by
\* page and over failed polls and restarts of the worker (chat_loop.rs:1046).
\* With MissedOnlyIfOvertaken: what was stored in order reaches the app.
CatchesUp == []<>(~ready \/ After(cursor) = {})

\* Types, no key stored twice by workers that number their events anew after
\* a crash, and no turn answered twice by a boot without a wake window
\* (handlers.rs:186, chat_loop.rs:1034).
FeedInv == TypeOK /\ ColdBootAnswersOnce
=============================================================================
